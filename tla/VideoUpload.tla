---------------------------- MODULE VideoUpload ----------------------------
(***************************************************************************)
(* The upload and processing of one video: the browser's flow              *)
(* (use-video-upload-flow.ts, video-tus.ts), the API's upload intent and   *)
(* webhook handler (media-asset.service.ts), and the video provider as the *)
(* code of the repository uses it.  The provider reports each of its steps *)
(* by a webhook, delivered at least once, in any order and several at a    *)
(* time; some libraries never report the last one.                         *)
(***************************************************************************)
EXTENDS Naturals, FiniteSets

CONSTANT Deliveries    \* webhook requests being served

VARIABLES
  view,        \* the browser's flow, and the intent request while it is served
  asset,       \* the row of video_assets: its status and whether it has a duration
  provider,    \* what the provider has done with the video
  mail,        \* webhooks that the provider has sent and may send again
  handler      \* how far the service of each webhook request is

vidVars == <<view, asset, provider, mail, handler>>

-----------------------------------------------------------------------------
(* The provider's statuses, as the code tells them apart: queued and upload *)
(* started; processing, encoding and upload finished; a resolution          *)
(* finished; finished; encoding or upload failed.                           *)
Reports == {"waiting", "working", "resolution", "finished", "failed"}

\* mapBunnyStatusToAssetUpdate, and the reads of status 3 and 4.
HandlerStage == {"idle", "process", "look", "promote", "measure", "finish", "finish-known", "fail"}

View ==
  {"idle", "initiating", "inserting", "signing", "unsigned", "uploading", "upload-failed",
   "queued", "over"}

Provider ==
  {"none", "empty", "receiving", "interrupted", "encoding", "partial", "complete",
   "finished", "broken"}

\* The provider has all the bytes.
Received == {"encoding", "partial", "complete", "finished", "broken"}

VideoTypeOK ==
  /\ view \in View
  /\ asset \in [status : {"absent", "UPLOADING", "PROCESSING", "READY", "FAILED"},
                measured : BOOLEAN]
  /\ provider \in Provider
  /\ mail \subseteq Reports
  /\ handler \in [Deliveries -> HandlerStage]

VideoInit ==
  /\ view = "idle"
  /\ asset = [status |-> "absent", measured |-> FALSE]
  /\ provider = "none"
  /\ mail = {}
  /\ handler = [d \in Deliveries |-> "idle"]

-----------------------------------------------------------------------------
(* createVideoUploadIntent *)

BeginUpload ==
  /\ view = "idle" /\ view' = "initiating"
  /\ UNCHANGED <<asset, provider, mail, handler>>

\* The provider's resource comes first, then the row.
CreateResource ==
  /\ view = "initiating" /\ provider = "none"
  /\ view' = "inserting" /\ provider' = "empty" /\ mail' = mail \cup {"waiting"}
  /\ UNCHANGED <<asset, handler>>

InsertAsset ==
  /\ view = "inserting" /\ view' = "signing"
  /\ asset' = [asset EXCEPT !.status = "UPLOADING"]
  /\ UNCHANGED <<provider, mail, handler>>

SignTus ==
  /\ view = "signing" /\ view' \in {"uploading", "unsigned"}
  /\ UNCHANGED <<asset, provider, mail, handler>>

FailUnsigned ==
  /\ view = "unsigned" /\ view' = "over"
  /\ asset' = IF asset.status = "UPLOADING" THEN [asset EXCEPT !.status = "FAILED"] ELSE asset
  /\ UNCHANGED <<provider, mail, handler>>

\* An error of the provider, a stop of the instance or a lost answer.
BeginFails ==
  /\ view \in {"initiating", "inserting", "signing", "unsigned"} /\ view' = "over"
  /\ UNCHANGED <<asset, provider, mail, handler>>

-----------------------------------------------------------------------------
(* The browser's transfer *)

UploadSucceeds ==
  /\ view = "uploading" /\ provider \in Received
  /\ view' = "queued"
  /\ UNCHANGED <<asset, provider, mail, handler>>

UploadErrors ==
  /\ view = "uploading" /\ view' = "upload-failed"
  /\ UNCHANGED <<asset, provider, mail, handler>>

\* retryUpload resumes the same transfer, startOver gives it up.
ResumeOrGiveUp ==
  /\ view = "upload-failed" /\ view' \in {"uploading", "over"}
  /\ UNCHANGED <<asset, provider, mail, handler>>

-----------------------------------------------------------------------------
(* The provider *)

Advance(from, to, report) ==
  /\ provider \in from
  /\ provider' = to /\ mail' = mail \cup {report}
  /\ UNCHANGED <<view, asset, handler>>

TransferStarts ==
  /\ view = "uploading"
  /\ Advance({"empty", "interrupted"}, "receiving", "waiting")

Encode ==
  \/ Advance({"receiving"}, "interrupted", "failed")
  \/ Advance({"receiving"}, "encoding", "working")
  \/ Advance({"encoding"}, "partial", "resolution")
  \/ Advance({"partial"}, "complete", "resolution")
  \/ Advance({"complete"}, "finished", "finished")
  \/ Advance({"encoding", "partial"}, "broken", "failed")

-----------------------------------------------------------------------------
(* handleVideoProviderWebhook *)

\* Mutant of Promotable: a failure is final.
PromotableUnlessFailed == asset.status \in {"UPLOADING", "PROCESSING"}

\* The statuses from which READY may be recorded.
Promotable == asset.status \in {"UPLOADING", "PROCESSING", "FAILED"}

Underway == asset.status \in {"UPLOADING", "PROCESSING"}

Step(d, s) == handler' = [handler EXCEPT ![d] = s]

\* The first statement of the handler, which for statuses 3 and 4 is a read.
DeliverReport(d, m) ==
  /\ handler[d] = "idle" /\ m \in mail
  /\ \/ m = "working" /\ Step(d, "process")
     \/ m = "failed" /\ Step(d, "fail")
     \/ m = "resolution" /\ Step(d, IF Promotable THEN "look" ELSE "process")
     \/ m = "finished" /\ Step(d, "finish-known")
     \/ m = "finished" /\ Step(d, IF Promotable THEN "measure" ELSE "finish")
  /\ UNCHANGED <<view, asset, provider, mail>>

\* The update of status 0 and 6 writes what is there, or nothing.
DeliverWaiting ==
  /\ "waiting" \in mail /\ mail' = mail \ {"waiting"}
  /\ UNCHANGED <<view, asset, provider, handler>>

\* The request is answered; the provider may send its report again all the same.
Served(d, reports) ==
  /\ Step(d, "idle")
  /\ mail' \in {mail, mail \ reports}
  /\ UNCHANGED <<view, provider>>

\* Mutant of Complete: a finished resolution is taken for a finished video.
CompleteOnceResolved == provider \in {"partial", "complete", "finished"}

\* isResolutionFinishedGenuinelyComplete, of the metadata the provider has now.
Complete == provider = "complete"

\* fetchVideoMetadata for status 4: it may fail.
Look(d) ==
  /\ handler[d] = "look"
  /\ \/ Complete /\ Step(d, "promote")
     \/ Step(d, "process")
  /\ UNCHANGED <<view, asset, provider, mail>>

Ready(measured) == [status |-> "READY", measured |-> measured]

PromoteVideo(d) ==
  /\ handler[d] = "promote"
  /\ IF Promotable
     THEN asset' = Ready(TRUE) /\ Served(d, {"resolution"})
     ELSE Step(d, "process") /\ UNCHANGED <<view, asset, provider, mail>>

Process(d) ==
  /\ handler[d] = "process"
  /\ asset' = IF Underway THEN [asset EXCEPT !.status = "PROCESSING"] ELSE asset
  /\ Served(d, {"working", "resolution"})

\* fetchVideoMetadata for a report of status 3 without a duration.
Measure(d) ==
  /\ handler[d] = "measure"
  /\ handler' \in {[handler EXCEPT ![d] = s] : s \in {"finish", "finish-known"}}
  /\ UNCHANGED <<view, asset, provider, mail>>

FinishVideo(d) ==
  /\ handler[d] \in {"finish", "finish-known"}
  /\ asset' = IF Promotable THEN Ready(handler[d] = "finish-known") ELSE asset
  /\ Served(d, {"finished"})

\* Mutant of Failed: a failure is recorded whatever the status.
FailedWhatever == [asset EXCEPT !.status = "FAILED"]

Failed == IF Underway THEN [asset EXCEPT !.status = "FAILED"] ELSE asset

FailVideo(d) ==
  /\ handler[d] = "fail"
  /\ asset' = Failed
  /\ Served(d, {"failed"})

\* The instance stops; the provider sends the report again.
Crash(d) ==
  /\ handler[d] # "idle"
  /\ Step(d, "idle")
  /\ UNCHANGED <<view, asset, provider, mail>>

-----------------------------------------------------------------------------
Handle(d) == Look(d) \/ PromoteVideo(d) \/ Process(d) \/ Measure(d) \/ FinishVideo(d) \/ FailVideo(d)

VideoNext ==
  \/ BeginUpload \/ CreateResource \/ InsertAsset \/ SignTus \/ FailUnsigned \/ BeginFails
  \/ UploadSucceeds \/ UploadErrors \/ ResumeOrGiveUp
  \/ TransferStarts \/ Encode
  \/ DeliverWaiting
  \/ \E d \in Deliveries : Handle(d) \/ Crash(d) \/ \E m \in Reports : DeliverReport(d, m)

\* The provider sends a report until it is served, a request takes its next
\* step unless the instance stops, and an instance does not stop at the same
\* point of the same request for ever.
VideoFairness ==
  \A d \in Deliveries :
    /\ SF_vidVars(DeliverReport(d, "finished"))
    /\ WF_vidVars(Handle(d)) /\ SF_vidVars(Measure(d)) /\ SF_vidVars(FinishVideo(d))

VideoSpec == VideoInit /\ [][VideoNext]_vidVars

-----------------------------------------------------------------------------
(* Properties *)

\* An asset is READY only when the provider has every resolution of it, on
\* whatever stale metadata and repeated reports that was decided; and the
\* browser says "queued" only when no byte is missing.
ReadyIsComplete ==
  /\ asset.status = "READY" => provider \in {"complete", "finished"}
  /\ view = "queued" => provider \in Received

\* A video that the provider reports finished becomes READY, whatever failures
\* were recorded before and whatever reports come late.
FinishedBecomesReady == ("finished" \in mail) ~> (asset.status = "READY")

=============================================================================
