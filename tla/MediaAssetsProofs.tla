-------------------------- MODULE MediaAssetsProofs --------------------------
(***************************************************************************)
(* What holds of a media asset with any number of files, confirmations and *)
(* webhook requests.  The invariant says, of a request in the middle of    *)
(* its work, what the row, the store and the provider must look like for   *)
(* its next step to be right, whatever other requests did meanwhile.       *)
(***************************************************************************)
EXTENDS MediaAssets, TLAPS

-----------------------------------------------------------------------------
(* Documents *)

FileIsChosen == phase # "idle" => file # None

\* A confirmation past its lookup has found a row; one that reports has seen it
\* leave UPLOADING; one that cleans up has recorded READY; one that verifies or
\* records has something under the final key.
ConfirmationsAreInOrder ==
  \A c \in Confirmations :
    /\ stage[c] \notin {"idle", "find"} => row.status # "absent"
    /\ stage[c] = "report" => row.status \in {"READY", "FAILED"}
    /\ stage[c] = "clean" => row.status = "READY"
    /\ stage[c] \in {"verify", "record"} => final # None

DocumentInv == DocumentTypeOK /\ FileIsChosen /\ ConfirmationsAreInOrder /\ ReportsAreTrue

\* As long as no two confirmations overlap, the one that is served finds the
\* asset not READY until it makes it so itself, with an object that matches.
SoleInv ==
  ~overlapped =>
    /\ \A c, d \in Confirmations : (stage[c] # "idle" /\ stage[d] # "idle") => c = d
    /\ \A c \in Confirmations :
         /\ stage[c] \in {"head", "promote", "verify", "record"} => row.status # "READY"
         /\ stage[c] = "record" => Matches(final)
    /\ row.status = "READY" => Matches(final)

LEMMA DocumentInitially == DocumentInit => DocumentInv /\ SoleInv
<1> SUFFICES ASSUME DocumentInit PROVE DocumentInv /\ SoleInv
    OBVIOUS
<1> USE DEF DocumentInit
<1>1. DocumentTypeOK BY DEF DocumentTypeOK, Phase, Stage
<1>2. \A c \in Confirmations : stage[c] = "idle" OBVIOUS
<1>3. FileIsChosen /\ ConfirmationsAreInOrder /\ ReportsAreTrue
    BY <1>2 DEF FileIsChosen, ConfirmationsAreInOrder, ReportsAreTrue
<1>4. SoleInv BY <1>2 DEF SoleInv
<1> QED BY <1>1, <1>3, <1>4 DEF DocumentInv

\* The browser's own steps: they leave the row, the objects and the stages alone.
LEMMA BrowserStep ==
  ASSUME DocumentInv,
         ChooseFile \/ StartUpload \/ RetryUpload \/ PutRefused \/ Cancel \/ LoseAnswer \/ StartOver
  PROVE  DocumentInv' /\ (SoleInv => SoleInv') /\ UNCHANGED <<row, store>>
<1> USE DEF DocumentInv, DocumentTypeOK, FileIsChosen, ConfirmationsAreInOrder, ReportsAreTrue,
            SoleInv, Matches, store, Phase, Busy, Issued
<1>1. CASE ChooseFile BY <1>1, NoneAssumption DEF ChooseFile
<1>2. CASE StartUpload BY <1>2 DEF StartUpload
<1>3. CASE RetryUpload BY <1>3 DEF RetryUpload, SendFile
<1>4. CASE PutRefused BY <1>4 DEF PutRefused
<1>5. CASE Cancel BY <1>5 DEF Cancel
<1>6. CASE LoseAnswer BY <1>6 DEF LoseAnswer
<1>7. CASE StartOver BY <1>7 DEF StartOver
<1> QED BY <1>1, <1>2, <1>3, <1>4, <1>5, <1>6, <1>7

\* The store's steps change the temporary object only.
LEMMA StoreStep ==
  ASSUME DocumentInv, NEW f \in Files, PutAgain(f) \/ PutArrives(f) \/ PutVanishes(f)
  PROVE  DocumentInv' /\ (SoleInv => SoleInv') /\ UNCHANGED <<row, final>> /\ (temp # None => temp' # None)
  BY NoneAssumption
     DEF DocumentInv, DocumentTypeOK, FileIsChosen, ConfirmationsAreInOrder, ReportsAreTrue, SoleInv,
         Matches, store, browser, PutAgain, PutArrives, PutVanishes

\* The steps of createDocumentUploadIntent: none of them finds a confirmation past
\* its lookup, or a row that a confirmation has finished with.
LEMMA IntentStep ==
  ASSUME DocumentInv, InsertRow \/ SignUpload \/ SigningFails \/ MarkUnsigned \/ InitiateFails
  PROVE  /\ DocumentInv' /\ (SoleInv => SoleInv') /\ UNCHANGED store
         /\ row.status # "READY" => row'.status # "READY"
         /\ row.status \in {"READY", "FAILED"} => row' = row
<1> USE DEF DocumentInv, DocumentTypeOK, FileIsChosen, ConfirmationsAreInOrder, ReportsAreTrue,
            SoleInv, Matches, store, Phase, Busy, Issued
<1>1. CASE InsertRow BY <1>1, SizeAssumption DEF InsertRow
<1>2. CASE SignUpload BY <1>2 DEF SignUpload, SendFile
<1>3. CASE SigningFails BY <1>3 DEF SigningFails
<1>4. CASE MarkUnsigned BY <1>4 DEF MarkUnsigned
<1>5. CASE InitiateFails BY <1>5 DEF InitiateFails
<1> QED BY <1>1, <1>2, <1>3, <1>4, <1>5

\* A confirmation leaves for the API: it overlaps whichever is there.
LEMMA RunConfirmStep ==
  ASSUME DocumentInv, NEW c \in Confirmations, ConfirmAfterPut(c) \/ RetryConfirm(c)
  PROVE  DocumentInv' /\ (SoleInv => SoleInv') /\ UNCHANGED <<row, store>>
  BY ZenonT(60) DEF DocumentInv, DocumentTypeOK, FileIsChosen, ConfirmationsAreInOrder, ReportsAreTrue, SoleInv,
         Matches, store, Phase, Busy, Issued, Stage, ConfirmAfterPut, RetryConfirm, RunConfirm

\* An answer of a confirmation is true of the row.
LEMMA AnswerStep ==
  ASSUME DocumentInv, NEW c \in Confirmations, NEW result, Answer(c, result), UNCHANGED <<transit, row, final, overlapped>>,
         temp' \in {temp, None},
         result = "READY" => row.status = "READY",
         result \notin {"READY", "error"} => row.status = "FAILED"
  PROVE  DocumentInv' /\ (SoleInv => SoleInv')
  BY DEF DocumentInv, DocumentTypeOK, FileIsChosen, ConfirmationsAreInOrder, ReportsAreTrue, SoleInv,
         Matches, Phase, Busy, Issued, Stage, Answer

\* A step of a confirmation that is served, action by action.
LEMMA ConfirmStep ==
  ASSUME DocumentInv, NEW c \in Confirmations, Confirm(c)
  PROVE  DocumentInv' /\ (SoleInv => SoleInv')
<1>t. /\ stage \in [Confirmations -> Stage] /\ row.status \in {"absent", "UPLOADING", "READY", "FAILED"}
      /\ stage[c] \notin {"idle", "find"} => row.status # "absent"
      /\ stage[c] = "report" => row.status \in {"READY", "FAILED"}
      /\ stage[c] = "clean" => row.status = "READY"
    BY DEF DocumentInv, DocumentTypeOK, ConfirmationsAreInOrder
<1> USE DEF DocumentInv, DocumentTypeOK, FileIsChosen, ConfirmationsAreInOrder, ReportsAreTrue,
            SoleInv, Matches, Stage, Goto, browser, store
<1>1. CASE FindRow(c)
  <2>1. CASE row.status = "UPLOADING" BY <1>1, <2>1 DEF FindRow
  <2>2. CASE row.status # "UPLOADING"
    <3>1. PICK result : Answer(c, result) /\ (result = "READY" => row.status = "READY") /\ result \in {"READY", "error"}
        BY <1>1, <2>2 DEF FindRow
    <3> QED BY <1>1, <3>1, AnswerStep DEF FindRow
  <2> QED BY <2>1, <2>2
<1>2. CASE HeadTemporary(c) BY <1>2 DEF HeadTemporary
<1>3. CASE MarkMismatch(c) BY <1>3 DEF MarkMismatch, Rejected
<1>4. CASE Report(c) BY <1>4, <1>t, AnswerStep DEF Report
<1>5. CASE Promote(c)
  <2>1. CASE temp = None BY <1>5, <2>1 DEF Promote
  <2>2. CASE temp # None BY <1>5, <2>2 DEF Promote
  <2> QED BY <2>1, <2>2
<1>6. CASE PromoteFails(c) BY <1>6 DEF PromoteFails
<1>7. CASE VerifyFinal(c) BY <1>7 DEF VerifyFinal, Verified
<1>8. CASE RecordReady(c)
  <2>1. CASE row.status = "UPLOADING" /\ row.ref = "temp"
    <3>1. /\ row' = [status |-> "READY", ref |-> "final", size |-> row.size]
          /\ stage[c] = "record" /\ stage' = [stage EXCEPT ![c] = "clean"]
          /\ UNCHANGED <<phase, file, waiting, transit, temp, final, overlapped>>
        BY <1>8, <2>1 DEF RecordReady
    <3>2. DocumentInv' BY <3>1, <2>1
    <3>3. SoleInv => SoleInv' BY <3>1
    <3> QED BY <3>2, <3>3
  <2>2. CASE ~(row.status = "UPLOADING" /\ row.ref = "temp") BY <1>8, <2>2 DEF RecordReady
  <2> QED BY <2>1, <2>2
<1>9. CASE Recheck(c) BY <1>9, AnswerStep DEF Recheck
<1>10. CASE DeleteTemporary(c) BY <1>10, <1>t, AnswerStep DEF DeleteTemporary, MayDelete
<1>11. CASE Fail(c) BY <1>11, AnswerStep DEF Fail
<1> QED BY <1>1, <1>2, <1>3, <1>4, <1>5, <1>6, <1>7, <1>8, <1>9, <1>10, <1>11 DEF Confirm

\* What a step of a confirmation may do to the row and to the two objects.
LEMMA ConfirmEffect ==
  ASSUME DocumentInv, NEW c \in Confirmations, Confirm(c)
  PROVE  /\ row.status \in {"READY", "FAILED"} => row' = row
         /\ row'.status = "READY" /\ row.status # "READY" => stage[c] = "record"
         /\ row'.status = "absent" => row.status = "absent"
         /\ row.status # "absent" => row'.size = row.size
         /\ (temp # None /\ temp' = None) => row.status = "READY"
         /\ final' # final => stage[c] = "promote"
<1> USE DEF DocumentInv, DocumentTypeOK, ConfirmationsAreInOrder, store
<1>1. CASE MarkMismatch(c) BY <1>1 DEF MarkMismatch, Rejected
<1>2. CASE Promote(c) BY <1>2 DEF Promote
<1>3. CASE RecordReady(c) BY <1>3 DEF RecordReady
<1>4. CASE DeleteTemporary(c) BY <1>4 DEF DeleteTemporary, MayDelete
<1>5. CASE \/ FindRow(c) \/ HeadTemporary(c) \/ Report(c) \/ PromoteFails(c) \/ VerifyFinal(c)
           \/ Recheck(c) \/ Fail(c)
    BY <1>5 DEF FindRow, HeadTemporary, Report, PromoteFails, VerifyFinal, Recheck, Fail
<1> QED BY <1>1, <1>2, <1>3, <1>4, <1>5 DEF Confirm

LEMMA DocumentStep == DocumentInv /\ [DocumentNext]_docVars => DocumentInv' /\ (SoleInv => SoleInv')
<1> SUFFICES ASSUME DocumentInv, [DocumentNext]_docVars PROVE DocumentInv' /\ (SoleInv => SoleInv')
    OBVIOUS
<1>1. CASE ChooseFile \/ StartUpload \/ RetryUpload \/ PutRefused \/ Cancel \/ LoseAnswer \/ StartOver
    BY <1>1, BrowserStep
<1>2. CASE InsertRow \/ SignUpload \/ SigningFails \/ MarkUnsigned \/ InitiateFails
    BY <1>2, IntentStep
<1>3. CASE \E f \in Files : PutAgain(f) \/ PutArrives(f) \/ PutVanishes(f) BY <1>3, StoreStep
<1>4. CASE \E c \in Confirmations : ConfirmAfterPut(c) \/ RetryConfirm(c) BY <1>4, RunConfirmStep
<1>5. CASE \E c \in Confirmations : Confirm(c) BY <1>5, ConfirmStep
<1>6. CASE UNCHANGED docVars
    BY <1>6 DEF docVars, DocumentInv, DocumentTypeOK, FileIsChosen, ConfirmationsAreInOrder,
       ReportsAreTrue, SoleInv, Matches
<1> QED BY <1>1, <1>2, <1>3, <1>4, <1>5, <1>6 DEF DocumentNext

\* A step of the document leaves what READY stands for alone, and deletes no upload
\* that is still needed.
LEMMA DocumentEffect ==
  ASSUME DocumentInv, [DocumentNext]_docVars
  PROVE  /\ row.status \in {"READY", "FAILED"} => row'.status = row.status
         /\ row'.status = "absent" => row.status = "absent"
         /\ (temp # None /\ temp' = None) => row.status = "READY"
         /\ (SoleInv /\ row.status = "READY" /\ ~overlapped) => Matches(final) /\ final' = final
<1>1. CASE ChooseFile \/ StartUpload \/ RetryUpload \/ PutRefused \/ Cancel \/ LoseAnswer \/ StartOver
    BY <1>1, BrowserStep DEF store, SoleInv
<1>2. CASE InsertRow \/ SignUpload \/ SigningFails \/ MarkUnsigned \/ InitiateFails
  <2>1. row'.status = "absent" => row.status = "absent"
      BY <1>2 DEF InsertRow, SignUpload, SendFile, SigningFails, MarkUnsigned, InitiateFails, DocumentInv, DocumentTypeOK
  <2> QED BY <1>2, <2>1, IntentStep DEF store, SoleInv
<1>3. CASE \E f \in Files : PutAgain(f) \/ PutArrives(f) \/ PutVanishes(f)
    BY <1>3, StoreStep DEF SoleInv
<1>4. CASE \E c \in Confirmations : ConfirmAfterPut(c) \/ RetryConfirm(c)
    BY <1>4, RunConfirmStep DEF store, SoleInv
<1>5. CASE \E c \in Confirmations : Confirm(c)
    BY <1>5, ConfirmEffect DEF SoleInv
<1>6. CASE UNCHANGED docVars BY <1>6 DEF docVars, SoleInv
<1> QED BY <1>1, <1>2, <1>3, <1>4, <1>5, <1>6 DEF DocumentNext

-----------------------------------------------------------------------------
(* Videos *)

\* The row comes after the intent has begun to insert it; a report that is sent or
\* served says what the provider has done.
VideoInv ==
  /\ VideoTypeOK
  /\ view \in {"idle", "initiating", "inserting"} => asset.status = "absent"
  /\ "finished" \in mail => provider = "finished"
  /\ \A d \in Deliveries :
       /\ handler[d] \in {"measure", "finish", "finish-known"} => provider = "finished"
       /\ handler[d] = "promote" => provider \in {"complete", "finished"}
  /\ ReadyIsComplete

LEMMA VideoInitially == VideoInit => VideoInv
  BY DEF VideoInit, VideoInv, VideoTypeOK, ReadyIsComplete, View, Provider, HandlerStage

\* What a step of a video may do to the status of its row.
StatusMayChange ==
  \/ asset'.status = asset.status
  \/ asset.status = "absent" /\ asset'.status = "UPLOADING"
  \/ asset.status \in {"UPLOADING", "PROCESSING"} /\ asset'.status \in {"PROCESSING", "READY", "FAILED"}
  \/ asset.status = "FAILED" /\ asset'.status = "READY"

\* The steps of createVideoUploadIntent and of the browser's transfer.
LEMMA ViewStep ==
  ASSUME VideoInv,
         \/ BeginUpload \/ CreateResource \/ InsertAsset \/ SignTus \/ FailUnsigned \/ BeginFails
         \/ UploadSucceeds \/ UploadErrors \/ ResumeOrGiveUp
  PROVE  VideoInv' /\ StatusMayChange
<1> USE DEF VideoInv, VideoTypeOK, ReadyIsComplete, View, Provider, Received, Reports, StatusMayChange
<1>1. CASE BeginUpload BY <1>1 DEF BeginUpload
<1>2. CASE CreateResource BY <1>2 DEF CreateResource
<1>3. CASE InsertAsset BY <1>3 DEF InsertAsset
<1>4. CASE SignTus BY <1>4 DEF SignTus
<1>5. CASE FailUnsigned BY <1>5 DEF FailUnsigned
<1>6. CASE BeginFails BY <1>6 DEF BeginFails
<1>7. CASE UploadSucceeds BY <1>7 DEF UploadSucceeds
<1>8. CASE UploadErrors BY <1>8 DEF UploadErrors
<1>9. CASE ResumeOrGiveUp BY <1>9 DEF ResumeOrGiveUp
<1> QED BY <1>1, <1>2, <1>3, <1>4, <1>5, <1>6, <1>7, <1>8, <1>9

\* The provider's steps: what it has finished stays finished.
LEMMA ProviderStep ==
  ASSUME VideoInv, TransferStarts \/ Encode
  PROVE  VideoInv' /\ StatusMayChange
  BY DEF VideoInv, VideoTypeOK, ReadyIsComplete, Provider, Received, Reports, StatusMayChange,
     TransferStarts, Encode, Advance

\* The steps of the webhook handler, whichever report it serves.
LEMMA HandlerStep ==
  ASSUME VideoInv, NEW d \in Deliveries,
         DeliverWaiting \/ Handle(d) \/ Crash(d) \/ \E m \in Reports : DeliverReport(d, m)
  PROVE  VideoInv' /\ StatusMayChange
<1> USE DEF VideoInv, VideoTypeOK, ReadyIsComplete, Provider, HandlerStage, Reports, StatusMayChange,
            Promotable, Underway, Step, Served
<1>1. CASE DeliverWaiting BY <1>1 DEF DeliverWaiting
<1>2. CASE Look(d) BY <1>2 DEF Look, Complete
<1>3. CASE PromoteVideo(d)
  <2>1. CASE Promotable
    <3>1. /\ asset' = [status |-> "READY", measured |-> TRUE]
          /\ handler' = [handler EXCEPT ![d] = "idle"]
          /\ mail' \in {mail, mail \ {"resolution"}} /\ UNCHANGED <<view, provider>>
          /\ provider \in {"complete", "finished"}
        BY <1>3, <2>1 DEF PromoteVideo, Ready
    <3>2. VideoTypeOK' BY <3>1
    <3>3. VideoInv' BY <2>1, <3>1, <3>2
    <3> QED BY <2>1, <3>1, <3>3
  <2>2. CASE ~Promotable BY <1>3, <2>2 DEF PromoteVideo
  <2> QED BY <2>1, <2>2
<1>4. CASE Process(d) BY <1>4 DEF Process
<1>5. CASE Measure(d) BY <1>5 DEF Measure
<1>6. CASE FinishVideo(d) BY <1>6 DEF FinishVideo, Ready
<1>7. CASE FailVideo(d) BY <1>7 DEF FailVideo, Failed
<1>8. CASE Crash(d) BY <1>8 DEF Crash
<1>9. CASE \E m \in Reports : DeliverReport(d, m) BY <1>9 DEF DeliverReport
<1> QED BY <1>1, <1>2, <1>3, <1>4, <1>5, <1>6, <1>7, <1>8, <1>9 DEF Handle

LEMMA VideoStep == VideoInv /\ [VideoNext]_vidVars => VideoInv' /\ StatusMayChange
<1> SUFFICES ASSUME VideoInv, [VideoNext]_vidVars PROVE VideoInv' /\ StatusMayChange
    OBVIOUS
<1>1. CASE \/ BeginUpload \/ CreateResource \/ InsertAsset \/ SignTus \/ FailUnsigned \/ BeginFails
           \/ UploadSucceeds \/ UploadErrors \/ ResumeOrGiveUp
    BY <1>1, ViewStep
<1>2. CASE TransferStarts \/ Encode BY <1>2, ProviderStep
<1>3. CASE DeliverWaiting
    BY <1>3 DEF DeliverWaiting, VideoInv, VideoTypeOK, ReadyIsComplete, StatusMayChange
<1>4. CASE \E d \in Deliveries : Handle(d) \/ Crash(d) \/ \E m \in Reports : DeliverReport(d, m)
    BY <1>4, HandlerStep
<1>5. CASE UNCHANGED vidVars
    BY <1>5 DEF vidVars, VideoInv, VideoTypeOK, ReadyIsComplete, StatusMayChange
<1> QED BY <1>1, <1>2, <1>3, <1>4, <1>5 DEF VideoNext

-----------------------------------------------------------------------------
(* The asset *)

MediaInv == kind \in {"document", "video"} /\ DocumentInv /\ SoleInv /\ VideoInv

\* One of the two tables has the asset, and a step of the asset is a step there.
LEMMA OneOfTwo == [Next]_mediaVars => [DocumentNext]_docVars /\ [VideoNext]_vidVars /\ kind' = kind
  BY DEF Next, mediaVars, docVars, vidVars

\* Every step keeps the invariant: a confirmation is right whatever it overlaps, and
\* so is the service of a webhook.
THEOREM Invariance == Spec => []MediaInv
<1>1. Init => MediaInv BY DocumentInitially, VideoInitially DEF Init, MediaInv
<1>2. MediaInv /\ [Next]_mediaVars => MediaInv'
    BY OneOfTwo, DocumentStep, VideoStep DEF MediaInv
<1> QED BY <1>1, <1>2, PTL DEF Spec

\* Every variable keeps its type: no handler of media-asset.service.ts writes a status
\* that is not one of AssetProcessingStatus.
THEOREM TypeCorrect == Spec => []TypeOK
<1>1. MediaInv => TypeOK BY DEF MediaInv, DocumentInv, VideoInv, TypeOK
<1> QED BY <1>1, Invariance, PTL

\* What confirmDocumentUpload and the browser's flow report of a document is so, for
\* any number of confirmations that overlap, fail and are repeated.
THEOREM DocumentReportsAreTrue == Spec => []ReportsAreTrue
<1>1. MediaInv => ReportsAreTrue BY DEF MediaInv, DocumentInv
<1> QED BY <1>1, Invariance, PTL

\* handleVideoProviderWebhook only records READY of a video that is complete, for any
\* number of webhooks that repeat, overlap and come late.
THEOREM ReadyVideosAreComplete == Spec => []ReadyIsComplete
<1>1. MediaInv => ReadyIsComplete BY DEF MediaInv, VideoInv
<1> QED BY <1>1, Invariance, PTL

\* tryDeleteTemporaryObjectIfStillSafe only deletes an upload whose asset is READY.
THEOREM UploadsAreKept == Spec => UploadIsKept
<1>1. MediaInv /\ [Next]_mediaVars => [(temp # None /\ temp' = None) => row.status = "READY"]_docVars
    BY OneOfTwo, DocumentEffect DEF MediaInv
<1> QED BY <1>1, Invariance, PTL DEF Spec, UploadIsKept

\* The object that a READY asset names has the declared size and is frozen, as long as
\* confirmDocumentUpload was never served twice at once.
THEOREM SoleConfirmationsAreSafe == Spec => SoleConfirmationIsSafe
<1>1. MediaInv /\ [Next]_mediaVars =>
        [(row.status = "READY" /\ ~overlapped) => Matches(final) /\ final' = final]_docVars
    BY OneOfTwo, DocumentEffect DEF MediaInv
<1> QED BY <1>1, Invariance, PTL DEF Spec, SoleConfirmationIsSafe

\* Documents and videos go the way that AssetLifecycle promises to the lessons that
\* show them: READY is final, and only READY follows a failure.
THEOREM Refinement == Spec => ImplementsAssetLifecycle
<1>1. Init => Lifecycle!Init
    BY DEF Init, DocumentInit, VideoInit, Lifecycle!Init, Abstracted, Status
<1>2. MediaInv /\ [Next]_mediaVars => [Lifecycle!Next]_Abstracted
  <2> SUFFICES ASSUME MediaInv, [Next]_mediaVars PROVE [Lifecycle!Next]_Abstracted
      OBVIOUS
  <2>1. /\ kind' = kind /\ kind \in {"document", "video"}
        /\ row.status \in {"absent", "UPLOADING", "READY", "FAILED"}
        /\ row'.status \in {"absent", "UPLOADING", "READY", "FAILED"}
        /\ row.status \in {"READY", "FAILED"} => row'.status = row.status
        /\ StatusMayChange
    <3>1. DocumentTypeOK /\ DocumentTypeOK'
        BY OneOfTwo, DocumentStep DEF MediaInv, DocumentInv
    <3> QED BY <3>1, OneOfTwo, DocumentEffect, VideoStep DEF MediaInv, DocumentTypeOK
  <2>2. CASE kind = "document"
      BY <2>1, <2>2 DEF Lifecycle!Next, Abstracted, Status
  <2>3. CASE kind = "video"
      BY <2>1, <2>3 DEF StatusMayChange, Lifecycle!Next, Abstracted, Status
  <2> QED BY <2>1, <2>2, <2>3
<1> QED BY <1>1, <1>2, Invariance, PTL DEF Spec, ImplementsAssetLifecycle, Lifecycle!Spec

=============================================================================
