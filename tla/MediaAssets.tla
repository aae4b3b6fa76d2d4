---------------------------- MODULE MediaAssets ----------------------------
(***************************************************************************)
(* One media asset of an instructor, a document or a video, from its       *)
(* upload to the status that lessons depend on; and that it implements     *)
(* AssetLifecycle.                                                         *)
(***************************************************************************)
EXTENDS DocumentUpload, VideoUpload

VARIABLE kind      \* which of the two tables the asset is in

mediaVars == <<kind, docVars, vidVars>>

Init ==
  /\ kind \in {"document", "video"}
  /\ DocumentInit /\ VideoInit

Next ==
  \/ kind = "document" /\ DocumentNext /\ UNCHANGED <<kind, vidVars>>
  \/ kind = "video" /\ VideoNext /\ UNCHANGED <<kind, docVars>>

Spec == Init /\ [][Next]_mediaVars

FairSpec == Spec /\ VideoFairness

-----------------------------------------------------------------------------
Status == IF kind = "document" THEN row.status ELSE asset.status

\* AssetProcessingStatus, as far as a lesson is concerned.
Abstracted ==
  CASE Status = "READY" -> "ready"
    [] Status = "FAILED" -> "failed"
    [] OTHER -> "preparing"

Lifecycle == INSTANCE AssetLifecycle WITH state <- Abstracted

\* Whatever confirmations overlap and whatever webhooks repeat or come late, an
\* asset goes the way that publication assumes: READY is final, and a failure
\* is only ever left for READY.
ImplementsAssetLifecycle == Lifecycle!Spec

TypeOK == kind \in {"document", "video"} /\ DocumentTypeOK /\ VideoTypeOK

=============================================================================
