--------------------------- MODULE DocumentUpload ---------------------------
(***************************************************************************)
(* The upload of one document: the browser's flow                          *)
(* (use-document-upload-flow.ts), the object store, and the API's upload   *)
(* intent and confirmation (media-asset.service.ts).  The browser sends    *)
(* the bytes to a temporary object with a capability that can be used      *)
(* again until it expires; a confirmation checks that object, copies it to *)
(* its final key, checks the copy, records READY and deletes the temporary *)
(* object.  No step of it is atomic with another.                          *)
(* A file stands for its bytes; what is checked of them is their size.     *)
(***************************************************************************)
EXTENDS Naturals, FiniteSets

CONSTANTS
  Files, SizeOf,     \* files of the instructor, and their sizes
  Confirmations,     \* confirmation requests being served
  None               \* no file, no object, no request

ASSUME NoneAssumption == None \notin Files \cup Confirmations
ASSUME SizeAssumption == DOMAIN SizeOf = Files

VARIABLES
  phase, file,       \* the browser's flow and the chosen file
  waiting,           \* the confirmation whose answer the browser awaits
  transit,           \* files on their way to the temporary object
  row,               \* the row of document_assets
  temp, final,       \* the two objects of the store
  stage,             \* how far each confirmation is
  overlapped         \* history: two confirmations were served at once

browser == <<phase, file, waiting>>
store == <<temp, final>>
docVars == <<phase, file, waiting, transit, row, temp, final, stage, overlapped>>

-----------------------------------------------------------------------------
Busy == {"initiating", "signing", "unsigned", "uploading", "confirming"}

\* The browser has been given the capability to write the temporary object.
Issued ==
  {"uploading", "put-failed", "cancelled", "confirming", "confirm-failed", "rejected", "done", "over"}

Phase == Busy \cup Issued \cup {"idle", "unissued"}

Stage ==
  {"idle", "find", "head", "mismatch", "report", "promote", "verify", "record", "recheck", "clean"}

DocumentTypeOK ==
  /\ phase \in Phase /\ file \in Files \cup {None}
  /\ waiting \in Confirmations \cup {None}
  /\ transit \subseteq Files
  /\ row \in [status : {"absent", "UPLOADING", "READY", "FAILED"}, ref : {"temp", "final"},
              size : {SizeOf[f] : f \in Files} \cup {None}]
  /\ temp \in Files \cup {None} /\ final \in Files \cup {None}
  /\ stage \in [Confirmations -> Stage]
  /\ overlapped \in BOOLEAN

DocumentInit ==
  /\ phase = "idle" /\ file = None /\ waiting = None
  /\ transit = {}
  /\ row = [status |-> "absent", ref |-> "temp", size |-> None]
  /\ temp = None /\ final = None
  /\ stage = [c \in Confirmations |-> "idle"]
  /\ overlapped = FALSE

-----------------------------------------------------------------------------
(* The browser *)

\* The file input is disabled while the flow is busy, and only then.
ChooseFile ==
  /\ phase \notin Busy
  /\ file' \in Files
  /\ UNCHANGED <<phase, waiting, transit, row, store, stage, overlapped>>

StartUpload ==
  /\ phase = "idle" /\ file # None
  /\ phase' = "initiating"
  /\ UNCHANGED <<file, waiting, transit, row, store, stage, overlapped>>

\* uploadDocumentBytes: the request leaves with the chosen file.
SendFile == phase' = "uploading" /\ transit' = transit \cup {file} /\ UNCHANGED <<file, waiting>>

\* retryUpload, with the capability of the first try and the file chosen by now.
RetryUpload ==
  /\ phase = "put-failed"
  /\ SendFile
  /\ UNCHANGED <<row, store, stage, overlapped>>

\* runConfirm: a request leaves for the API.
RunConfirm(c) ==
  /\ stage[c] = "idle"
  /\ phase' = "confirming" /\ waiting' = c
  /\ stage' = [stage EXCEPT ![c] = "find"]
  /\ overlapped' = (overlapped \/ \E d \in Confirmations : stage[d] # "idle")

\* The PUT ends with success or a network error: the one says no more than the
\* other about where the bytes are, and both are followed by a confirmation.
ConfirmAfterPut(c) ==
  /\ phase = "uploading"
  /\ RunConfirm(c)
  /\ UNCHANGED <<file, transit, row, store>>

RetryConfirm(c) ==
  /\ phase = "confirm-failed"
  /\ RunConfirm(c)
  /\ UNCHANGED <<file, transit, row, store>>

\* The store refuses the bytes with a status.
PutRefused ==
  /\ phase = "uploading" /\ file \in transit
  /\ phase' = "put-failed" /\ transit' = transit \ {file}
  /\ UNCHANGED <<file, waiting, row, store, stage, overlapped>>

\* cancelUpload: the bytes may have left all the same.
Cancel ==
  /\ phase = "uploading"
  /\ phase' = "cancelled"
  /\ UNCHANGED <<file, waiting, transit, row, store, stage, overlapped>>

\* The answer of the API does not arrive; what was asked goes on.
LoseAnswer ==
  /\ phase = "confirming" /\ phase' = "confirm-failed" /\ waiting' = None
  /\ UNCHANGED <<file, transit, row, store, stage, overlapped>>

\* startOver, retryInitiate, or a new start: the next upload is of another asset.
StartOver ==
  /\ phase \in {"put-failed", "cancelled", "confirm-failed", "rejected", "done"}
  /\ phase' = "over"
  /\ UNCHANGED <<file, waiting, transit, row, store, stage, overlapped>>

-----------------------------------------------------------------------------
(* The object store *)

\* The capability is not single-use: until it expires, whoever holds it may send
\* a file to the temporary object again.
PutAgain(f) ==
  /\ phase \in Issued
  /\ transit' = transit \cup {f}
  /\ UNCHANGED <<browser, row, store, stage, overlapped>>

PutArrives(f) ==
  /\ f \in transit
  /\ temp' = f /\ transit' = transit \ {f}
  /\ UNCHANGED <<browser, row, final, stage, overlapped>>

PutVanishes(f) ==
  /\ f \in transit
  /\ transit' = transit \ {f}
  /\ UNCHANGED <<browser, row, store, stage, overlapped>>

-----------------------------------------------------------------------------
(* createDocumentUploadIntent, one request at a time per asset *)

InsertRow ==
  /\ phase = "initiating" /\ row.status = "absent"
  /\ row' = [status |-> "UPLOADING", ref |-> "temp", size |-> SizeOf[file]]
  /\ phase' = "signing"
  /\ UNCHANGED <<file, waiting, transit, store, stage, overlapped>>

\* The capability reaches the browser, and the bytes leave.
SignUpload ==
  /\ phase = "signing"
  /\ SendFile
  /\ UNCHANGED <<row, store, stage, overlapped>>

SigningFails ==
  /\ phase = "signing" /\ phase' = "unsigned"
  /\ UNCHANGED <<file, waiting, transit, row, store, stage, overlapped>>

MarkUnsigned ==
  /\ phase = "unsigned" /\ phase' = "unissued"
  /\ row' = IF row.status = "UPLOADING" /\ row.ref = "temp"
            THEN [row EXCEPT !.status = "FAILED"] ELSE row
  /\ UNCHANGED <<file, waiting, transit, store, stage, overlapped>>

\* The instance stops, or its answer is lost: nobody holds the capability.
InitiateFails ==
  /\ phase \in {"initiating", "signing", "unsigned"} /\ phase' = "unissued"
  /\ UNCHANGED <<file, waiting, transit, row, store, stage, overlapped>>

-----------------------------------------------------------------------------
(* confirmDocumentUpload *)

Goto(c, s) ==
  /\ stage' = [stage EXCEPT ![c] = s]
  /\ UNCHANGED browser

\* The confirmation ends; the browser listens if it still waits for this one.
Answer(c, result) ==
  /\ stage' = [stage EXCEPT ![c] = "idle"]
  /\ IF waiting = c /\ phase = "confirming"
     THEN /\ waiting' = None
          /\ phase' = CASE result = "READY" -> "done"
                        [] result = "error" -> "confirm-failed"
                        [] OTHER -> "rejected"
     ELSE UNCHANGED <<phase, waiting>>
  /\ UNCHANGED file

FindRow(c) ==
  /\ stage[c] = "find"
  /\ CASE row.status = "READY" -> Answer(c, "READY")
       [] row.status = "UPLOADING" -> Goto(c, "head")
       [] OTHER -> Answer(c, "error")
  /\ UNCHANGED <<transit, row, store, overlapped>>

\* The size that the store reports is the declared one.
Matches(f) == f # None /\ SizeOf[f] = row.size

HeadTemporary(c) ==
  /\ stage[c] = "head"
  /\ Goto(c, CASE temp = None -> "recheck"
               [] Matches(temp) -> "promote"
               [] OTHER -> "mismatch")
  /\ UNCHANGED <<transit, row, store, overlapped>>

\* Mutant of Rejected: the status of the row is not looked at.
RejectedWhatever == [row EXCEPT !.status = "FAILED"]

\* The row after the update that rejects an upload.
Rejected == IF row.status = "UPLOADING" THEN [row EXCEPT !.status = "FAILED"] ELSE row

MarkMismatch(c) ==
  /\ stage[c] = "mismatch"
  /\ row' = Rejected
  /\ Goto(c, "report")
  /\ UNCHANGED <<transit, store, overlapped>>

\* The row as it is after that update is the answer.
Report(c) ==
  /\ stage[c] = "report"
  /\ Answer(c, row.status)
  /\ UNCHANGED <<transit, row, store, overlapped>>

\* promoteObject: the store copies what is there by now.
Promote(c) ==
  /\ stage[c] = "promote"
  /\ IF temp = None
     THEN Goto(c, "recheck") /\ UNCHANGED final
     ELSE Goto(c, "verify") /\ final' = temp
  /\ UNCHANGED <<transit, row, temp, overlapped>>

PromoteFails(c) ==
  /\ stage[c] = "promote"
  /\ Goto(c, "recheck")
  /\ UNCHANGED <<transit, row, store, overlapped>>

\* Mutant of Verified: the copy is not checked.
VerifiedUnseen == TRUE

Verified == Matches(final)

VerifyFinal(c) ==
  /\ stage[c] = "verify"
  /\ Goto(c, IF Verified THEN "record" ELSE "recheck")
  /\ UNCHANGED <<transit, row, store, overlapped>>

RecordReady(c) ==
  /\ stage[c] = "record"
  /\ IF row.status = "UPLOADING" /\ row.ref = "temp"
     THEN /\ row' = [row EXCEPT !.status = "READY", !.ref = "final"]
          /\ Goto(c, "clean")
     ELSE Goto(c, "recheck") /\ UNCHANGED row
  /\ UNCHANGED <<transit, store, overlapped>>

\* readDocumentConfirmationRow, wherever the code looks again before giving up.
Recheck(c) ==
  /\ stage[c] = "recheck"
  /\ Answer(c, IF row.status = "READY" THEN "READY" ELSE "error")
  /\ UNCHANGED <<transit, row, store, overlapped>>

\* Mutant of MayDelete: the temporary object is deleted once it is copied.
MayDeleteOnceCopied(c) == stage[c] \in {"verify", "clean"}

MayDelete(c) == stage[c] = "clean"

\* tryDeleteTemporaryObjectIfStillSafe: best effort.
DeleteTemporary(c) ==
  /\ MayDelete(c)
  /\ temp' \in {temp, None}
  /\ Answer(c, "READY")
  /\ UNCHANGED <<transit, row, final, overlapped>>

\* The store or the database does not answer, or the instance stops.
Fail(c) ==
  /\ stage[c] # "idle"
  /\ Answer(c, "error")
  /\ UNCHANGED <<transit, row, store, overlapped>>

-----------------------------------------------------------------------------
Confirm(c) ==
  \/ FindRow(c) \/ HeadTemporary(c) \/ MarkMismatch(c) \/ Report(c) \/ Promote(c)
  \/ PromoteFails(c) \/ VerifyFinal(c) \/ RecordReady(c) \/ Recheck(c) \/ DeleteTemporary(c)
  \/ Fail(c)

DocumentNext ==
  \/ ChooseFile \/ StartUpload \/ RetryUpload \/ PutRefused \/ Cancel \/ LoseAnswer \/ StartOver
  \/ InsertRow \/ SignUpload \/ SigningFails \/ MarkUnsigned \/ InitiateFails
  \/ \E f \in Files : PutAgain(f) \/ PutArrives(f) \/ PutVanishes(f)
  \/ \E c \in Confirmations : ConfirmAfterPut(c) \/ RetryConfirm(c) \/ Confirm(c)

DocumentSpec == DocumentInit /\ [][DocumentNext]_docVars

-----------------------------------------------------------------------------
(* Properties *)

\* What the browser reports is so: "done" only of a READY asset with an object
\* under the key it names, "rejected" only of one that has failed for good, by
\* whatever confirmations, lost answers and retries it came to that.
ReportsAreTrue ==
  /\ phase = "done" => row.status = "READY"
  /\ phase = "rejected" => row.status = "FAILED"
  /\ row.status = "READY" => row.ref = "final" /\ final # None

\* While the asset is not READY, what was uploaded is still there for the next
\* confirmation: no crash or failure between the copy, the record and the
\* deletion costs the upload.
UploadIsKept == [][(temp # None /\ temp' = None) => row.status = "READY"]_docVars

\* Unless two confirmations were served at the same time, a READY asset has an
\* object of the declared size, and the object never changes again.
SoleConfirmationIsSafe ==
  [][(row.status = "READY" /\ ~overlapped) => Matches(final) /\ final' = final]_docVars

\* docs/MEDIA.md:200: "After READY, a reused upload capability can at most
\* overwrite the temporary upload object; it cannot mutate the final object".
\* Confirmations that overlap can; see "Divergences" in the README.
FinalizedIsFrozen == [][row.status = "READY" => final' = final]_docVars

=============================================================================
