--------------------------- MODULE StudentDevices ---------------------------
(***************************************************************************)
(* Device authorization of students (student-device.service.ts): the first *)
(* installation, change requests and their review by administrators, and   *)
(* the status check every protected request makes.  The four writing       *)
(* operations are transactions under one advisory lock per student; the    *)
(* check is three separate reads without a transaction.  Accounts stay     *)
(* ACTIVE: no code under src/ deactivates one.                             *)
(***************************************************************************)

CONSTANTS
  Students, Installations,   \* an installation stands for its hash
  Requests,                  \* identifiers of change requests
  Tx,                        \* API requests being served
  NoTx, None                 \* a free lock; an unset field

ASSUME TxAssumption == NoTx \notin Tx
ASSUME NoneAssumption == None \notin Students \cup Installations \cup Requests

VARIABLES
  device,    \* per student, the status of the row of each installation
  request,   \* rows of device_change_requests
  lock,      \* pg advisory lock by student id
  pc, op,    \* stage and operation of each API request
  effect,    \* the writes its transaction has decided on
  reply      \* what the last step answered to a status check, and the device it names

vars == <<device, request, lock, pc, op, effect, reply>>

-----------------------------------------------------------------------------
(* Rows *)

DeviceStatus == {"absent", "PENDING", "ACTIVE", "REVOKED", "REPLACED"}

RequestRow ==
  [status : {"absent", "PENDING", "APPROVED", "REJECTED"},
   student : Students \cup {None},
   current : Installations \cup {None},
   wanted : Installations \cup {None}]

NoRequest == [status |-> "absent", student |-> None, current |-> None, wanted |-> None]

Active(s) == {i \in Installations : device[s][i] = "ACTIVE"}

Pending(s) == {r \in Requests : request[r].status = "PENDING" /\ request[r].student = s}

-----------------------------------------------------------------------------
(* Operations *)

Op ==
  [kind : {"authorize", "change", "check"}, student : Students, installation : Installations,
   request : {None}]
  \cup [kind : {"approve", "reject"}, student : Students, installation : Installations,
        request : Requests]

NoOp == [kind |-> "none", student |-> None, installation |-> None, request |-> None]

Effect == {"none", "bind", "ask", "approve", "reject"}

\* Mutant of Reviewable: the status check of the review is only half done.
ReviewableUnlessRejected(r) == request[r].status \in {"PENDING", "APPROVED"}

\* The review requires a PENDING request, when it reads it and in the WHERE
\* clause of the write that claims it.
Reviewable(r) == request[r].status = "PENDING"

\* Mutant of Decision: requestDeviceChange forgets that the asking device may be the active one.
DecisionWithoutSameDevice(o) ==
  CASE o.kind = "authorize" ->
         IF Active(o.student) = {} /\ device[o.student][o.installation] = "absent"
         THEN "bind" ELSE "none"
    [] o.kind = "change" ->
         IF Active(o.student) = {} THEN "bind"
         ELSE IF Pending(o.student) = {} THEN "ask" ELSE "none"
    [] o.kind \in {"approve", "reject"} /\ Reviewable(o.request) -> o.kind
    [] OTHER -> "none"

\* What a transaction decides from the rows it reads under the lock.
Decision(o) ==
  LET own == device[o.student][o.installation]
      active == Active(o.student)
  IN CASE o.kind \in {"authorize", "change"} /\ active = {} /\ own = "absent" -> "bind"
       [] o.kind = "change" /\ active # {} /\ own # "ACTIVE" /\ Pending(o.student) = {} -> "ask"
       [] o.kind \in {"approve", "reject"} /\ Reviewable(o.request) -> o.kind
       [] OTHER -> "none"

\* The unique indexes: one ACTIVE device and one PENDING request per student,
\* one row per installation.
IndexesAllow(o, e) ==
  /\ e = "bind" => Active(o.student) = {} /\ device[o.student][o.installation] = "absent"
  /\ e = "ask" => Pending(o.student) = {}

\* Mutant of DevicesAfter: an approval retires the old device and stops there.
DevicesAfterOnlyReplaced(e, rows, i) ==
  CASE e = "bind" -> [rows EXCEPT ![i] = "ACTIVE"]
    [] e = "ask" -> IF rows[i] = "absent" THEN [rows EXCEPT ![i] = "PENDING"] ELSE rows
    [] e = "approve" -> [j \in Installations |-> IF rows[j] = "ACTIVE" THEN "REPLACED" ELSE rows[j]]
    [] e = "reject" -> [rows EXCEPT ![i] = "REVOKED"]

\* Mutant of DevicesAfter: a rejection revokes every device of the student.
DevicesAfterRejectAll(e, rows, i) ==
  CASE e = "bind" -> [rows EXCEPT ![i] = "ACTIVE"]
    [] e = "ask" -> IF rows[i] = "absent" THEN [rows EXCEPT ![i] = "PENDING"] ELSE rows
    [] e = "approve" -> [j \in Installations |-> CASE j = i -> "ACTIVE"
                                                   [] j # i /\ rows[j] = "ACTIVE" -> "REPLACED"
                                                   [] OTHER -> rows[j]]
    [] e = "reject" -> [j \in Installations |-> IF rows[j] = "absent" THEN "absent" ELSE "REVOKED"]

\* The device rows of a student after the effect e for installation i.
DevicesAfter(e, rows, i) ==
  CASE e = "bind" -> [rows EXCEPT ![i] = "ACTIVE"]
    [] e = "ask" -> IF rows[i] = "absent" THEN [rows EXCEPT ![i] = "PENDING"] ELSE rows
    [] e = "approve" -> [j \in Installations |-> CASE j = i -> "ACTIVE"
                                                   [] j # i /\ rows[j] = "ACTIVE" -> "REPLACED"
                                                   [] OTHER -> rows[j]]
    [] e = "reject" -> [rows EXCEPT ![i] = "REVOKED"]

-----------------------------------------------------------------------------
(* API requests *)

Stage == {"idle", "lock", "execute", "commit", "checkSame", "checkPending", "checkActive"}

Reply == [status : {"none", "AUTHORIZED", "CHANGE_PENDING", "CHANGE_REQUIRED",
                    "NO_DEVICE_REGISTERED"},
          device : Installations \cup {None}]

NoReply == [status |-> "none", device |-> None]

TypeOK ==
  /\ device \in [Students -> [Installations -> DeviceStatus]]
  /\ request \in [Requests -> RequestRow]
  /\ lock \in [Students -> Tx \cup {NoTx}]
  /\ pc \in [Tx -> Stage]
  /\ op \in [Tx -> Op \cup {NoOp}]
  /\ effect \in [Tx -> Effect]
  /\ reply \in Reply

Init ==
  /\ device = [s \in Students |-> [i \in Installations |-> "absent"]]
  /\ request = [r \in Requests |-> NoRequest]
  /\ lock = [s \in Students |-> NoTx]
  /\ pc = [t \in Tx |-> "idle"]
  /\ op = [t \in Tx |-> NoOp]
  /\ effect = [t \in Tx |-> "none"]
  /\ reply = NoReply

\* A request arrives.  A review first looks up the student, and the device
\* asked for, of its request: columns that never change.
Begin(t) ==
  /\ pc[t] = "idle"
  /\ \E o \in Op :
       /\ o.request # None =>
            /\ request[o.request].status # "absent"
            /\ request[o.request].student = o.student
            /\ request[o.request].wanted = o.installation
       /\ op' = [op EXCEPT ![t] = o]
       /\ pc' = [pc EXCEPT ![t] = IF o.kind = "check" THEN "checkSame" ELSE "lock"]
  /\ reply' = NoReply
  /\ UNCHANGED <<device, request, lock, effect>>

\* lockStudentDeviceState: pg_advisory_xact_lock on the student id.
AcquireLock(t) ==
  /\ pc[t] = "lock"
  /\ lock[op[t].student] = NoTx
  /\ lock' = [lock EXCEPT ![op[t].student] = t]
  /\ pc' = [pc EXCEPT ![t] = "execute"]
  /\ reply' = NoReply
  /\ UNCHANGED <<device, request, op, effect>>

\* The reads under the lock and the decision they lead to.
Execute(t) ==
  /\ pc[t] = "execute"
  /\ effect' = [effect EXCEPT ![t] = Decision(op[t])]
  /\ pc' = [pc EXCEPT ![t] = "commit"]
  /\ reply' = NoReply
  /\ UNCHANGED <<device, request, lock, op>>

End(t) ==
  /\ pc' = [pc EXCEPT ![t] = "idle"]
  /\ op' = [op EXCEPT ![t] = NoOp]
  /\ effect' = [effect EXCEPT ![t] = "none"]
  /\ lock' = [s \in Students |-> IF lock[s] = t THEN NoTx ELSE lock[s]]

\* The request rows after the writes of the transaction.
RequestsAfter(o, e) ==
  IF e = "ask"
  THEN \E r \in Requests :
         /\ request[r].status = "absent"
         /\ request' = [request EXCEPT ![r] =
                          [status |-> "PENDING", student |-> o.student,
                           current |-> CHOOSE i \in Active(o.student) : TRUE,
                           wanted |-> o.installation]]
  ELSE IF e \in {"approve", "reject"}
  THEN request' = [request EXCEPT ![o.request].status =
                     IF e = "approve" THEN "APPROVED" ELSE "REJECTED"]
  ELSE UNCHANGED request

\* The writes become visible.
Commit(t) ==
  LET o == op[t]
      e == effect[t]
  IN /\ pc[t] = "commit"
     /\ IndexesAllow(o, e)
     /\ e \in {"approve", "reject"} => Reviewable(o.request)
     /\ device' = [device EXCEPT ![o.student] =
                     IF e = "none" THEN @ ELSE DevicesAfter(e, @, o.installation)]
     /\ RequestsAfter(o, e)
     /\ End(t)
     /\ reply' = NoReply

\* A timeout, a crash, a unique violation or a request claimed by someone
\* else: nothing is written.
Rollback(t) ==
  /\ pc[t] \in {"lock", "execute", "commit"}
  /\ End(t)
  /\ reply' = NoReply
  /\ UNCHANGED <<device, request>>

Answer(t, status, i) ==
  /\ reply' = [status |-> status, device |-> i]
  /\ End(t)
  /\ UNCHANGED <<device, request>>

\* checkStudentDeviceAuthorization, first read: is the asking device active?
CheckSame(t) ==
  LET o == op[t]
  IN /\ pc[t] = "checkSame"
     /\ \/ /\ device[o.student][o.installation] = "ACTIVE"
           /\ Answer(t, "AUTHORIZED", o.installation)
        \/ /\ device[o.student][o.installation] # "ACTIVE"
           /\ pc' = [pc EXCEPT ![t] = "checkPending"]
           /\ reply' = NoReply
           /\ UNCHANGED <<device, request, lock, op, effect>>

\* Second read: is a change to the asking device under review?
CheckPending(t) ==
  LET o == op[t]
  IN /\ pc[t] = "checkPending"
     /\ \/ /\ \E r \in Pending(o.student) : request[r].wanted = o.installation
           /\ Answer(t, "CHANGE_PENDING", None)
        \/ /\ ~ \E r \in Pending(o.student) : request[r].wanted = o.installation
           /\ pc' = [pc EXCEPT ![t] = "checkActive"]
           /\ reply' = NoReply
           /\ UNCHANGED <<device, request, lock, op, effect>>

\* Third read: which device is active?
CheckActive(t) ==
  LET active == Active(op[t].student)
  IN /\ pc[t] = "checkActive"
     /\ IF active = {} THEN Answer(t, "NO_DEVICE_REGISTERED", None)
        ELSE \E i \in active : Answer(t, "CHANGE_REQUIRED", i)

Next ==
  \E t \in Tx :
    \/ Begin(t) \/ AcquireLock(t) \/ Execute(t) \/ Commit(t) \/ Rollback(t)
    \/ CheckSame(t) \/ CheckPending(t) \/ CheckActive(t)

Spec == Init /\ [][Next]_vars

-----------------------------------------------------------------------------
(* Properties *)

\* Once a student has a device row, exactly one row is ACTIVE: a student whose
\* rows are all PENDING, REVOKED or REPLACED could neither authorize nor
\* request a change, since both operations refuse a known installation when
\* no device is active.
NeverStranded ==
  \A s \in Students :
    (\E i \in Installations : device[s][i] # "absent") =>
      \E i \in Installations : Active(s) = {i}

\* What an administrator reviews is still true when it is approved: the
\* device a pending request replaces is the active one, and the one it asks
\* for is not active yet.
PendingNamesCurrent ==
  \A s \in Students : \A r \in Pending(s) :
    /\ Active(s) = {request[r].current}
    /\ request[r].wanted # request[r].current

\* A request is resolved once: two administrators who review it at the same
\* time do not overturn each other.
ResolvedIsFinal ==
  [][\A r \in Requests :
       request[r].status \in {"APPROVED", "REJECTED"} => request'[r] = request[r]]_vars

\* The abstract state of a student: the active installation and the one
\* under review.
boundOf(s) == IF Active(s) = {} THEN None ELSE CHOOSE i \in Installations : i \in Active(s)

wantedOf(s) ==
  IF Pending(s) = {} THEN None
  ELSE LET r == CHOOSE r \in Requests : r \in Pending(s) IN request[r].wanted

Binding == INSTANCE DeviceBinding WITH
             bound <- [s \in Students |-> boundOf(s)],
             wanted <- [s \in Students |-> wantedOf(s)],
             Unbound <- None

\* The tables, locks and races implement DeviceBinding: a device changes hands
\* only by the approval of the request that names it.
ImplementsDeviceBinding == Binding!Spec

=============================================================================
