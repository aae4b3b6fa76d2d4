------------------------ MODULE StudentDevicesProofs ------------------------
(***************************************************************************)
(* TLAPS proofs about StudentDevices: its invariants, and that it          *)
(* implements DeviceBinding, for any set of students and installations.    *)
(***************************************************************************)
EXTENDS StudentDevices, TLAPS

-----------------------------------------------------------------------------
(* The inductive invariant *)

\* An API request that is being served has an operation; a review knows the
\* student and the device of its change request.
BusyHasOp ==
  \A t \in Tx : pc[t] # "idle" =>
    /\ op[t] \in Op
    /\ op[t].request # None =>
         /\ request[op[t].request].status # "absent"
         /\ request[op[t].request].student = op[t].student
         /\ request[op[t].request].wanted = op[t].installation

\* A transaction past its lock step holds the lock of its student.
LockHeld ==
  \A t \in Tx : pc[t] \in {"execute", "commit"} => lock[op[t].student] = t

\* What a transaction decided is still what it would decide when it commits.
DecisionStands ==
  \A t \in Tx : pc[t] = "commit" => effect[t] = Decision(op[t])

\* A student has no device row at all, or exactly one active one.
OneActive ==
  \A s \in Students :
    \/ \A i \in Installations : device[s][i] = "absent"
    \/ \E i \in Installations : Active(s) = {i}

\* A pending request names its student and two devices, and is the only one.
PendingUnique ==
  \A s \in Students : \A r \in Pending(s) :
    /\ request[r].wanted \in Installations
    /\ Pending(s) = {r}

IInv ==
  /\ TypeOK
  /\ BusyHasOp
  /\ LockHeld
  /\ DecisionStands
  /\ OneActive
  /\ PendingUnique
  /\ PendingNamesCurrent

-----------------------------------------------------------------------------
(* Facts about one student *)

\* Every operation names a student and an installation.
LEMMA OpFields ==
  ASSUME NEW o \in Op
  PROVE  /\ o.student \in Students
         /\ o.installation \in Installations
         /\ o.kind \in {"approve", "reject"} => o.request \in Requests /\ o.request # None
BY NoneAssumption DEF Op

\* The abstract state of a student is read off the one active row.
LEMMA BoundIsActive ==
  ASSUME NEW s \in Students, NEW i \in Installations, Active(s) = {i}
  PROVE  boundOf(s) = i
BY DEF boundOf

\* The abstract wanted device is the one a pending request names.
LEMMA WantedIsPending ==
  ASSUME NEW s \in Students, NEW r \in Requests, Pending(s) = {r}
  PROVE  wantedOf(s) = request[r].wanted
<1>1. (CHOOSE x \in Requests : x \in Pending(s)) = r
  OBVIOUS
<1> QED
  BY <1>1 DEF wantedOf

\* The effect of each decision, under the invariant.
LEMMA BindMeansNoDevice ==
  ASSUME IInv, NEW o \in Op, Decision(o) = "bind"
  PROVE  /\ Active(o.student) = {}
         /\ \A i \in Installations : device[o.student][i] = "absent"
         /\ Pending(o.student) = {}
<1>1. Active(o.student) = {} /\ o.student \in Students
  BY OpFields DEF Decision
<1>2. Pending(o.student) = {}
  BY <1>1 DEF IInv, PendingNamesCurrent
<1> QED
  BY <1>1, <1>2 DEF IInv, OneActive

\* A request is only filed while another device is active.
LEMMA AskMeansOtherActive ==
  ASSUME IInv, NEW o \in Op, Decision(o) = "ask"
  PROVE  /\ Pending(o.student) = {}
         /\ \E i \in Installations : Active(o.student) = {i} /\ i # o.installation
<1>1. /\ Pending(o.student) = {}
      /\ Active(o.student) # {}
      /\ device[o.student][o.installation] # "ACTIVE"
      /\ o.student \in Students
  BY OpFields DEF Decision
<1>2. PICK i \in Installations : Active(o.student) = {i}
  BY <1>1 DEF IInv, OneActive, Active
<1>3. device[o.student][i] = "ACTIVE"
  BY <1>2 DEF Active
<1> QED
  BY <1>1, <1>2, <1>3

\* A review only decides a request that is pending.
LEMMA ReviewMeansPending ==
  ASSUME IInv, NEW t \in Tx, pc[t] = "commit", effect[t] \in {"approve", "reject"}
  PROVE  /\ op[t] \in Op /\ op[t].request \in Requests /\ op[t].kind = effect[t]
         /\ request[op[t].request].status = "PENDING"
         /\ Pending(op[t].student) = {op[t].request}
         /\ request[op[t].request].wanted = op[t].installation
         /\ Active(op[t].student) = {request[op[t].request].current}
         /\ op[t].installation # request[op[t].request].current
<1>1. op[t] \in Op /\ Decision(op[t]) = effect[t]
  BY DEF IInv, BusyHasOp, DecisionStands
<1>2. op[t].kind = effect[t] /\ Reviewable(op[t].request)
  BY <1>1 DEF Decision
<1>3. op[t].request \in Requests /\ op[t].request # None /\ op[t].student \in Students
  BY <1>1, <1>2, OpFields
<1>4. /\ request[op[t].request].student = op[t].student
      /\ request[op[t].request].wanted = op[t].installation
  BY <1>3 DEF IInv, BusyHasOp
<1>5. op[t].request \in Pending(op[t].student)
  BY <1>2, <1>3, <1>4 DEF Reviewable, Pending
<1> QED
  BY <1>1, <1>2, <1>3, <1>4, <1>5 DEF IInv, PendingUnique, PendingNamesCurrent, Reviewable

-----------------------------------------------------------------------------
(* The steps *)

\* No device and no request exists at first.
LEMMA InitIInv == Init => IInv
BY DEF Init, IInv, TypeOK, BusyHasOp, LockHeld, DecisionStands, OneActive, PendingUnique,
   PendingNamesCurrent, Pending, Stage, Effect, NoReply, Reply, NoRequest, RequestRow, DeviceStatus

\* A step that writes no row keeps everything that is said about rows.
LEMMA RowsUnchanged ==
  ASSUME IInv, UNCHANGED <<device, request>>
  PROVE  /\ OneActive' /\ PendingUnique' /\ PendingNamesCurrent'
         /\ \A o : Decision(o)' = Decision(o)
BY DEF IInv, OneActive, PendingUnique, PendingNamesCurrent, Active, Pending, Decision, Reviewable

\* A request that arrives has decided nothing yet.
LEMMA BeginIInv ==
  ASSUME IInv, NEW t \in Tx, Begin(t)
  PROVE  IInv'
<1>1. PICK o \in Op :
        /\ o.request # None =>
             /\ request[o.request].status # "absent"
             /\ request[o.request].student = o.student
             /\ request[o.request].wanted = o.installation
        /\ op' = [op EXCEPT ![t] = o]
        /\ pc' = [pc EXCEPT ![t] = IF o.kind = "check" THEN "checkSame" ELSE "lock"]
  BY DEF Begin
<1>2. UNCHANGED <<device, request, lock, effect>> /\ reply' = NoReply
  BY DEF Begin
<1>3. TypeOK'
  BY <1>1, <1>2 DEF IInv, TypeOK, Stage, NoReply, Reply
<1>4. BusyHasOp'
  BY <1>1, <1>2 DEF IInv, TypeOK, BusyHasOp
<1>5. LockHeld'
  BY <1>1, <1>2 DEF IInv, TypeOK, LockHeld
<1>6. DecisionStands'
  BY <1>1, <1>2, RowsUnchanged DEF IInv, TypeOK, DecisionStands
<1> QED
  BY <1>2, <1>3, <1>4, <1>5, <1>6, RowsUnchanged DEF IInv

\* The lock of a student goes to one transaction.
LEMMA AcquireLockIInv ==
  ASSUME IInv, NEW t \in Tx, AcquireLock(t)
  PROVE  IInv'
<1> DEFINE s == op[t].student
<1>1. /\ pc[t] = "lock" /\ lock[s] = NoTx
      /\ lock' = [lock EXCEPT ![s] = t]
      /\ pc' = [pc EXCEPT ![t] = "execute"]
      /\ reply' = NoReply
      /\ UNCHANGED <<device, request, op, effect>>
  BY DEF AcquireLock
<1>2. s \in Students
  BY <1>1, OpFields DEF IInv, BusyHasOp
<1>3. TypeOK'
  BY <1>1, <1>2 DEF IInv, TypeOK, Stage, NoReply, Reply
<1>4. BusyHasOp'
  BY <1>1 DEF IInv, TypeOK, BusyHasOp
<1>5. LockHeld'
  BY <1>1, <1>2, TxAssumption DEF IInv, TypeOK, LockHeld
<1>6. DecisionStands'
  BY <1>1, RowsUnchanged DEF IInv, TypeOK, DecisionStands
<1> QED
  BY <1>1, <1>3, <1>4, <1>5, <1>6, RowsUnchanged DEF IInv

\* What Execute decides under the lock still holds at the commit.
LEMMA ExecuteIInv ==
  ASSUME IInv, NEW t \in Tx, Execute(t)
  PROVE  IInv'
<1>1. /\ pc[t] = "execute"
      /\ effect' = [effect EXCEPT ![t] = Decision(op[t])]
      /\ pc' = [pc EXCEPT ![t] = "commit"]
      /\ reply' = NoReply
      /\ UNCHANGED <<device, request, lock, op>>
  BY DEF Execute
<1>2. Decision(op[t]) \in Effect
  BY DEF Decision, Effect
<1>3. TypeOK'
  BY <1>1, <1>2 DEF IInv, TypeOK, Stage, NoReply, Reply
<1>4. BusyHasOp'
  BY <1>1 DEF IInv, TypeOK, BusyHasOp
<1>5. LockHeld'
  BY <1>1 DEF IInv, TypeOK, LockHeld
<1>6. DecisionStands'
  BY <1>1, RowsUnchanged DEF IInv, TypeOK, DecisionStands
<1> QED
  BY <1>1, <1>3, <1>4, <1>5, <1>6, RowsUnchanged DEF IInv

\* The end of a transaction leaves the others where they are.
LEMMA EndKeepsOthers ==
  ASSUME IInv, NEW t \in Tx, End(t)
  PROVE  /\ pc' \in [Tx -> Stage] /\ op' \in [Tx -> Op \cup {NoOp}]
         /\ effect' \in [Tx -> Effect] /\ lock' \in [Students -> Tx \cup {NoTx}]
         /\ pc'[t] = "idle"
         /\ \A u \in Tx \ {t} : pc'[u] = pc[u] /\ op'[u] = op[u] /\ effect'[u] = effect[u]
         /\ LockHeld'
<1>1. /\ pc' \in [Tx -> Stage] /\ op' \in [Tx -> Op \cup {NoOp}]
      /\ effect' \in [Tx -> Effect] /\ lock' \in [Students -> Tx \cup {NoTx}]
      /\ pc'[t] = "idle"
      /\ \A u \in Tx \ {t} : pc'[u] = pc[u] /\ op'[u] = op[u] /\ effect'[u] = effect[u]
  BY DEF End, IInv, TypeOK, Stage, Effect
<1>2. LockHeld'
  <2> SUFFICES ASSUME NEW u \in Tx, pc'[u] \in {"execute", "commit"}
               PROVE  lock'[op'[u].student] = u
    BY DEF LockHeld
  <2>1. u # t /\ pc'[u] = pc[u] /\ op'[u] = op[u]
    BY <1>1
  <2>2. lock[op[u].student] = u /\ op[u].student \in Students
    BY <2>1, OpFields DEF IInv, LockHeld, BusyHasOp
  <2> QED
    BY <2>1, <2>2 DEF End
<1> QED
  BY <1>1, <1>2

\* The end of a transaction releases its lock and changes no row.
LEMMA EndIInv ==
  ASSUME IInv, NEW t \in Tx, End(t), UNCHANGED <<device, request>>, reply' \in Reply
  PROVE  IInv'
<1>1. TypeOK'
  BY EndKeepsOthers DEF IInv, TypeOK
<1>2. BusyHasOp'
  BY EndKeepsOthers DEF IInv, BusyHasOp
<1>3. DecisionStands'
  BY EndKeepsOthers, RowsUnchanged DEF IInv, DecisionStands
<1> QED
  BY <1>1, <1>2, <1>3, EndKeepsOthers, RowsUnchanged DEF IInv

\* The status check, which takes no lock, changes nothing but its own reply.
LEMMA CheckIInv ==
  ASSUME IInv, NEW t \in Tx, CheckSame(t) \/ CheckPending(t) \/ CheckActive(t)
  PROVE  IInv'
<1> DEFINE s == op[t].student
<1>1. op[t] \in Op /\ op[t].installation \in Installations
  BY OpFields DEF IInv, BusyHasOp, CheckSame, CheckPending, CheckActive
<1>2. CASE End(t) /\ UNCHANGED <<device, request>> /\ reply' \in Reply
  BY <1>2, EndIInv
<1>3. CASE /\ pc[t] # "commit"
           /\ \E st \in {"checkPending", "checkActive"} : pc' = [pc EXCEPT ![t] = st]
           /\ reply' = NoReply
           /\ UNCHANGED <<device, request, lock, op, effect>>
           /\ pc[t] # "idle"
  <2>1. TypeOK'
    BY <1>3 DEF IInv, TypeOK, Stage, NoReply, Reply
  <2>2. BusyHasOp' /\ LockHeld'
    BY <1>3 DEF IInv, TypeOK, BusyHasOp, LockHeld
  <2>3. DecisionStands'
    BY <1>3, RowsUnchanged DEF IInv, TypeOK, DecisionStands
  <2> QED
    BY <1>3, <2>1, <2>2, <2>3, RowsUnchanged DEF IInv
<1> QED
  BY <1>1, <1>2, <1>3 DEF CheckSame, CheckPending, CheckActive, Answer, Reply, Active

-----------------------------------------------------------------------------
(* The commit of a transaction *)

\* What a commit leaves alone: the rows of the other students, and the
\* identity of every request.
OthersKept(s) ==
  /\ \A x \in Students \ {s} :
       /\ device'[x] = device[x]
       /\ Pending(x)' = Pending(x)
       /\ \A r \in Requests : request[r].student = x /\ request[r].status # "absent" =>
            request'[r] = request[r]
  /\ \A r \in Requests : request[r].status # "absent" =>
       /\ request'[r].status # "absent"
       /\ request'[r].student = request[r].student
       /\ request'[r].wanted = request[r].wanted

\* What a commit makes of the rows of its student.
BoundNow(s, i) ==
  /\ Active(s)' = {i}
  /\ Pending(s)' = {}

AskedNow(s, i) ==
  /\ Active(s)' = Active(s)
  /\ \E a \in Installations, r \in Requests :
       /\ Active(s) = {a} /\ a # i
       /\ Pending(s)' = {r}
       /\ request'[r].wanted = i /\ request'[r].current = a

RejectedNow(s) ==
  /\ Active(s)' = Active(s)
  /\ \E a \in Installations : Active(s) = {a}
  /\ Pending(s)' = {}

RowsTyped ==
  /\ device \in [Students -> [Installations -> DeviceStatus]]
  /\ request \in [Requests -> RequestRow]

\* The first device of a student: there was no row, and no request, before.
LEMMA BindRows ==
  ASSUME IInv, NEW t \in Tx, Commit(t), effect[t] = "bind",
         NEW s \in Students, s = op[t].student
  PROVE  RowsTyped' /\ OthersKept(s) /\ BoundNow(s, op[t].installation)
<1> DEFINE i == op[t].installation
<1>1. op[t] \in Op /\ i \in Installations /\ Decision(op[t]) = "bind"
  BY OpFields DEF IInv, BusyHasOp, DecisionStands, Commit
<1>2. (\A j \in Installations : device[s][j] = "absent") /\ Pending(s) = {}
  BY <1>1, BindMeansNoDevice
<1>3. device' = [device EXCEPT ![s] = [device[s] EXCEPT ![i] = "ACTIVE"]] /\ request' = request
  BY DEF Commit, DevicesAfter, RequestsAfter, IInv, TypeOK
<1>4. RowsTyped'
  BY <1>1, <1>3 DEF RowsTyped, IInv, TypeOK, DeviceStatus
<1>5. OthersKept(s)
  BY <1>3 DEF OthersKept, IInv, TypeOK, Pending
<1>6. device'[s] = [device[s] EXCEPT ![i] = "ACTIVE"] /\ device[s] \in [Installations -> DeviceStatus]
  BY <1>3 DEF IInv, TypeOK
<1>7. Active(s)' = {i}
  BY <1>1, <1>2, <1>6 DEF Active
<1>8. Pending(s)' = {}
  BY <1>2, <1>3 DEF Pending
<1> QED
  BY <1>4, <1>5, <1>7, <1>8 DEF BoundNow

\* A change request: the active device stays, and its request is the only one.
LEMMA AskRows ==
  ASSUME IInv, NEW t \in Tx, Commit(t), effect[t] = "ask",
         NEW s \in Students, s = op[t].student
  PROVE  RowsTyped' /\ OthersKept(s) /\ AskedNow(s, op[t].installation)
<1> DEFINE i == op[t].installation
<1>1. op[t] \in Op /\ i \in Installations /\ Decision(op[t]) = "ask"
  BY OpFields DEF IInv, BusyHasOp, DecisionStands, Commit
<1>2. PICK a \in Installations : Active(s) = {a} /\ a # i
  BY <1>1, AskMeansOtherActive
<1>3. Pending(s) = {}
  BY <1>1, AskMeansOtherActive
<1>4. PICK r \in Requests :
        /\ request[r].status = "absent"
        /\ request' = [request EXCEPT ![r] =
             [status |-> "PENDING", student |-> s, current |-> a, wanted |-> i]]
  <2>1. (CHOOSE j \in Active(s) : TRUE) = a
    BY <1>2
  <2> QED
    BY <2>1 DEF Commit, RequestsAfter
<1>5. device' = [device EXCEPT ![s] =
                   IF device[s][i] = "absent" THEN [device[s] EXCEPT ![i] = "PENDING"] ELSE device[s]]
  BY DEF Commit, DevicesAfter, IInv, TypeOK
<1>6. RowsTyped'
  <2>1. device' \in [Students -> [Installations -> DeviceStatus]]
    BY <1>1, <1>5 DEF IInv, TypeOK, DeviceStatus
  <2>2. [status |-> "PENDING", student |-> s, current |-> a, wanted |-> i] \in RequestRow
    BY <1>1, <1>2 DEF RequestRow
  <2> QED
    BY <1>4, <2>1, <2>2 DEF RowsTyped, IInv, TypeOK
<1>7. OthersKept(s)
  <2>1. \A x \in Requests : x # r => request'[x] = request[x]
    BY <1>4 DEF IInv, TypeOK
  <2>2. request'[r].student = s /\ request'[r].status = "PENDING"
    BY <1>4 DEF IInv, TypeOK
  <2>4. \A x \in Students \ {s} : Pending(x)' = Pending(x)
    BY <1>4, <2>1, <2>2 DEF Pending
  <2> QED
    BY <1>4, <1>5, <2>1, <2>4 DEF OthersKept, IInv, TypeOK
<1>8. Active(s)' = Active(s)
  <2>1. device[s] \in [Installations -> DeviceStatus]
    BY DEF IInv, TypeOK
  <2>2. device'[s] = IF device[s][i] = "absent" THEN [device[s] EXCEPT ![i] = "PENDING"] ELSE device[s]
    BY <1>5 DEF IInv, TypeOK
  <2> QED
    BY <1>1, <2>1, <2>2 DEF Active
<1>9. Pending(s)' = {r} /\ request'[r].wanted = i /\ request'[r].current = a
  BY <1>3, <1>4 DEF Pending, IInv, TypeOK
<1> QED
  BY <1>2, <1>6, <1>7, <1>8, <1>9 DEF AskedNow

\* A review: the request leaves the review, the reviewed device becomes the
\* active one or is refused.
LEMMA ReviewRows ==
  ASSUME IInv, NEW t \in Tx, Commit(t), effect[t] \in {"approve", "reject"},
         NEW s \in Students, s = op[t].student
  PROVE  /\ RowsTyped' /\ OthersKept(s)
         /\ effect[t] = "approve" => BoundNow(s, op[t].installation)
         /\ effect[t] = "reject" => RejectedNow(s)
<1> DEFINE i == op[t].installation
           r == op[t].request
           e == effect[t]
           verdict == IF e = "approve" THEN "APPROVED" ELSE "REJECTED"
<1>1. pc[t] = "commit"
  BY DEF Commit
<1>2. /\ op[t] \in Op /\ i \in Installations /\ r \in Requests
      /\ request[r].status = "PENDING" /\ Pending(s) = {r}
      /\ Active(s) = {request[r].current}
      /\ i # request[r].current
  BY <1>1, ReviewMeansPending, OpFields
<1>3. request' = [request EXCEPT ![r].status = verdict]
  BY DEF Commit, RequestsAfter
<1>4. device' = [device EXCEPT ![s] = DevicesAfter(e, device[s], i)]
  BY DEF Commit, IInv, TypeOK
<1>5. DevicesAfter(e, device[s], i) \in [Installations -> DeviceStatus]
  BY <1>2 DEF DevicesAfter, IInv, TypeOK, DeviceStatus
<1>6. RowsTyped'
  <2>1. device' \in [Students -> [Installations -> DeviceStatus]]
    BY <1>4, <1>5 DEF IInv, TypeOK
  <2>2. request[r] \in RequestRow
    BY <1>2 DEF IInv, TypeOK
  <2>3. [request[r] EXCEPT !.status = verdict] \in RequestRow
    BY <2>2 DEF RequestRow
  <2>4. request' \in [Requests -> RequestRow]
    BY <1>2, <1>3, <2>3 DEF IInv, TypeOK
  <2> QED
    BY <2>1, <2>4 DEF RowsTyped
<1>7. \A x \in Requests \ {r} : request'[x] = request[x]
  BY <1>3 DEF IInv, TypeOK
<1>8. /\ request'[r].status \in {"APPROVED", "REJECTED"}
      /\ request'[r].student = request[r].student
      /\ request'[r].wanted = request[r].wanted
  BY <1>2, <1>3 DEF IInv, TypeOK, RequestRow
<1>9. request[r].student = s
  BY <1>2 DEF Pending
<1>10. OthersKept(s)
  <2>1. \A x \in Students \ {s} : Pending(x)' = Pending(x)
    BY <1>7, <1>8, <1>9 DEF Pending
  <2> QED
    BY <1>4, <1>7, <1>8, <1>9, <2>1 DEF OthersKept, IInv, TypeOK
<1>11. Pending(s)' = {}
  BY <1>2, <1>7, <1>8 DEF Pending
<1>12. device'[s] = DevicesAfter(e, device[s], i) /\ device[s] \in [Installations -> DeviceStatus]
  BY <1>4 DEF IInv, TypeOK
<1>13. ASSUME e = "approve" PROVE Active(s)' = {i}
  BY <1>2, <1>12, <1>13 DEF Active, DevicesAfter
<1>14. ASSUME e = "reject" PROVE Active(s)' = Active(s)
  BY <1>2, <1>12, <1>14 DEF Active, DevicesAfter
<1>15. ASSUME e = "reject" PROVE \E a \in Installations : Active(s) = {a}
  BY <1>2 DEF Active
<1> QED
  BY <1>6, <1>10, <1>11, <1>13, <1>14, <1>15 DEF BoundNow, RejectedNow

\* The rows a commit writes keep one active device and one pending request per student.
LEMMA CommitIInv ==
  ASSUME IInv, NEW t \in Tx, Commit(t)
  PROVE  IInv'
<1>1. PICK s \in Students : s = op[t].student
  BY OpFields DEF IInv, BusyHasOp, Commit
<1>2. pc[t] = "commit" /\ End(t) /\ reply' = NoReply /\ op[t].installation \in Installations
  BY OpFields DEF Commit, IInv, BusyHasOp
<1>3. CASE effect[t] = "none"
  BY <1>2, <1>3, EndIInv DEF Commit, RequestsAfter, IInv, TypeOK, NoReply, Reply
<1>4. CASE effect[t] # "none"
  <2>1. effect[t] \in {"bind", "ask", "approve", "reject"}
    BY <1>4 DEF IInv, TypeOK, Effect
  <2>2. /\ RowsTyped' /\ OthersKept(s)
        /\ \/ BoundNow(s, op[t].installation)
           \/ AskedNow(s, op[t].installation)
           \/ RejectedNow(s)
    BY <1>1, <2>1, BindRows, AskRows, ReviewRows
  <2>3. TypeOK'
    BY <1>2, <2>2, EndKeepsOthers DEF TypeOK, RowsTyped, NoReply, Reply
  <2>4. BusyHasOp'
    <3> SUFFICES ASSUME NEW u \in Tx, pc'[u] # "idle"
                 PROVE  /\ op'[u] \in Op
                        /\ op'[u].request # None =>
                             /\ request'[op'[u].request].status # "absent"
                             /\ request'[op'[u].request].student = op'[u].student
                             /\ request'[op'[u].request].wanted = op'[u].installation
      BY DEF BusyHasOp
    <3>1. pc[u] # "idle" /\ op'[u] = op[u]
      BY <1>2, EndKeepsOthers
    <3>2. op[u] \in Op /\ (op[u].request # None => op[u].request \in Requests)
      BY <3>1 DEF IInv, BusyHasOp, Op
    <3> QED
      BY <2>2, <3>1, <3>2 DEF IInv, BusyHasOp, OthersKept
  <2>5. DecisionStands'
    <3> SUFFICES ASSUME NEW u \in Tx, pc'[u] = "commit"
                 PROVE  effect'[u] = Decision(op[u])'
      BY DEF DecisionStands
    <3>1. u # t /\ pc[u] = "commit" /\ op'[u] = op[u] /\ effect'[u] = effect[u]
      BY <1>2, EndKeepsOthers
    <3>2. PICK o \in Op : o = op[u]
      BY <3>1 DEF IInv, BusyHasOp
    <3>3. o.student \in Students \ {s}
      BY <1>1, <1>2, <3>1, <3>2, OpFields DEF IInv, LockHeld
    <3>4. /\ Active(o.student)' = Active(o.student)
          /\ Pending(o.student)' = Pending(o.student)
          /\ device'[o.student] = device[o.student]
      BY <2>2, <3>3 DEF OthersKept, Active
    <3>5. o.kind \in {"approve", "reject"} => Reviewable(o.request)' = Reviewable(o.request)
      <4>1. o.kind \in {"approve", "reject"} =>
              /\ o.request \in Requests /\ request[o.request].status # "absent"
              /\ request[o.request].student = o.student
        BY <3>1, <3>2, OpFields DEF IInv, BusyHasOp
      <4> QED
        BY <2>2, <3>3, <4>1 DEF OthersKept, Reviewable
    <3>6. Decision(o)' = Decision(o)
      BY <3>4, <3>5 DEF Decision
    <3>7. Decision(op[u])' = Decision(o)'
      BY <3>1, <3>2
    <3> QED
      BY <3>1, <3>2, <3>6, <3>7 DEF IInv, DecisionStands
  <2>6. OneActive' /\ PendingUnique' /\ PendingNamesCurrent'
    <3>1. ASSUME NEW x \in Students \ {s}
          PROVE  /\ \/ \A i \in Installations : device'[x][i] = "absent"
                    \/ \E i \in Installations : Active(x)' = {i}
                 /\ \A r \in Pending(x)' :
                      /\ request'[r].wanted \in Installations
                      /\ Pending(x)' = {r}
                      /\ Active(x)' = {request'[r].current}
                      /\ request'[r].wanted # request'[r].current
      <4>1. Active(x)' = Active(x) /\ Pending(x)' = Pending(x) /\ device'[x] = device[x]
        BY <2>2 DEF OthersKept, Active
      <4>2. \A r \in Pending(x) : request'[r] = request[r]
        BY <2>2 DEF OthersKept, Pending
      <4> QED
        BY <4>1, <4>2 DEF IInv, OneActive, PendingUnique, PendingNamesCurrent
    <3>2. /\ \E i \in Installations : Active(s)' = {i}
          /\ \A r \in Pending(s)' :
               /\ request'[r].wanted \in Installations
               /\ Pending(s)' = {r}
               /\ Active(s)' = {request'[r].current}
               /\ request'[r].wanted # request'[r].current
      BY <1>2, <2>2 DEF BoundNow, AskedNow, RejectedNow
    <3> QED
      BY <3>1, <3>2 DEF OneActive, PendingUnique, PendingNamesCurrent
  <2> QED
    BY <1>2, <2>3, <2>4, <2>5, <2>6, EndKeepsOthers DEF IInv
<1> QED
  BY <1>3, <1>4

\* Every step of the device service preserves the invariant.
LEMMA StepIInv == IInv /\ [Next]_vars => IInv'
<1> SUFFICES ASSUME IInv, [Next]_vars PROVE IInv'
  OBVIOUS
<1>1. ASSUME NEW t \in Tx, Rollback(t) PROVE IInv'
  BY <1>1, EndIInv DEF Rollback, NoReply, Reply
<1>2. CASE UNCHANGED vars
  <2>1. UNCHANGED <<device, request, lock, pc, op, effect, reply>>
    BY <1>2 DEF vars
  <2>2. TypeOK' /\ BusyHasOp' /\ LockHeld'
    BY <2>1 DEF IInv, TypeOK, BusyHasOp, LockHeld
  <2>3. DecisionStands'
    BY <2>1, RowsUnchanged DEF IInv, DecisionStands
  <2> QED
    BY <2>1, <2>2, <2>3, RowsUnchanged DEF IInv
<1> QED
  BY <1>1, <1>2, BeginIInv, AcquireLockIInv, ExecuteIInv, CommitIInv, CheckIInv DEF Next

\* The inductive invariant holds in every reachable state.
THEOREM Invariance == Spec => []IInv
BY InitIInv, StepIInv, PTL DEF Spec

\* Every value stays in its type, in particular a refused device is never
\* left in a status of its request.
THEOREM TypeCorrect == Spec => []TypeOK
<1>1. IInv => TypeOK
  BY DEF IInv
<1> QED
  BY <1>1, Invariance, PTL

\* A student with any device row has exactly one active one, whatever requests
\* and reviews interleave.
THEOREM StudentsAreNeverStranded == Spec => []NeverStranded
<1>1. IInv => NeverStranded
  BY DEF IInv, OneActive, NeverStranded
<1> QED
  BY <1>1, Invariance, PTL

\* The request under review always replaces the device that is active now.
THEOREM PendingRequestsNameTheActiveDevice == Spec => []PendingNamesCurrent
<1>1. IInv => PendingNamesCurrent
  BY DEF IInv
<1> QED
  BY <1>1, Invariance, PTL

\* A request that was approved or rejected is never touched again.
THEOREM RequestsAreResolvedOnce == Spec => ResolvedIsFinal
<1>1. ASSUME IInv, [Next]_vars, NEW r \in Requests, request[r].status \in {"APPROVED", "REJECTED"}
      PROVE  request'[r] = request[r]
  <2>1. ASSUME NEW t \in Tx, Commit(t)
        PROVE  request'[r] = request[r]
    <3>1. CASE effect[t] \in {"approve", "reject"}
      <4>1. op[t].request \in Requests /\ op[t].request # r
        BY <1>1, <2>1, <3>1, ReviewMeansPending DEF Commit
      <4> QED
        BY <1>1, <2>1, <3>1, <4>1 DEF Commit, RequestsAfter, IInv, TypeOK
    <3>2. CASE effect[t] = "ask"
      <4>1. PICK q \in Requests : /\ request[q].status = "absent"
                                  /\ \A x \in Requests \ {q} : request'[x] = request[x]
        BY <1>1, <2>1, <3>2 DEF Commit, RequestsAfter, IInv, TypeOK
      <4> QED
        BY <1>1, <4>1
    <3>3. CASE effect[t] \notin {"ask", "approve", "reject"}
      BY <2>1, <3>3 DEF Commit, RequestsAfter
    <3> QED
      BY <3>1, <3>2, <3>3
  <2>2. CASE UNCHANGED request
    BY <2>2
  <2>3. ASSUME NEW t \in Tx, ~ Commit(t),
               Begin(t) \/ AcquireLock(t) \/ Execute(t) \/ Rollback(t)
                 \/ CheckSame(t) \/ CheckPending(t) \/ CheckActive(t)
        PROVE  UNCHANGED request
    BY <2>3 DEF Begin, AcquireLock, Execute, Rollback, CheckSame, CheckPending, CheckActive, Answer
  <2> QED
    BY <1>1, <2>1, <2>2, <2>3 DEF Next, vars
<1>2. IInv /\ [Next]_vars =>
        [\A r \in Requests : request[r].status \in {"APPROVED", "REJECTED"} =>
           request'[r] = request[r]]_vars
  BY <1>1
<1> QED
  BY <1>2, Invariance, PTL DEF Spec, ResolvedIsFinal

-----------------------------------------------------------------------------
(* The refinement *)

\* A step that writes no row is a stutter of DeviceBinding.
LEMMA RowsUnchangedStutters ==
  ASSUME UNCHANGED <<device, request>>
  PROVE  UNCHANGED Binding!vars
BY DEF Binding!vars, boundOf, wantedOf, Active, Pending

\* A commit changes the abstract state of its student alone.
LEMMA AbstractOthersKept ==
  ASSUME NEW s \in Students, OthersKept(s), NEW x \in Students \ {s}
  PROVE  boundOf(x)' = boundOf(x) /\ wantedOf(x)' = wantedOf(x)
<1>1. Active(x)' = Active(x) /\ Pending(x)' = Pending(x)
  BY DEF OthersKept, Active
<1>2. \A r \in Requests : r \in Pending(x) => request'[r] = request[r]
  BY DEF OthersKept, Pending
<1>3. boundOf(x)' = boundOf(x)
  BY <1>1 DEF boundOf
<1>4. ASSUME Pending(x) = {} PROVE wantedOf(x)' = wantedOf(x)
  BY <1>1, <1>4 DEF wantedOf
<1>5. ASSUME Pending(x) # {} PROVE wantedOf(x)' = wantedOf(x)
  <2> DEFINE r == CHOOSE q \in Requests : q \in Pending(x)
  <2>1. r \in Requests /\ r \in Pending(x)
    BY <1>5 DEF Pending
  <2>2. request'[r] = request[r]
    BY <1>2, <2>1
  <2>3. wantedOf(x) = request[r].wanted
    BY <1>5 DEF wantedOf
  <2>4. wantedOf(x)' = request'[r].wanted
    BY <1>1, <1>5 DEF wantedOf
  <2> QED
    BY <2>2, <2>3, <2>4
<1> QED
  BY <1>3, <1>4, <1>5

\* A commit is a step of DeviceBinding, or a stutter of it.
LEMMA CommitRefines ==
  ASSUME IInv, NEW t \in Tx, Commit(t)
  PROVE  [Binding!Next]_(Binding!vars)
<1>1. PICK s \in Students : s = op[t].student
  BY OpFields DEF IInv, BusyHasOp, Commit
<1>2. PICK i \in Installations : i = op[t].installation
  BY OpFields DEF IInv, BusyHasOp, Commit
<1>3. CASE effect[t] = "none"
  <2>1. UNCHANGED <<device, request>>
    BY <1>3 DEF Commit, RequestsAfter, IInv, TypeOK
  <2> QED
    BY <2>1, RowsUnchangedStutters
<1> DEFINE bound == [x \in Students |-> boundOf(x)]
           wanted == [x \in Students |-> wantedOf(x)]
<1>4. ASSUME OthersKept(s), NEW b, boundOf(s)' = b
      PROVE  bound' = [bound EXCEPT ![s] = b]
  BY <1>4, AbstractOthersKept
<1>5. ASSUME OthersKept(s), NEW w, wantedOf(s)' = w
      PROVE  wanted' = [wanted EXCEPT ![s] = w]
  BY <1>5, AbstractOthersKept
<1>6. CASE effect[t] = "bind"
  <2>1. OthersKept(s) /\ BoundNow(s, i)
    BY <1>1, <1>2, <1>6, BindRows
  <2>2. Active(s) = {} /\ Pending(s) = {}
    BY <1>1, <1>6, BindMeansNoDevice DEF IInv, BusyHasOp, DecisionStands, Commit
  <2>3. boundOf(s) = None /\ wantedOf(s) = None
    BY <2>2 DEF boundOf, wantedOf
  <2>4. boundOf(s)' = i /\ wantedOf(s)' = None
    BY <2>1 DEF boundOf, wantedOf, BoundNow
  <2>5. bound' = [bound EXCEPT ![s] = i]
    BY <2>1, <2>4, <1>4
  <2>6. wanted' = [wanted EXCEPT ![s] = None]
    BY <2>1, <2>4, <1>5
  <2>7. wanted' = wanted
    BY <2>3, <2>6
  <2>8. Binding!BindFirst(s, i)
    BY <2>3, <2>5, <2>7 DEF Binding!BindFirst
  <2> QED
    BY <2>8 DEF Binding!Next
<1>7. CASE effect[t] = "ask"
  <2>1. OthersKept(s) /\ AskedNow(s, i)
    BY <1>1, <1>2, <1>7, AskRows
  <2>2. PICK a \in Installations, r \in Requests :
          /\ Active(s) = {a} /\ a # i /\ Active(s)' = {a}
          /\ Pending(s)' = {r} /\ request'[r].wanted = i
    BY <2>1 DEF AskedNow
  <2>3. Pending(s) = {}
    BY <1>1, <1>7, AskMeansOtherActive DEF IInv, BusyHasOp, DecisionStands, Commit
  <2>4. boundOf(s) = a /\ wantedOf(s) = None
    BY <2>2, <2>3 DEF boundOf, wantedOf
  <2>5. boundOf(s)' = a
    BY <2>2 DEF boundOf
  <2>6. wantedOf(s)' = i
    BY <2>2 DEF wantedOf
  <2>7. bound' = [bound EXCEPT ![s] = a] /\ wanted' = [wanted EXCEPT ![s] = i]
    BY <2>1, <2>5, <2>6, <1>4, <1>5
  <2>8. bound' = bound
    BY <2>4, <2>7
  <2>9. a # None
    BY NoneAssumption
  <2>10. Binding!Ask(s, i)
    BY <2>2, <2>4, <2>7, <2>8, <2>9 DEF Binding!Ask
  <2> QED
    BY <2>10 DEF Binding!Next
<1>8. CASE effect[t] \in {"approve", "reject"}
  <2>1. OthersKept(s) /\ (effect[t] = "approve" => BoundNow(s, i))
                      /\ (effect[t] = "reject" => RejectedNow(s))
    BY <1>1, <1>2, <1>8, ReviewRows
  <2>2. PICK r \in Requests : Pending(s) = {r} /\ request[r].wanted = i
    BY <1>1, <1>2, <1>8, ReviewMeansPending DEF Commit
  <2>3. wantedOf(s) = i /\ i # None
    BY <2>2, WantedIsPending, NoneAssumption
  <2>4. Pending(s)' = {}
    BY <1>8, <2>1 DEF BoundNow, RejectedNow
  <2>5. wantedOf(s)' = None
    BY <2>4 DEF wantedOf
  <2>6. wanted' = [wanted EXCEPT ![s] = None] /\ wanted[s] = i
    BY <2>1, <2>3, <2>5, <1>5
  <2>7. CASE effect[t] = "approve"
    <3>1. boundOf(s)' = i
      BY <2>1, <2>7 DEF BoundNow, boundOf
    <3>2. bound' = [bound EXCEPT ![s] = i]
      BY <2>1, <3>1, <1>4
    <3>3. Binding!Approve(s)
      BY <2>3, <2>6, <3>2 DEF Binding!Approve
    <3> QED
      BY <3>3 DEF Binding!Next
  <2>8. CASE effect[t] = "reject"
    <3>1. Active(s)' = Active(s)
      BY <2>1, <2>8 DEF RejectedNow
    <3>2. boundOf(s)' = boundOf(s)
      BY <3>1 DEF boundOf
    <3>3. bound' = [bound EXCEPT ![s] = boundOf(s)]
      BY <2>1, <3>2, <1>4
    <3>4. bound' = bound
      BY <3>3
    <3>5. Binding!Reject(s)
      BY <2>3, <2>6, <3>4 DEF Binding!Reject
    <3> QED
      BY <3>5 DEF Binding!Next
  <2> QED
    BY <1>8, <2>7, <2>8
<1> QED
  BY <1>3, <1>6, <1>7, <1>8 DEF IInv, TypeOK, Effect

\* The tables, the lock and every interleaving of requests, reviews and status
\* checks implement DeviceBinding: a student moves to another installation
\* only by the approval of the request that names it.
THEOREM Refinement == Spec => ImplementsDeviceBinding
<1>1. Init => Binding!Init
  <2> SUFFICES ASSUME Init PROVE Binding!Init
    OBVIOUS
  <2>1. \A s \in Students : Active(s) = {} /\ Pending(s) = {}
    BY DEF Init, Active, Pending, NoRequest
  <2>2. \A s \in Students : boundOf(s) = None /\ wantedOf(s) = None
    BY <2>1 DEF boundOf, wantedOf
  <2> QED
    BY <2>2 DEF Binding!Init
<1>2. IInv /\ [Next]_vars => [Binding!Next]_(Binding!vars)
  <2> SUFFICES ASSUME IInv, [Next]_vars PROVE [Binding!Next]_(Binding!vars)
    OBVIOUS
  <2>1. ASSUME NEW t \in Tx, Commit(t) PROVE [Binding!Next]_(Binding!vars)
    BY <2>1, CommitRefines
  <2>2. ASSUME NEW t \in Tx, Begin(t) \/ AcquireLock(t) \/ Execute(t) \/ Rollback(t)
                               \/ CheckSame(t) \/ CheckPending(t) \/ CheckActive(t)
        PROVE  UNCHANGED <<device, request>>
    BY <2>2 DEF Begin, AcquireLock, Execute, Rollback, CheckSame, CheckPending, CheckActive, Answer
  <2>3. CASE UNCHANGED vars
    BY <2>3, RowsUnchangedStutters DEF vars
  <2> QED
    BY <2>1, <2>2, <2>3, RowsUnchangedStutters DEF Next
<1> QED
  BY <1>1, <1>2, Invariance, PTL DEF Spec, ImplementsDeviceBinding, Binding!Spec

=============================================================================
