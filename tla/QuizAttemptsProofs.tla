------------------------- MODULE QuizAttemptsProofs -------------------------
(***************************************************************************)
(* TLAPS proofs about QuizAttempts: limits, numbers, grading and progress  *)
(* for any number of requests, attempts, enrollments and questions.        *)
(***************************************************************************)
EXTENDS QuizAttempts, FiniteSetTheorems, TLAPS

-----------------------------------------------------------------------------
(* The inductive invariant *)

Reading == {"read", "questions", "options", "commit"}

\* A request that is served has an operation, and a start or a submission
\* knows the enrollment it was entitled by.
BusyHasOp ==
  \A t \in Tx : pc[t] # "idle" =>
    /\ op[t] \in Op
    /\ op[t].kind # "save" => seen[t].enrollment # None

\* Inside its transaction a request holds its lock.
LockHeld ==
  \A t \in Tx : pc[t] \in Reading =>
    IF op[t].kind = "start" THEN startLock = t ELSE attemptLock[op[t].attempt] = t

\* A start that has passed the limit still has room when it commits.
RoomRemains ==
  \A t \in Tx :
    /\ pc[t] \in {"questions", "options"} => op[t].kind = "start"
    /\ pc[t] \in {"questions", "options"} \/ (pc[t] = "commit" /\ op[t].kind = "start") =>
         RoomFor(seen[t].limit, seen[t].enrollment)
    /\ pc[t] = "commit" /\ op[t].kind = "start" => seen[t].number > 0

\* What a request that holds an attempt has read of it is still there.
ReadStands ==
  \A t \in Tx : pc[t] = "commit" /\ op[t].kind # "start" =>
    /\ Writable(attempt[op[t].attempt])
    /\ op[t].kind = "submit" => seen[t].row = Graded(attempt[op[t].attempt])

IInv ==
  /\ TypeOK
  /\ BusyHasOp
  /\ LockHeld
  /\ RoomRemains
  /\ NumbersNeverCollide
  /\ ReadStands
  /\ GradedFromItself
  /\ ProgressIsEarned

-----------------------------------------------------------------------------
(* Facts about rows and operations *)

\* The fields that each kind of request fills in.
LEMMA OpFields ==
  ASSUME NEW o \in Op
  PROVE  /\ o.kind \in {"start", "save", "submit"}
         /\ o.kind # "start" => o.attempt \in Attempts
         /\ o.kind = "save" => o.question \in Questions /\ o.option \in Options
BY DEF Op

\* Scores are numbers: a paper has finitely many questions.
LEMMA ScoreIsNat ==
  ASSUME NEW row
  PROVE  Score(row) \in Nat
<1> DEFINE S == {q \in Asked(row.paper) : row.answer[q] # None /\ row.paper[q].right = {row.answer[q]}}
<1>1. S \subseteq Questions
  BY DEF Asked
<1>2. IsFiniteSet(S)
  BY <1>1, AttemptsAssumption, FS_Subset
<1> QED
  BY <1>2, FS_CardinalityType DEF Score

\* Grading a typed row gives a typed row.
LEMMA GradedTyped ==
  ASSUME NEW row \in Row
  PROVE  /\ Graded(row) \in Row
         /\ Graded(row).status = "GRADED"
         /\ Graded(row).score = Score(row)
         /\ Graded(row).passed = Passed(row)
         /\ Graded(row).threshold = row.threshold
<1>1. Score(row) \in Nat
  BY ScoreIsNat
<1>2. Passed(row) \in BOOLEAN \cup {None}
  BY DEF Passed
<1> QED
  BY <1>1, <1>2, ZenonT(30) DEF Graded, Row

\* The row that a submission entitled by enrollment e leaves.
GradedBy(row, e) == [Graded(row) EXCEPT !.gradedUnder = e]

LEMMA GradedByTyped ==
  ASSUME NEW row \in Row, NEW e \in Enrollments
  PROVE  /\ GradedBy(row, e) \in Row /\ GradedBy(row, e).gradedUnder = e
         /\ GradedBy(row, e).status = "GRADED"
         /\ GradedBy(row, e).score = Score(row) /\ GradedBy(row, e).passed = Passed(row)
         /\ GradedBy(row, e).threshold = row.threshold /\ GradedBy(row, e).paper = row.paper
         /\ GradedBy(row, e).answer = row.answer /\ GradedBy(row, e).number = row.number
         /\ GradedBy(row, e).enrollment = row.enrollment
<1>1. /\ Graded(row) \in Row /\ Graded(row).paper = row.paper /\ Graded(row).answer = row.answer
      /\ Graded(row).number = row.number /\ Graded(row).enrollment = row.enrollment
  BY GradedTyped DEF Graded, Row
<1> QED
  BY <1>1, GradedTyped DEF GradedBy, Row

\* A row counts the same points as long as its answers and its paper are the same.
LEMMA ScoreReadsRow ==
  ASSUME NEW r1, NEW r2, r1.paper = r2.paper, r1.answer = r2.answer, r1.threshold = r2.threshold
  PROVE  Score(r1) = Score(r2) /\ Passed(r1) = Passed(r2)
BY DEF Score, Passed, Asked

\* The empty slot and the empty reads are typed.
LEMMA NoRowTyped == NoRow \in Row /\ NothingSeen \in Seen
BY DEF NoRow, Row, NothingSeen, Seen, BlankSheet, Sheet

-----------------------------------------------------------------------------
(* The steps *)

\* Nobody is enrolled and no attempt exists at first.
LEMMA InitIInv == Init => IInv
<1> SUFFICES ASSUME Init PROVE IInv
  OBVIOUS
<1>1. TypeOK
  BY NoRowTyped, VersionsAssumption DEF Init, TypeOK, Stage, Started, NoRow
<1>2. \A e : EarnedUnder(e) = {}
  BY DEF Init, EarnedUnder, NoRow
<1> QED
  BY <1>1, <1>2 DEF Init, IInv, BusyHasOp, LockHeld, Reading, RoomRemains, NumbersNeverCollide,
     ReadStands, GradedFromItself, ProgressIsEarned, NoRow

\* A step that writes no row of the database keeps what is said about rows.
LEMMA RowsUnchanged ==
  ASSUME IInv, UNCHANGED Rows
  PROVE  /\ GradedFromItself' /\ ProgressIsEarned'
         /\ Started' = Started
         /\ \A limit, e : RoomFor(limit, e)' = RoomFor(limit, e)
BY DEF IInv, Rows, GradedFromItself, ProgressIsEarned, Started, RoomFor, StartedUnder, EarnedUnder

\* The end of a request leaves the others, and their locks, where they are.
LEMMA EndKeepsOthers ==
  ASSUME IInv, NEW t \in Tx, End(t)
  PROVE  /\ pc' \in [Tx -> Stage] /\ op' \in [Tx -> Op \cup {NoOp}] /\ seen' \in [Tx -> Seen]
         /\ startLock' \in Tx \cup {NoTx} /\ attemptLock' \in [Attempts -> Tx \cup {NoTx}]
         /\ pc'[t] = "idle"
         /\ \A u \in Tx \ {t} : pc'[u] = pc[u] /\ op'[u] = op[u] /\ seen'[u] = seen[u]
         /\ BusyHasOp' /\ LockHeld'
<1>1. /\ pc' \in [Tx -> Stage] /\ op' \in [Tx -> Op \cup {NoOp}] /\ seen' \in [Tx -> Seen]
      /\ startLock' \in Tx \cup {NoTx} /\ attemptLock' \in [Attempts -> Tx \cup {NoTx}]
      /\ pc'[t] = "idle"
      /\ \A u \in Tx \ {t} : pc'[u] = pc[u] /\ op'[u] = op[u] /\ seen'[u] = seen[u]
  BY NoRowTyped DEF End, IInv, TypeOK, Stage
<1>2. BusyHasOp'
  BY <1>1 DEF IInv, BusyHasOp
<1>3. LockHeld'
  <2> SUFFICES ASSUME NEW u \in Tx, pc'[u] \in Reading
               PROVE  IF op'[u].kind = "start" THEN startLock' = u
                                               ELSE attemptLock'[op'[u].attempt] = u
    BY DEF LockHeld
  <2>1. u # t /\ pc'[u] = pc[u] /\ op'[u] = op[u]
    BY <1>1 DEF Reading
  <2>2. op[u] \in Op
    BY <2>1 DEF IInv, BusyHasOp, Reading
  <2>3. IF op[u].kind = "start" THEN startLock = u ELSE attemptLock[op[u].attempt] = u
    BY <2>1 DEF IInv, LockHeld
  <2> QED
    BY <2>1, <2>2, <2>3, OpFields DEF End
<1> QED
  BY <1>1, <1>2, <1>3

\* A request that ends without writing.
LEMMA EndIInv ==
  ASSUME IInv, NEW t \in Tx, End(t), UNCHANGED <<World, Rows>>
  PROVE  IInv'
<1>1. TypeOK'
  BY EndKeepsOthers DEF IInv, TypeOK, Rows, World, Started
<1>2. RoomRemains' /\ NumbersNeverCollide' /\ ReadStands'
  BY EndKeepsOthers, RowsUnchanged DEF IInv, RoomRemains, NumbersNeverCollide, ReadStands, Rows
<1> QED
  BY <1>1, <1>2, EndKeepsOthers, RowsUnchanged DEF IInv

\* A request that arrives has read nothing that could be stale.
LEMMA BeginIInv ==
  ASSUME IInv, NEW t \in Tx, Begin(t)
  PROVE  IInv'
<1>1. PICK o \in Op :
        /\ op' = [op EXCEPT ![t] = o]
        /\ seen' = [seen EXCEPT ![t].enrollment = IF o.kind = "save" THEN None ELSE enrolled.now]
  BY DEF Begin
<1>2. /\ pc' = [pc EXCEPT ![t] = "lock"] /\ enrolled.now # None
      /\ UNCHANGED <<World, Rows, Locks>>
  BY DEF Begin
<1>3. seen' \in [Tx -> Seen]
  <2>1. seen[t] \in Seen /\ enrolled.now \in Enrollments \cup {None}
    BY DEF IInv, TypeOK
  <2>2. \A e \in Enrollments \cup {None} : [seen[t] EXCEPT !.enrollment = e] \in Seen
    BY <2>1 DEF Seen
  <2> QED
    BY <1>1, <2>1, <2>2 DEF IInv, TypeOK
<1>4. \A u \in Tx \ {t} : seen'[u] = seen[u] /\ op'[u] = op[u] /\ pc'[u] = pc[u]
  BY <1>1, <1>2 DEF IInv, TypeOK
<1>5. pc'[t] = "lock" /\ op'[t] = o /\ (o.kind # "save" => seen'[t].enrollment = enrolled.now)
  BY <1>1, <1>2 DEF IInv, TypeOK, Seen
<1>6. TypeOK'
  BY <1>1, <1>2, <1>3 DEF IInv, TypeOK, Stage, World, Rows, Locks, Started
<1>7. BusyHasOp' /\ LockHeld'
  BY <1>2, <1>4, <1>5 DEF IInv, BusyHasOp, LockHeld, Locks, Reading
<1>8. RoomRemains' /\ NumbersNeverCollide' /\ ReadStands'
  BY <1>2, <1>4, <1>5, RowsUnchanged DEF IInv, RoomRemains, NumbersNeverCollide, ReadStands, Rows
<1> QED
  BY <1>2, <1>6, <1>7, <1>8, RowsUnchanged DEF IInv

\* An advisory lock goes to one request, before it reads what the lock protects.
LEMMA AcquireLockIInv ==
  ASSUME IInv, NEW t \in Tx, AcquireLock(t)
  PROVE  IInv'
<1>1. /\ pc[t] = "lock" /\ pc' = [pc EXCEPT ![t] = "read"]
      /\ UNCHANGED <<World, Rows, op, seen>>
      /\ IF op[t].kind = "start" THEN LockStart(t) ELSE LockAttempt(t)
  BY DEF AcquireLock
<1>2. op[t] \in Op /\ (op[t].kind # "start" => op[t].attempt \in Attempts)
  BY <1>1, OpFields DEF IInv, BusyHasOp
<1>3. TypeOK'
  BY <1>1, <1>2 DEF IInv, TypeOK, Stage, World, Rows, Started, LockStart, LockAttempt
<1>4. BusyHasOp'
  BY <1>1 DEF IInv, TypeOK, BusyHasOp
<1>5. LockHeld'
  <2> SUFFICES ASSUME NEW u \in Tx, pc'[u] \in Reading
               PROVE  IF op[u].kind = "start" THEN startLock' = u
                                              ELSE attemptLock'[op[u].attempt] = u
    BY <1>1 DEF LockHeld
  <2>1. CASE u = t
    BY <1>1, <1>2, <2>1 DEF LockStart, LockAttempt, IInv, TypeOK
  <2>2. CASE u # t
    <3>1. pc[u] \in Reading /\ op[u] \in Op
      BY <1>1, <2>2 DEF IInv, TypeOK, BusyHasOp, Reading
    <3>2. IF op[u].kind = "start" THEN startLock = u ELSE attemptLock[op[u].attempt] = u
      BY <3>1 DEF IInv, LockHeld
    <3> QED
      BY <1>1, <1>2, <2>2, <3>1, <3>2, NoTxAssumption, OpFields DEF LockStart, LockAttempt, IInv, TypeOK
  <2> QED
    BY <2>1, <2>2
<1>6. RoomRemains' /\ NumbersNeverCollide' /\ ReadStands'
  BY <1>1, RowsUnchanged DEF IInv, TypeOK, RoomRemains, NumbersNeverCollide, ReadStands, Rows
<1> QED
  BY <1>1, <1>3, <1>4, <1>5, <1>6, RowsUnchanged DEF IInv

\* The steps of a start between its lock and its commit.
LEMMA StartReadsIInv ==
  ASSUME IInv, NEW t \in Tx, ReadQuiz(t) \/ ReadQuestions(t) \/ ReadOptions(t)
  PROVE  IInv'
<1>1. UNCHANGED <<World, Rows, Locks, op>>
  BY DEF ReadQuiz, ReadQuestions, ReadOptions
<1>2. op[t] \in Op /\ op[t].kind = "start" /\ seen[t] \in Seen /\ quiz \in Quiz
  BY DEF IInv, TypeOK, BusyHasOp, RoomRemains, ReadQuiz, ReadQuestions, ReadOptions
<1>3. PICK st \in {"questions", "options", "commit"} : pc' = [pc EXCEPT ![t] = st]
  BY DEF ReadQuiz, ReadQuestions, ReadOptions
<1>4. PICK r \in Seen :
        /\ seen' = [seen EXCEPT ![t] = r]
        /\ r.enrollment = seen[t].enrollment
        /\ RoomFor(r.limit, r.enrollment)
        /\ st = "commit" => r.number > 0 /\ \A a \in Started : attempt[a].number < r.number
  <2>1. CASE ReadQuiz(t)
    <3> DEFINE r == [seen[t] EXCEPT !.limit = quiz.limit, !.threshold = quiz.threshold]
    <3>1. r \in Seen /\ r.limit = quiz.limit /\ r.enrollment = seen[t].enrollment
      BY <1>2 DEF Seen, Quiz
    <3>2. st = "questions"
      BY <1>3, <2>1 DEF ReadQuiz, IInv, TypeOK
    <3>3. seen' = [seen EXCEPT ![t] = r] /\ RoomFor(quiz.limit, seen[t].enrollment)
      BY <2>1 DEF ReadQuiz
    <3> QED
      BY <3>1, <3>2, <3>3
  <2>2. CASE ReadQuestions(t)
    <3> DEFINE p == [q \in Questions |-> [BlankSheet EXCEPT !.active = quiz.paper[q].active]]
               r == [seen[t] EXCEPT !.paper = p]
    <3>1. p \in [Questions -> Sheet]
      BY <1>2 DEF Quiz, BlankSheet, Sheet
    <3>2. r \in Seen /\ r.limit = seen[t].limit /\ r.enrollment = seen[t].enrollment
      BY <1>2, <3>1 DEF Seen
    <3>3. st = "options"
      BY <1>3, <2>2 DEF ReadQuestions, IInv, TypeOK
    <3>4. seen' = [seen EXCEPT ![t] = r] /\ RoomFor(seen[t].limit, seen[t].enrollment)
      BY <2>2 DEF ReadQuestions, IInv, RoomRemains
    <3> QED
      BY <3>2, <3>3, <3>4
  <2>3. CASE ReadOptions(t)
    <3> DEFINE p == [q \in Questions |-> IF seen[t].paper[q].active
                                         THEN [quiz.paper[q] EXCEPT !.active = TRUE] ELSE BlankSheet]
    <3>1. p \in [Questions -> Sheet]
      BY <1>2, ZenonT(30) DEF Quiz, BlankSheet, Sheet
    <3>2. IsFiniteSet(Attempts)
      BY AttemptsAssumption
    <3>3. Cardinality(Attempts) \in Nat
      BY <3>2, FS_CardinalityType
    <3> DEFINE Reads(n) == IsNextNumber(n) /\ seen' = [seen EXCEPT ![t].paper = p, ![t].number = n]
    <3>4. \E n \in 0..(Cardinality(Attempts) + 1) : Reads(n)
      BY <2>3, ZenonT(30) DEF ReadOptions
    <3>5. PICK n \in Nat : Reads(n)
      <4> HIDE DEF Reads
      <4> QED BY <3>3, <3>4
    <3>6. IsNextNumber(n) /\ seen' = [seen EXCEPT ![t].paper = p, ![t].number = n]
      BY <3>5
    <3> DEFINE r == [seen[t] EXCEPT !.paper = p, !.number = n]
    <3>7. /\ r \in Seen /\ r.limit = seen[t].limit /\ r.enrollment = seen[t].enrollment
          /\ r.number = n
      BY <1>2, <3>1 DEF Seen
    <3>8. seen' = [seen EXCEPT ![t] = r] /\ RoomFor(seen[t].limit, seen[t].enrollment)
      BY <2>3, <3>6 DEF ReadOptions, IInv, RoomRemains
    <3>9. n > 0 /\ \A a \in Started : attempt[a].number < n
      BY <3>6 DEF IsNextNumber
    <3> QED
      BY <3>7, <3>8, <3>9
  <2> QED
    BY <2>1, <2>2, <2>3
<1>5. \A u \in Tx \ {t} : pc'[u] = pc[u] /\ seen'[u] = seen[u]
  BY <1>3, <1>4 DEF IInv, TypeOK
<1>6. pc'[t] = st /\ seen'[t] = r /\ pc[t] \in Reading
  BY <1>3, <1>4 DEF IInv, TypeOK, ReadQuiz, ReadQuestions, ReadOptions, Reading
<1>7. TypeOK'
  BY <1>1, <1>3, <1>4 DEF IInv, TypeOK, Stage, World, Rows, Locks, Started
<1>8. BusyHasOp'
  BY <1>1, <1>4, <1>5, <1>6 DEF IInv, BusyHasOp, Reading
<1>9. LockHeld'
  BY <1>1, <1>5, <1>6 DEF IInv, LockHeld, Locks
<1>10. RoomRemains'
  BY <1>1, <1>2, <1>4, <1>5, <1>6, RowsUnchanged DEF IInv, RoomRemains
<1>11. NumbersNeverCollide'
  <2> SUFFICES ASSUME NEW u \in Tx, pc'[u] = "commit", op[u].kind = "start", NEW a \in Started
               PROVE  attempt[a].number # seen'[u].number
    BY <1>1, RowsUnchanged DEF NumbersNeverCollide, Rows
  <2>1. attempt[a].number \in Nat /\ a \in Attempts
    BY DEF IInv, TypeOK, Row, Started
  <2>2. CASE u = t
    BY <1>4, <1>6, <2>1, <2>2 DEF Seen
  <2>3. CASE u # t
    BY <1>5, <2>3 DEF IInv, NumbersNeverCollide
  <2> QED
    BY <2>2, <2>3
<1>12. ReadStands'
  BY <1>1, <1>2, <1>5, <1>6 DEF IInv, ReadStands, Rows
<1> QED
  BY <1>1, <1>7, <1>8, <1>9, <1>10, <1>11, <1>12, RowsUnchanged DEF IInv

\* An answer or a submission reads its attempt.
LEMMA AttemptReadsIInv ==
  ASSUME IInv, NEW t \in Tx, ReadForAnswer(t) \/ ReadForGrading(t)
  PROVE  IInv'
<1> DEFINE a == op[t].attempt
<1>1. /\ UNCHANGED <<World, Rows, Locks, op>>
      /\ pc[t] = "read" /\ pc' = [pc EXCEPT ![t] = "commit"]
      /\ op[t].kind \in {"save", "submit"}
      /\ Writable(attempt[a])
  BY DEF ReadForAnswer, ReadForGrading
<1>2. op[t] \in Op /\ a \in Attempts /\ seen[t] \in Seen /\ attempt[a] \in Row
  BY <1>1, OpFields DEF IInv, TypeOK, BusyHasOp
<1>3. PICK r \in Seen :
        /\ seen' = [seen EXCEPT ![t] = r]
        /\ r.enrollment = seen[t].enrollment
        /\ op[t].kind = "submit" => r.row = Graded(attempt[a])
  <2>1. CASE ReadForAnswer(t)
    BY <1>2, <2>1 DEF ReadForAnswer, IInv, TypeOK
  <2>2. CASE ReadForGrading(t)
    <3> DEFINE r == [seen[t] EXCEPT !.row = Graded(attempt[a])]
    <3>1. Graded(attempt[a]) \in Row
      BY <1>2, GradedTyped
    <3>2. r \in Seen /\ r.enrollment = seen[t].enrollment /\ r.row = Graded(attempt[a])
      BY <1>2, <3>1 DEF Seen
    <3>3. seen' = [seen EXCEPT ![t] = r]
      BY <2>2 DEF ReadForGrading
    <3> QED
      BY <3>2, <3>3
  <2> QED
    BY <2>1, <2>2
<1>4. \A u \in Tx \ {t} : pc'[u] = pc[u] /\ seen'[u] = seen[u]
  BY <1>1, <1>3 DEF IInv, TypeOK
<1>5. pc'[t] = "commit" /\ seen'[t] = r
  BY <1>1, <1>3 DEF IInv, TypeOK
<1>6. TypeOK'
  BY <1>1, <1>3 DEF IInv, TypeOK, Stage, World, Rows, Locks, Started
<1>7. BusyHasOp'
  BY <1>1, <1>3, <1>4, <1>5 DEF IInv, BusyHasOp
<1>8. LockHeld'
  BY <1>1, <1>4, <1>5 DEF IInv, LockHeld, Locks, Reading
<1>9. RoomRemains'
  BY <1>1, <1>4, <1>5, RowsUnchanged DEF IInv, RoomRemains
<1>10. NumbersNeverCollide'
  BY <1>1, <1>4, <1>5, RowsUnchanged DEF IInv, NumbersNeverCollide, Rows
<1>11. ReadStands'
  BY <1>1, <1>3, <1>4, <1>5 DEF IInv, ReadStands, Rows
<1> QED
  BY <1>1, <1>6, <1>7, <1>8, <1>9, <1>10, <1>11, RowsUnchanged DEF IInv

\* The rest of the platform touches neither rows nor requests.
LEMMA PlatformIInv ==
  ASSUME IInv, Author \/ Enroll \/ Unenroll
  PROVE  IInv'
<1>1. UNCHANGED <<Rows, Locks, pc, op, seen>>
  BY DEF Author, Enroll, Unenroll
<1>2. quiz' \in Quiz /\ enrolled' \in [now : Enrollments \cup {None}, before : SUBSET Enrollments]
  BY VersionsAssumption DEF Author, Enroll, Unenroll, IInv, TypeOK
<1>3. TypeOK'
  BY <1>1, <1>2 DEF IInv, TypeOK, Rows, Locks, Started
<1>4. BusyHasOp' /\ LockHeld' /\ ReadStands'
  BY <1>1 DEF IInv, BusyHasOp, LockHeld, ReadStands, Locks, Rows
<1>5. RoomRemains' /\ NumbersNeverCollide'
  BY <1>1, RowsUnchanged DEF IInv, RoomRemains, NumbersNeverCollide, Rows
<1> QED
  BY <1>1, <1>3, <1>4, <1>5, RowsUnchanged DEF IInv

-----------------------------------------------------------------------------
(* The commits *)

\* Writing one attempt does not disturb the requests at other attempts, and
\* starts are disturbed only by a new one.
LEMMA OthersUndisturbed ==
  ASSUME IInv, NEW t \in Tx, End(t), pc[t] = "commit", NEW a \in Attempts, NEW r \in Row,
         attempt' = [attempt EXCEPT ![a] = r],
         \/ op[t].kind = "start" /\ attempt[a].status = "absent"
         \/ /\ op[t].kind # "start" /\ op[t].attempt = a
            /\ attempt[a].status # "absent" /\ r.status # "absent"
            /\ r.enrollment = attempt[a].enrollment /\ r.number = attempt[a].number
  PROVE  RoomRemains' /\ NumbersNeverCollide' /\ ReadStands'
<1>1. \A u \in Tx \ {t} : pc'[u] = pc[u] /\ op'[u] = op[u] /\ seen'[u] = seen[u]
  BY EndKeepsOthers
<1>2. pc'[t] = "idle"
  BY EndKeepsOthers
<1>3. ASSUME NEW u \in Tx \ {t}, op[u].kind = "start", pc[u] \in Reading
      PROVE  Started' = Started /\ \A x \in Attempts : /\ attempt'[x].enrollment = attempt[x].enrollment
                                                       /\ attempt'[x].number = attempt[x].number
  <2>1. startLock = u
    BY <1>3 DEF IInv, LockHeld
  <2>2. op[t].kind # "start"
    BY <2>1 DEF IInv, LockHeld, Reading
  <2> QED
    BY <2>2 DEF Started, IInv, TypeOK
<1>4. ASSUME NEW u \in Tx \ {t}, op[u].kind = "start", pc[u] \in Reading
      PROVE  \A limit, e : RoomFor(limit, e) => RoomFor(limit, e)'
  <2>1. \A e : StartedUnder(e)' = StartedUnder(e)
    BY <1>3, <1>4 DEF StartedUnder, Started
  <2> QED
    BY <2>1 DEF RoomFor
<1>5. RoomRemains'
  <2> SUFFICES ASSUME NEW u \in Tx
               PROVE  /\ pc'[u] \in {"questions", "options"} => op'[u].kind = "start"
                      /\ pc'[u] \in {"questions", "options"} \/ (pc'[u] = "commit" /\ op'[u].kind = "start") =>
                           RoomFor(seen[u].limit, seen[u].enrollment)'
                      /\ pc'[u] = "commit" /\ op'[u].kind = "start" => seen'[u].number > 0
    BY DEF RoomRemains
  <2>1. CASE u = t
    BY <1>2, <2>1
  <2>2. CASE u # t
    <3>1. pc'[u] = pc[u] /\ op'[u] = op[u] /\ seen'[u] = seen[u]
      BY <1>1, <2>2
    <3>2. pc[u] \in {"questions", "options"} \/ (pc[u] = "commit" /\ op[u].kind = "start") =>
            RoomFor(seen[u].limit, seen[u].enrollment) /\ op[u].kind = "start" /\ pc[u] \in Reading
      BY DEF IInv, RoomRemains, Reading
    <3>3. PICK l, e : l = seen[u].limit /\ e = seen[u].enrollment
      OBVIOUS
    <3>4. pc[u] \in {"questions", "options"} \/ (pc[u] = "commit" /\ op[u].kind = "start") =>
            RoomFor(l, e)'
      BY <1>4, <2>2, <3>2, <3>3
    <3>5. RoomFor(l, e)' = RoomFor(seen[u].limit, seen[u].enrollment)'
      BY <3>1, <3>3 DEF RoomFor, StartedUnder, Started
    <3> QED
      BY <3>1, <3>4, <3>5 DEF IInv, RoomRemains
  <2> QED
    BY <2>1, <2>2
<1>6. NumbersNeverCollide'
  <2> SUFFICES ASSUME NEW u \in Tx, pc'[u] = "commit", op'[u].kind = "start", NEW x \in Started'
               PROVE  attempt'[x].number # seen'[u].number
    BY DEF NumbersNeverCollide
  <2>1. u # t /\ pc[u] = "commit" /\ op[u].kind = "start" /\ seen'[u] = seen[u]
    BY <1>1, <1>2
  <2>2. x \in Started /\ x \in Attempts /\ attempt'[x].number = attempt[x].number
    BY <1>3, <2>1 DEF Reading, Started
  <2> QED
    BY <2>1, <2>2 DEF IInv, NumbersNeverCollide
<1>7. ReadStands'
  <2> SUFFICES ASSUME NEW u \in Tx, pc'[u] = "commit", op'[u].kind # "start"
               PROVE  /\ Writable(attempt'[op'[u].attempt])
                      /\ op'[u].kind = "submit" => seen'[u].row = Graded(attempt'[op'[u].attempt])
    BY DEF ReadStands
  <2>1. u # t /\ pc[u] = "commit" /\ op'[u] = op[u] /\ seen'[u] = seen[u]
    BY <1>1, <1>2
  <2>2. op[u].attempt \in Attempts
    BY <2>1, OpFields DEF IInv, BusyHasOp
  <2>3. Writable(attempt[op[u].attempt]) /\ attemptLock[op[u].attempt] = u
    BY <2>1 DEF IInv, ReadStands, LockHeld, Reading
  <2>4. op[u].attempt # a
    BY <2>1, <2>3 DEF IInv, LockHeld, Reading, Writable
  <2>5. attempt'[op[u].attempt] = attempt[op[u].attempt]
    BY <2>2, <2>4 DEF IInv, TypeOK
  <2> QED
    BY <2>1, <2>3, <2>5 DEF IInv, ReadStands
<1> QED
  BY <1>5, <1>6, <1>7

\* The rows that a commit writes are typed.
LEMMA CommitTyped ==
  ASSUME IInv, NEW t \in Tx, End(t), UNCHANGED World, NEW a \in Attempts, NEW r \in Row,
         attempt' = [attempt EXCEPT ![a] = r],
         r.status # "absent" => r.number > 0 /\ r.enrollment # None,
         progress' \in [Enrollments -> Attempts \cup {None}]
  PROVE  TypeOK'
BY EndKeepsOthers DEF IInv, TypeOK, World, Started

\* The row a start inserts.
LEMMA StartWrites ==
  ASSUME IInv, NEW t \in Tx, CommitStart(t)
  PROVE  \E a \in Attempts, r \in Row :
           /\ attempt[a].status = "absent"
           /\ attempt' = [attempt EXCEPT ![a] = r]
           /\ r.status = "IN_PROGRESS" /\ r.number = seen[t].number /\ r.number > 0
           /\ r.enrollment = seen[t].enrollment /\ r.enrollment # None
<1> DEFINE r == [NoRow EXCEPT !.status = "IN_PROGRESS", !.number = seen[t].number,
                              !.enrollment = seen[t].enrollment,
                              !.threshold = seen[t].threshold, !.paper = seen[t].paper]
<1>1. seen[t] \in Seen /\ pc[t] = "commit" /\ op[t].kind = "start"
  BY DEF IInv, TypeOK, CommitStart
<1>2. seen[t].number > 0 /\ seen[t].enrollment # None
  BY <1>1 DEF IInv, RoomRemains, BusyHasOp
<1>3. /\ r \in Row /\ r.status = "IN_PROGRESS" /\ r.number = seen[t].number
      /\ r.enrollment = seen[t].enrollment
  BY <1>1, ZenonT(30) DEF NoRow, Row, Seen
<1>4. PICK a \in Attempts \ Started : attempt' = [attempt EXCEPT ![a] = r]
  BY DEF CommitStart
<1> QED
  BY <1>2, <1>3, <1>4 DEF Started

\* A committed start adds one attempt with a free number within the limit.
LEMMA CommitStartIInv ==
  ASSUME IInv, NEW t \in Tx, CommitStart(t)
  PROVE  IInv'
<1>1. PICK a \in Attempts, r \in Row :
        /\ attempt[a].status = "absent"
        /\ attempt' = [attempt EXCEPT ![a] = r]
        /\ r.status = "IN_PROGRESS" /\ r.number > 0 /\ r.enrollment # None
  BY StartWrites
<1>2. pc[t] = "commit" /\ op[t].kind = "start" /\ End(t) /\ UNCHANGED <<World, progress>>
  BY DEF CommitStart
<1>3. TypeOK'
  BY <1>1, <1>2, CommitTyped DEF IInv, TypeOK
<1>4. RoomRemains' /\ NumbersNeverCollide' /\ ReadStands'
  BY <1>1, <1>2, OthersUndisturbed
<1>5. GradedFromItself'
  BY <1>1 DEF IInv, TypeOK, GradedFromItself
<1>6. \A e : EarnedUnder(e)' = EarnedUnder(e)
  BY <1>1 DEF IInv, TypeOK, EarnedUnder
<1>7. ProgressIsEarned'
  BY <1>2, <1>6 DEF IInv, ProgressIsEarned
<1> QED
  BY <1>2, <1>3, <1>4, <1>5, <1>7, EndKeepsOthers DEF IInv

\* The row an answer or a grading rewrites: one that is held and IN_PROGRESS.
LEMMA HeldRow ==
  ASSUME IInv, NEW t \in Tx, pc[t] = "commit", op[t].kind # "start"
  PROVE  /\ op[t] \in Op /\ op[t].attempt \in Attempts
         /\ attempt[op[t].attempt] \in Row
         /\ attempt[op[t].attempt].status = "IN_PROGRESS"
         /\ attempt[op[t].attempt].number > 0 /\ attempt[op[t].attempt].enrollment # None
<1>1. op[t] \in Op /\ op[t].attempt \in Attempts
  BY OpFields DEF IInv, BusyHasOp
<1>2. attempt[op[t].attempt].status = "IN_PROGRESS"
  BY DEF IInv, ReadStands, Writable
<1> QED
  BY <1>1, <1>2 DEF IInv, TypeOK, Started

\* A committed answer changes one attempt that is in progress.
LEMMA CommitAnswerIInv ==
  ASSUME IInv, NEW t \in Tx, CommitAnswer(t)
  PROVE  IInv'
<1> DEFINE a == op[t].attempt
           r == [attempt[a] EXCEPT !.answer[op[t].question] = op[t].option]
<1>1. pc[t] = "commit" /\ op[t].kind = "save" /\ End(t) /\ UNCHANGED <<World, progress>>
  BY DEF CommitAnswer
<1>2. /\ a \in Attempts /\ attempt[a] \in Row /\ attempt[a].status = "IN_PROGRESS"
      /\ attempt[a].number > 0 /\ attempt[a].enrollment # None
  BY <1>1, HeldRow
<1>3. op[t].question \in Questions /\ op[t].option \in Options
  BY <1>1, HeldRow, OpFields
<1>4. /\ r \in Row /\ r.status = "IN_PROGRESS" /\ r.number = attempt[a].number
      /\ r.enrollment = attempt[a].enrollment
  BY <1>2, <1>3 DEF Row
<1>5. attempt' = [attempt EXCEPT ![a] = r]
  BY DEF CommitAnswer
<1> HIDE DEF r
<1>6. TypeOK'
  BY <1>1, <1>2, <1>4, <1>5, CommitTyped DEF IInv, TypeOK
<1>7. RoomRemains' /\ NumbersNeverCollide' /\ ReadStands'
  BY <1>1, <1>2, <1>4, <1>5, OthersUndisturbed
<1>8. GradedFromItself' /\ \A e : EarnedUnder(e)' = EarnedUnder(e)
  BY <1>2, <1>4, <1>5 DEF IInv, TypeOK, GradedFromItself, EarnedUnder
<1>9. ProgressIsEarned'
  BY <1>1, <1>8 DEF IInv, ProgressIsEarned
<1> QED
  BY <1>1, <1>6, <1>7, <1>8, <1>9, EndKeepsOthers DEF IInv

\* What a submission writes: the grading of the attempt as it stands.
LEMMA GradeWrites ==
  ASSUME IInv, NEW t \in Tx, CommitGrade(t)
  PROVE  \E a \in Attempts, r \in Row :
           /\ a = op[t].attempt /\ seen[t].enrollment \in Enrollments
           /\ r = GradedBy(attempt[a], seen[t].enrollment)
           /\ attempt[a] \in Row /\ attempt[a].status = "IN_PROGRESS"
           /\ attempt' = [attempt EXCEPT ![a] = r]
           /\ progress' = IF Qualifies(r) THEN Credit(a, seen[t].enrollment) ELSE progress
<1> DEFINE a == op[t].attempt
<1>1. pc[t] = "commit" /\ op[t].kind = "submit"
  BY DEF CommitGrade
<1>2. a \in Attempts /\ attempt[a] \in Row /\ attempt[a].status = "IN_PROGRESS"
  BY <1>1, HeldRow
<1>3. seen[t].row = Graded(attempt[a])
  BY <1>1 DEF IInv, ReadStands
<1>4. seen[t].enrollment \in Enrollments
  BY <1>1 DEF IInv, TypeOK, BusyHasOp, Seen
<1> DEFINE r == GradedBy(attempt[a], seen[t].enrollment)
<1>5. r \in Row
  BY <1>2, <1>4, GradedByTyped
<1>6. r = [attempt[a] EXCEPT !.status = seen[t].row.status, !.score = seen[t].row.score,
                             !.passed = seen[t].row.passed, !.gradedUnder = seen[t].enrollment]
  <2>1. Graded(attempt[a]) = [attempt[a] EXCEPT !.status = "GRADED", !.score = Score(attempt[a]),
                                                !.passed = Passed(attempt[a])]
    BY DEF Graded
  <2>2. /\ seen[t].row.status = "GRADED" /\ seen[t].row.score = Score(attempt[a])
        /\ seen[t].row.passed = Passed(attempt[a])
    BY <1>2, <1>3, GradedTyped
  <2> QED
    BY <1>2, <2>1, <2>2 DEF GradedBy, Row
<1>7. attempt' = [attempt EXCEPT ![a] = r]
  <2>1. attempt' = [attempt EXCEPT ![a].status = seen[t].row.status,
                                   ![a].score = seen[t].row.score,
                                   ![a].passed = seen[t].row.passed,
                                   ![a].gradedUnder = seen[t].enrollment]
    BY DEF CommitGrade
  <2>2. attempt' = [attempt EXCEPT ![a] =
                      [attempt[a] EXCEPT !.status = seen[t].row.status, !.score = seen[t].row.score,
                                         !.passed = seen[t].row.passed,
                                         !.gradedUnder = seen[t].enrollment]]
    BY <1>2, <2>1 DEF IInv, TypeOK
  <2> HIDE DEF r
  <2> QED
    BY <1>6, <2>2
<1>8. progress' = IF Qualifies(r) THEN Credit(a, seen[t].enrollment) ELSE progress
  <2>1. Qualifies(r) <=> Qualifies(Graded(attempt[a]))
    BY <1>2, <1>4, GradedTyped, GradedByTyped DEF Qualifies
  <2> QED
    BY <1>3, <2>1 DEF CommitGrade
<1> QED
  BY <1>2, <1>4, <1>5, <1>7, <1>8

\* A committed grading writes the result and the progress together.
LEMMA CommitGradeIInv ==
  ASSUME IInv, NEW t \in Tx, CommitGrade(t)
  PROVE  IInv'
<1>1. PICK a \in Attempts, r \in Row :
           /\ a = op[t].attempt /\ seen[t].enrollment \in Enrollments
           /\ r = GradedBy(attempt[a], seen[t].enrollment)
           /\ attempt[a] \in Row /\ attempt[a].status = "IN_PROGRESS"
           /\ attempt' = [attempt EXCEPT ![a] = r]
           /\ progress' = IF Qualifies(r) THEN Credit(a, seen[t].enrollment) ELSE progress
  BY GradeWrites
<1>2. pc[t] = "commit" /\ op[t].kind = "submit" /\ End(t) /\ UNCHANGED World
  BY DEF CommitGrade
<1>3. seen[t].enrollment \in Enrollments
  BY <1>1
<1>4. attempt[a].number > 0 /\ attempt[a].enrollment # None
  BY <1>1, <1>2, HeldRow
<1>5. /\ r.status = "GRADED" /\ r.score = Score(attempt[a]) /\ r.passed = Passed(attempt[a])
      /\ r.threshold = attempt[a].threshold /\ r.gradedUnder = seen[t].enrollment
  BY <1>1, GradedByTyped
<1>6. /\ r.paper = attempt[a].paper /\ r.answer = attempt[a].answer
      /\ r.number = attempt[a].number /\ r.enrollment = attempt[a].enrollment
  BY <1>1, GradedByTyped
<1>7. progress' \in [Enrollments -> Attempts \cup {None}]
  BY <1>1, <1>3 DEF Credit, IInv, TypeOK
<1>8. TypeOK'
  BY <1>1, <1>2, <1>4, <1>6, <1>7, CommitTyped
<1>9. RoomRemains' /\ NumbersNeverCollide' /\ ReadStands'
  BY <1>1, <1>2, <1>5, <1>6, OthersUndisturbed
<1>10. GradedFromItself'
  <2>1. r.score = Score(r) /\ r.passed = Passed(r)
    BY <1>5, <1>6, ScoreReadsRow
  <2>2. \A x \in Attempts : attempt'[x] = IF x = a THEN r ELSE attempt[x]
    BY <1>1 DEF IInv, TypeOK
  <2> QED
    BY <2>1, <2>2 DEF IInv, GradedFromItself
<1>11. \A e \in Enrollments :
         EarnedUnder(e)' = IF Qualifies(r) /\ e = seen[t].enrollment THEN EarnedUnder(e) \cup {a}
                                                                   ELSE EarnedUnder(e)
  <2>1. \A x \in Attempts : attempt'[x] = IF x = a THEN r ELSE attempt[x]
    BY <1>1 DEF IInv, TypeOK
  <2>2. ASSUME NEW e \in Enrollments
        PROVE  /\ a \notin EarnedUnder(e)
               /\ a \in EarnedUnder(e)' <=> Qualifies(r) /\ e = seen[t].enrollment
    BY <1>1, <1>5, <2>1 DEF EarnedUnder, Qualifies
  <2>3. ASSUME NEW e \in Enrollments, NEW x \in Attempts, x # a
        PROVE  x \in EarnedUnder(e)' <=> x \in EarnedUnder(e)
    BY <2>1, <2>3 DEF EarnedUnder
  <2>4. \A e \in Enrollments : EarnedUnder(e) \subseteq Attempts /\ EarnedUnder(e)' \subseteq Attempts
    BY DEF EarnedUnder
  <2> QED
    BY <2>2, <2>3, <2>4
<1>12. ProgressIsEarned'
  <2>1. \A e \in Enrollments :
          progress'[e] = IF Qualifies(r) /\ e = seen[t].enrollment /\ progress[e] = None
                         THEN a ELSE progress[e]
    BY <1>1, <1>3 DEF Credit, IInv, TypeOK
  <2>2. a # None
    BY NoneAssumption
  <2> QED
    BY <1>11, <2>1, <2>2 DEF IInv, ProgressIsEarned
<1> QED
  BY <1>2, <1>8, <1>9, <1>10, <1>12, EndKeepsOthers DEF IInv

\* Every step of the attempt service and of its environment preserves the invariant.
LEMMA StepIInv == IInv /\ [Next]_vars => IInv'
<1> SUFFICES ASSUME IInv, [Next]_vars PROVE IInv'
  OBVIOUS
<1>1. ASSUME NEW t \in Tx, ReturnResult(t) \/ Rollback(t) PROVE IInv'
  BY <1>1, EndIInv DEF ReturnResult, Rollback
<1>2. CASE UNCHANGED vars
  <2>1. UNCHANGED <<Rows, Locks, World, pc, op, seen>>
    BY <1>2 DEF vars, Rows, Locks, World
  <2>2. TypeOK'
    BY <2>1 DEF IInv, TypeOK, Rows, Locks, World, Started
  <2>3. BusyHasOp' /\ LockHeld' /\ ReadStands'
    BY <2>1 DEF IInv, BusyHasOp, LockHeld, ReadStands, Locks, Rows
  <2>4. RoomRemains' /\ NumbersNeverCollide'
    BY <2>1, RowsUnchanged DEF IInv, RoomRemains, NumbersNeverCollide, Rows
  <2> QED
    BY <2>1, <2>2, <2>3, <2>4, RowsUnchanged DEF IInv
<1> QED
  BY <1>1, <1>2, BeginIInv, AcquireLockIInv, StartReadsIInv, AttemptReadsIInv, PlatformIInv,
     CommitStartIInv, CommitAnswerIInv, CommitGradeIInv DEF Next

\* The inductive invariant holds in every reachable state.
THEOREM Invariance == Spec => []IInv
BY InitIInv, StepIInv, PTL DEF Spec

\* Every value stays in its type; attempt numbers are positive.
THEOREM TypeCorrect == Spec => []TypeOK
<1>1. IInv => TypeOK
  BY DEF IInv
<1> QED
  BY <1>1, Invariance, PTL

\* Concurrent starts never compute the same attempt number.
THEOREM AttemptNumbersNeverCollide == Spec => []NumbersNeverCollide
<1>1. IInv => NumbersNeverCollide
  BY DEF IInv
<1> QED
  BY <1>1, Invariance, PTL

\* A result is that of the attempt's own frozen paper and saved answers.
THEOREM ResultsFollowFromTheSnapshot == Spec => []GradedFromItself
<1>1. IInv => GradedFromItself
  BY DEF IInv
<1> QED
  BY <1>1, Invariance, PTL

\* Grading and the progress it earns are never apart.
THEOREM ProgressIsAlwaysEarned == Spec => []ProgressIsEarned
<1>1. IInv => ProgressIsEarned
  BY DEF IInv
<1> QED
  BY <1>1, Invariance, PTL

-----------------------------------------------------------------------------
(* Action properties *)

\* The steps that write no attempt.
LEMMA OtherStepsKeepRows ==
  ASSUME [Next]_vars, \A t \in Tx : ~ (CommitStart(t) \/ CommitAnswer(t) \/ CommitGrade(t))
  PROVE  UNCHANGED Rows
<1>1. CASE UNCHANGED vars
  BY <1>1 DEF vars, Rows
<1>2. CASE Author \/ Enroll \/ Unenroll
  BY <1>2 DEF Author, Enroll, Unenroll
<1>3. ASSUME NEW t \in Tx, Begin(t) \/ AcquireLock(t) \/ ReadQuiz(t) \/ ReadQuestions(t)
                \/ ReadOptions(t) \/ ReadForAnswer(t) \/ ReadForGrading(t) \/ ReturnResult(t)
                \/ Rollback(t)
      PROVE  UNCHANGED Rows
  BY <1>3 DEF Begin, AcquireLock, ReadQuiz, ReadQuestions, ReadOptions, ReadForAnswer,
     ReadForGrading, ReturnResult, Rollback
<1> QED
  BY <1>1, <1>2, <1>3 DEF Next

\* Every write of the rows rewrites one attempt, which was not graded.
LEMMA WritesOneUngraded ==
  ASSUME IInv, [Next]_vars
  PROVE  \/ UNCHANGED attempt
         \/ \E a \in Attempts, r \in Row :
              attempt' = [attempt EXCEPT ![a] = r] /\ attempt[a].status # "GRADED"
<1>1. ASSUME NEW t \in Tx, CommitStart(t)
      PROVE  \E a \in Attempts, r \in Row :
               attempt' = [attempt EXCEPT ![a] = r] /\ attempt[a].status # "GRADED"
  BY <1>1, StartWrites
<1>2. ASSUME NEW t \in Tx, CommitGrade(t)
      PROVE  \E a \in Attempts, r \in Row :
               attempt' = [attempt EXCEPT ![a] = r] /\ attempt[a].status # "GRADED"
  BY <1>2, GradeWrites
<1>3. ASSUME NEW t \in Tx, CommitAnswer(t)
      PROVE  \E a \in Attempts, r \in Row :
               attempt' = [attempt EXCEPT ![a] = r] /\ attempt[a].status # "GRADED"
  <2> DEFINE a == op[t].attempt
             r == [attempt[a] EXCEPT !.answer[op[t].question] = op[t].option]
  <2>1. pc[t] = "commit" /\ op[t].kind = "save"
    BY <1>3 DEF CommitAnswer
  <2>2. /\ a \in Attempts /\ attempt[a] \in Row /\ attempt[a].status = "IN_PROGRESS"
        /\ op[t].question \in Questions /\ op[t].option \in Options
    BY <2>1, HeldRow, OpFields
  <2>3. r \in Row
    BY <2>2 DEF Row
  <2>4. attempt' = [attempt EXCEPT ![a] = r]
    BY <1>3 DEF CommitAnswer
  <2> QED
    BY <2>2, <2>3, <2>4
<1> QED
  BY <1>1, <1>2, <1>3, OtherStepsKeepRows DEF Rows

\* A graded attempt is final: no rescoring, no late answer.
THEOREM GradedAttemptsAreFinal == Spec => GradedIsFinal
<1>1. IInv /\ [Next]_vars =>
        [\A a \in Attempts : attempt[a].status = "GRADED" => attempt'[a] = attempt[a]]_vars
  BY WritesOneUngraded DEF IInv, TypeOK
<1> QED
  BY <1>1, Invariance, PTL DEF Spec, GradedIsFinal

\* A lesson is completed once per enrollment and its stamp stays.
THEOREM LessonsAreCompletedOnce == Spec => CompletedOnce
<1>1. ASSUME IInv, [Next]_vars, NEW e \in Enrollments, progress[e] # None
      PROVE  progress'[e] = progress[e]
  <2>1. ASSUME NEW t \in Tx, CommitGrade(t) PROVE progress'[e] = progress[e]
    <3>1. PICK a \in Attempts, r \in Row :
            progress' = IF Qualifies(r) THEN Credit(a, seen[t].enrollment) ELSE progress
      BY <1>1, <2>1, GradeWrites
    <3>2. Credit(a, seen[t].enrollment)[e] = progress[e]
      BY <1>1 DEF Credit, IInv, TypeOK
    <3> QED
      BY <3>1, <3>2
  <2>2. ASSUME NEW t \in Tx, CommitStart(t) \/ CommitAnswer(t) PROVE progress'[e] = progress[e]
    BY <2>2 DEF CommitStart, CommitAnswer
  <2> QED
    BY <1>1, <2>1, <2>2, OtherStepsKeepRows DEF Rows
<1>2. IInv /\ [Next]_vars =>
        [\A e \in Enrollments : progress[e] # None => progress'[e] = progress[e]]_vars
  BY <1>1
<1> QED
  BY <1>2, Invariance, PTL DEF Spec, CompletedOnce

\* However many starts race, an enrollment never gets more attempts than the
\* limit its start has read.
THEOREM AttemptLimitsHold == Spec => AttemptLimitHolds
<1> DEFINE Within(e) ==
      Cardinality(StartedUnder(e))' > Cardinality(StartedUnder(e)) =>
        \E t \in Tx : /\ pc[t] = "commit" /\ seen[t].enrollment = e
                      /\ \/ seen[t].limit = None
                         \/ Cardinality(StartedUnder(e))' <= seen[t].limit
<1>1. ASSUME IInv, [Next]_vars, NEW e \in Enrollments PROVE Within(e)
  <2>1. IsFiniteSet(StartedUnder(e)) /\ Cardinality(StartedUnder(e)) \in Nat
    <3>1. StartedUnder(e) \subseteq Attempts
      BY DEF StartedUnder, Started
    <3> QED
      BY <3>1, AttemptsAssumption, FS_Subset, FS_CardinalityType
  <2>2. ASSUME StartedUnder(e)' = StartedUnder(e) PROVE Within(e)
    BY <2>1, <2>2
  <2>3. ASSUME NEW t \in Tx, CommitStart(t) PROVE Within(e)
    <3>1. PICK a \in Attempts, r \in Row :
           /\ attempt[a].status = "absent"
           /\ attempt' = [attempt EXCEPT ![a] = r]
           /\ r.status = "IN_PROGRESS" /\ r.enrollment = seen[t].enrollment
      BY <1>1, <2>3, StartWrites
    <3>2. \A x \in Attempts : attempt'[x] = IF x = a THEN r ELSE attempt[x]
      BY <1>1, <3>1 DEF IInv, TypeOK
    <3>3. CASE seen[t].enrollment # e
      <4>1. StartedUnder(e)' = StartedUnder(e)
        BY <3>1, <3>2, <3>3 DEF StartedUnder, Started
      <4> QED
        BY <2>2, <4>1
    <3>4. CASE seen[t].enrollment = e
      <4>1. StartedUnder(e)' = StartedUnder(e) \cup {a} /\ a \notin StartedUnder(e)
        BY <3>1, <3>2, <3>4 DEF StartedUnder, Started
      <4>2. Cardinality(StartedUnder(e) \cup {a}) = Cardinality(StartedUnder(e)) + 1
        BY <2>1, <4>1, FS_AddElement
      <4>3. pc[t] = "commit" /\ RoomFor(seen[t].limit, e) /\ seen[t].limit \in Nat \cup {None}
        BY <1>1, <2>3, <3>4 DEF CommitStart, IInv, RoomRemains, TypeOK, Seen
      <4>4. seen[t].limit # None => Cardinality(StartedUnder(e)) + 1 <= seen[t].limit
        BY <2>1, <4>3 DEF RoomFor
      <4> QED
        BY <3>4, <4>1, <4>2, <4>3, <4>4
    <3> QED
      BY <3>3, <3>4
  <2>4. ASSUME NEW t \in Tx, CommitAnswer(t) \/ CommitGrade(t) PROVE Within(e)
    <3>1. CASE CommitGrade(t)
      <4>1. PICK a \in Attempts : /\ attempt[a] \in Row /\ attempt[a].status = "IN_PROGRESS"
                                  /\ seen[t].enrollment \in Enrollments
                                  /\ attempt' = [attempt EXCEPT ![a] = GradedBy(attempt[a], seen[t].enrollment)]
        BY <1>1, <3>1, GradeWrites
      <4>2. /\ GradedBy(attempt[a], seen[t].enrollment).status = "GRADED"
            /\ GradedBy(attempt[a], seen[t].enrollment).enrollment = attempt[a].enrollment
        BY <4>1, GradedByTyped
      <4>3. \A x \in Attempts : /\ attempt'[x].enrollment = attempt[x].enrollment
                                /\ attempt'[x].status = "absent" <=> attempt[x].status = "absent"
        BY <1>1, <4>1, <4>2 DEF IInv, TypeOK
      <4>4. StartedUnder(e)' = StartedUnder(e)
        BY <4>3 DEF StartedUnder, Started
      <4> QED
        BY <2>2, <4>4
    <3>2. CASE CommitAnswer(t)
      <4>1. op[t].attempt \in Attempts /\ attempt[op[t].attempt] \in Row
        BY <1>1, <3>2, HeldRow DEF CommitAnswer
      <4>2. \A x \in Attempts : /\ attempt'[x].enrollment = attempt[x].enrollment
                                /\ attempt'[x].status = attempt[x].status
        BY <1>1, <3>2, <4>1 DEF CommitAnswer, IInv, TypeOK, Row
      <4>3. StartedUnder(e)' = StartedUnder(e)
        BY <4>2 DEF StartedUnder, Started
      <4> QED
        BY <2>2, <4>3
    <3> QED
      BY <2>4, <3>1, <3>2
  <2>5. CASE UNCHANGED Rows
    <3>1. StartedUnder(e)' = StartedUnder(e)
      BY <2>5 DEF Rows, StartedUnder, Started
    <3> QED
      BY <2>2, <3>1
  <2> QED
    BY <1>1, <2>3, <2>4, <2>5, OtherStepsKeepRows
<1>2. IInv /\ [Next]_vars => [\A e \in Enrollments : Within(e)]_vars
  BY <1>1
<1> QED
  BY <1>2, Invariance, PTL DEF Spec, AttemptLimitHolds

=============================================================================
