---------------------------- MODULE QuizAttempts ----------------------------
(***************************************************************************)
(* The attempts of one student at one quiz (student-quiz-attempt.service): *)
(* starting one under an attempt limit, answering, submitting, grading and *)
(* the progress a qualifying attempt earns, while instructors edit the     *)
(* quiz and the student's enrollment is revoked and renewed.  Locks,       *)
(* numbers and limits are all per student and quiz, so one of each is the  *)
(* whole system.  A request checks access before its transaction, on reads *)
(* nobody locks; the transaction runs READ COMMITTED, so each of its reads *)
(* sees what is committed at that moment.  A question is worth one point.  *)
(***************************************************************************)
EXTENDS Naturals, FiniteSets

CONSTANTS
  Tx,                  \* API requests of the student
  Attempts,            \* identifiers of attempts
  Enrollments,         \* the student's enrollments in the course, one after another
  Questions, Options,
  Versions,            \* the states of the quiz that authoring can commit
  NoTx, None           \* a free lock; an unset field

Sheet == [active : BOOLEAN, offered : SUBSET Options, right : SUBSET Options]

Quiz == [open : BOOLEAN,                  \* the quiz and its lesson, section and course are published
         limit : Nat \cup {None},
         threshold : (0..100) \cup {None},
         paper : [Questions -> Sheet]]

ASSUME VersionsAssumption == Versions \subseteq Quiz
ASSUME AttemptsAssumption == IsFiniteSet(Attempts) /\ IsFiniteSet(Questions)
ASSUME NoTxAssumption == NoTx \notin Tx
ASSUME NoneAssumption ==
  /\ None \notin Attempts \cup Enrollments \cup Questions \cup Options
  /\ None \notin Nat

VARIABLES
  quiz,         \* the committed quiz, its questions and their options
  enrolled,     \* the ACTIVE enrollment, and the ones that were
  attempt,      \* rows of quiz_attempts and their quiz_attempt_answers
  progress,     \* per enrollment, the attempt whose grading stamped lesson_progress COMPLETED
  startLock,    \* advisory lock quiz-attempt-start:{student}:{quiz}
  attemptLock,  \* advisory locks quiz-attempt:{attempt}
  pc, op,       \* stage and operation of each request
  seen          \* what the request has read and computed

vars == <<quiz, enrolled, attempt, progress, startLock, attemptLock, pc, op, seen>>

-----------------------------------------------------------------------------
(* Rows *)

\* The frozen question of an answer row, and the option selected last.
\* gradedUnder is a history variable: the enrollment that entitled the request
\* which graded the attempt; it may be a later one than the attempt's own.
Row == [status : {"absent", "IN_PROGRESS", "GRADED"},
        number : Nat,
        enrollment : Enrollments \cup {None},
        threshold : (0..100) \cup {None},
        paper : [Questions -> Sheet],
        answer : [Questions -> Options \cup {None}],
        score : Nat,
        passed : BOOLEAN \cup {None},
        gradedUnder : Enrollments \cup {None}]

BlankSheet == [active |-> FALSE, offered |-> {}, right |-> {}]

NoRow == [status |-> "absent", number |-> 0, enrollment |-> None, threshold |-> None,
          paper |-> [q \in Questions |-> BlankSheet], answer |-> [q \in Questions |-> None],
          score |-> 0, passed |-> None, gradedUnder |-> None]

Started == {a \in Attempts : attempt[a].status # "absent"}

StartedUnder(e) == {a \in Started : attempt[a].enrollment = e}

\* The questions of an attempt: one answer row for each.
Asked(paper) == {q \in Questions : paper[q].active}

-----------------------------------------------------------------------------
(* Grading *)

\* isExactSelectionMatch: an unanswered question is never right.
Score(row) ==
  Cardinality({q \in Asked(row.paper) :
                 row.answer[q] # None /\ row.paper[q].right = {row.answer[q]}})

\* A percentage of the points, compared with the threshold frozen at start.
Passed(row) ==
  IF row.threshold = None \/ Asked(row.paper) = {} THEN None
  ELSE 100 * Score(row) >= row.threshold * Cardinality(Asked(row.paper))

\* Mutant of Graded: grading consults the live threshold.
GradedByLiveThreshold(row) ==
  [row EXCEPT !.status = "GRADED", !.score = Score(row),
              !.passed = Passed([row EXCEPT !.threshold = quiz.threshold])]

\* The row after grading, from its own frozen questions and threshold.
Graded(row) ==
  [row EXCEPT !.status = "GRADED", !.score = Score(row), !.passed = Passed(row)]

\* A graded attempt completes the lesson when there was no threshold or it passed.
Qualifies(row) == row.status = "GRADED" /\ (row.threshold = None \/ row.passed = TRUE)

-----------------------------------------------------------------------------
(* Requests *)

Op == [kind : {"start"}, attempt : {None}, question : {None}, option : {None}]
      \cup [kind : {"save"}, attempt : Attempts, question : Questions, option : Options]
      \cup [kind : {"submit"}, attempt : Attempts, question : {None}, option : {None}]

NoOp == [kind |-> "none", attempt |-> None, question |-> None, option |-> None]

Stage == {"idle", "lock", "read", "questions", "options", "commit"}

Seen == [enrollment : Enrollments \cup {None},
         limit : Nat \cup {None},
         threshold : (0..100) \cup {None},
         paper : [Questions -> Sheet],
         number : Nat,
         row : Row]

NothingSeen == [enrollment |-> None, limit |-> None, threshold |-> None,
                paper |-> NoRow.paper, number |-> 0, row |-> NoRow]

TypeOK ==
  /\ quiz \in Quiz
  /\ enrolled \in [now : Enrollments \cup {None}, before : SUBSET Enrollments]
  /\ attempt \in [Attempts -> Row]
  /\ \A a \in Started : attempt[a].number > 0 /\ attempt[a].enrollment # None
  /\ progress \in [Enrollments -> Attempts \cup {None}]
  /\ startLock \in Tx \cup {NoTx}
  /\ attemptLock \in [Attempts -> Tx \cup {NoTx}]
  /\ pc \in [Tx -> Stage]
  /\ op \in [Tx -> Op \cup {NoOp}]
  /\ seen \in [Tx -> Seen]

Init ==
  /\ quiz \in Versions
  /\ enrolled = [now |-> None, before |-> {}]
  /\ attempt = [a \in Attempts |-> NoRow]
  /\ progress = [e \in Enrollments |-> None]
  /\ startLock = NoTx
  /\ attemptLock = [a \in Attempts |-> NoTx]
  /\ pc = [t \in Tx |-> "idle"]
  /\ op = [t \in Tx |-> NoOp]
  /\ seen = [t \in Tx |-> NothingSeen]

Rows == <<attempt, progress>>
Locks == <<startLock, attemptLock>>
World == <<quiz, enrolled>>

\* A request arrives and assertAccessibleQuizLesson finds the entitled
\* enrollment, and lesson and quiz PUBLISHED.  Its reads are outside the
\* transaction and hold nothing: the proof may be out of date by the time the
\* request gets its lock.  saveAnswer does not keep the enrollment.
Begin(t) ==
  /\ pc[t] = "idle"
  /\ enrolled.now # None
  /\ quiz.open
  /\ \E o \in Op :
       /\ op' = [op EXCEPT ![t] = o]
       /\ seen' = [seen EXCEPT ![t].enrollment = IF o.kind = "save" THEN None ELSE enrolled.now]
  /\ pc' = [pc EXCEPT ![t] = "lock"]
  /\ UNCHANGED <<World, Rows, Locks>>

End(t) ==
  /\ pc' = [pc EXCEPT ![t] = "idle"]
  /\ op' = [op EXCEPT ![t] = NoOp]
  /\ seen' = [seen EXCEPT ![t] = NothingSeen]
  /\ startLock' = IF startLock = t THEN NoTx ELSE startLock
  /\ attemptLock' = [a \in Attempts |-> IF attemptLock[a] = t THEN NoTx ELSE attemptLock[a]]

\* Mutant of LockStart: the lock is per enrollment, and a renewed one does not wait.
LockStartPerEnrollment(t) ==
  /\ startLock # NoTx => seen[startLock].enrollment # seen[t].enrollment
  /\ startLock' = t
  /\ UNCHANGED attemptLock

\* lockAttemptStart
LockStart(t) ==
  /\ startLock = NoTx
  /\ startLock' = t
  /\ UNCHANGED attemptLock

\* Mutant of LockAttempt: submitting does not take the lock of the attempt.
LockAttemptUnlessSubmitting(t) ==
  IF op[t].kind = "submit" THEN UNCHANGED Locks
  ELSE /\ attemptLock[op[t].attempt] = NoTx
       /\ attemptLock' = [attemptLock EXCEPT ![op[t].attempt] = t]
       /\ UNCHANGED startLock

\* lockAttempt
LockAttempt(t) ==
  /\ attemptLock[op[t].attempt] = NoTx
  /\ attemptLock' = [attemptLock EXCEPT ![op[t].attempt] = t]
  /\ UNCHANGED startLock

AcquireLock(t) ==
  /\ pc[t] = "lock"
  /\ IF op[t].kind = "start" THEN LockStart(t) ELSE LockAttempt(t)
  /\ pc' = [pc EXCEPT ![t] = "read"]
  /\ UNCHANGED <<World, Rows, op, seen>>

\* Mutant of RoomFor: the count is compared as if the new attempt were already in it.
RoomForOneMore(limit, e) == limit # None => Cardinality(StartedUnder(e)) <= limit

\* The attempt limit, over the attempts of this enrollment whatever their status.
RoomFor(limit, e) == limit # None => Cardinality(StartedUnder(e)) < limit

\* startAttempt reads the live limit and threshold and counts the attempts.
ReadQuiz(t) ==
  /\ pc[t] = "read" /\ op[t].kind = "start"
  /\ RoomFor(quiz.limit, seen[t].enrollment)
  /\ seen' = [seen EXCEPT ![t].limit = quiz.limit, ![t].threshold = quiz.threshold]
  /\ pc' = [pc EXCEPT ![t] = "questions"]
  /\ UNCHANGED <<World, Rows, Locks, op>>

\* ... then the ACTIVE questions, of which there must be one ...
ReadQuestions(t) ==
  /\ pc[t] = "questions"
  /\ Asked(quiz.paper) # {}
  /\ seen' = [seen EXCEPT ![t].paper =
                [q \in Questions |-> [BlankSheet EXCEPT !.active = quiz.paper[q].active]]]
  /\ pc' = [pc EXCEPT ![t] = "options"]
  /\ UNCHANGED <<World, Rows, Locks, op>>

\* One more than the highest attempt number so far, under any enrollment.
IsNextNumber(n) ==
  /\ n > 0
  /\ \A a \in Started : attempt[a].number < n
  /\ n > 1 => \E a \in Started : attempt[a].number = n - 1

\* ... then their options, a query of its own, and the next attempt number.
ReadOptions(t) ==
  /\ pc[t] = "options"
  /\ \E n \in 0..(Cardinality(Attempts) + 1) :
       /\ IsNextNumber(n)
       /\ seen' = [seen EXCEPT
            ![t].paper = [q \in Questions |->
                            IF seen[t].paper[q].active
                            THEN [quiz.paper[q] EXCEPT !.active = TRUE] ELSE BlankSheet],
            ![t].number = n]
  /\ pc' = [pc EXCEPT ![t] = "commit"]
  /\ UNCHANGED <<World, Rows, Locks, op>>

\* Mutant of Writable: an answer may still be changed after the submission.
WritableIfStarted(row) == row.status # "absent"

\* Answers and submissions need an attempt that is still IN_PROGRESS; the
\* repeated submission of a graded one writes nothing.
Writable(row) == row.status = "IN_PROGRESS"

\* saveAnswer reads the attempt: the option must be one the frozen question offers.
ReadForAnswer(t) ==
  LET o == op[t]
      row == attempt[o.attempt]
  IN /\ pc[t] = "read" /\ o.kind = "save"
     /\ Writable(row)
     /\ o.question \in Asked(row.paper)
     /\ o.option \in row.paper[o.question].offered
     /\ pc' = [pc EXCEPT ![t] = "commit"]
     /\ UNCHANGED <<World, Rows, Locks, op, seen>>

\* submitAttempt reads the attempt and its answers, and grades them ...
ReadForGrading(t) ==
  LET row == attempt[op[t].attempt]
  IN /\ pc[t] = "read" /\ op[t].kind = "submit"
     /\ Writable(row)
     /\ seen' = [seen EXCEPT ![t].row = Graded(row)]
     /\ pc' = [pc EXCEPT ![t] = "commit"]
     /\ UNCHANGED <<World, Rows, Locks, op>>

\* ... or returns the result of an attempt that is graded already.
ReturnResult(t) ==
  /\ pc[t] = "read" /\ op[t].kind = "submit"
  /\ attempt[op[t].attempt].status = "GRADED"
  /\ End(t)
  /\ UNCHANGED <<World, Rows>>

\* The attempt and its snapshot are inserted; the unique index on the
\* attempt number has the last word.
CommitStart(t) ==
  /\ pc[t] = "commit" /\ op[t].kind = "start"
  /\ \A a \in Started : attempt[a].number # seen[t].number
  /\ \E a \in Attempts \ Started :
       attempt' = [attempt EXCEPT ![a] =
                     [NoRow EXCEPT !.status = "IN_PROGRESS",
                                   !.number = seen[t].number,
                                   !.enrollment = seen[t].enrollment,
                                   !.threshold = seen[t].threshold,
                                   !.paper = seen[t].paper]]
  /\ End(t)
  /\ UNCHANGED <<World, progress>>

\* Only the answer column of one row is written.
CommitAnswer(t) ==
  LET o == op[t]
  IN /\ pc[t] = "commit" /\ o.kind = "save"
     /\ attempt' = [attempt EXCEPT ![o.attempt].answer[o.question] = o.option]
     /\ End(t)
     /\ UNCHANGED <<World, progress>>

\* Mutant of Credit: it goes to the enrollment the attempt was started under.
CreditToStarter(a, e) ==
  LET f == attempt[a].enrollment
  IN IF progress[f] = None THEN [progress EXCEPT ![f] = a] ELSE progress

\* upsertCompletedProgress: a row that is COMPLETED keeps its stamp.
Credit(a, e) == IF progress[e] = None THEN [progress EXCEPT ![e] = a] ELSE progress

\* Grading and the progress it earns, in one transaction.
CommitGrade(t) ==
  LET a == op[t].attempt
      row == seen[t].row
  IN /\ pc[t] = "commit" /\ op[t].kind = "submit"
     /\ attempt' = [attempt EXCEPT ![a].status = row.status, ![a].score = row.score,
                                   ![a].passed = row.passed,
                                   ![a].gradedUnder = seen[t].enrollment]
     /\ progress' = IF Qualifies(row) THEN Credit(a, seen[t].enrollment) ELSE progress
     /\ End(t)
     /\ UNCHANGED World

\* An error, a refusal, a timeout or a crash: nothing is written.
Rollback(t) ==
  /\ pc[t] # "idle"
  /\ End(t)
  /\ UNCHANGED <<World, Rows>>

-----------------------------------------------------------------------------
(* The rest of the platform *)

\* An authoring transaction commits (the states it can reach are QuizAuthoring's).
Author ==
  /\ \E v \in Versions : quiz' = v
  /\ UNCHANGED <<enrolled, Rows, Locks, pc, op, seen>>

\* createEnrollment: at most one ACTIVE enrollment, always a new row.
Enroll ==
  /\ enrolled.now = None
  /\ \E e \in Enrollments \ enrolled.before : enrolled' = [enrolled EXCEPT !.now = e]
  /\ UNCHANGED <<quiz, Rows, Locks, pc, op, seen>>

\* revokeEnrollment, or the end of its time window.
Unenroll ==
  /\ enrolled.now # None
  /\ enrolled' = [now |-> None, before |-> enrolled.before \cup {enrolled.now}]
  /\ UNCHANGED <<quiz, Rows, Locks, pc, op, seen>>

Next ==
  \/ Author \/ Enroll \/ Unenroll
  \/ \E t \in Tx :
       \/ Begin(t) \/ AcquireLock(t)
       \/ ReadQuiz(t) \/ ReadQuestions(t) \/ ReadOptions(t)
       \/ ReadForAnswer(t) \/ ReadForGrading(t) \/ ReturnResult(t)
       \/ CommitStart(t) \/ CommitAnswer(t) \/ CommitGrade(t) \/ Rollback(t)

Spec == Init /\ [][Next]_vars

-----------------------------------------------------------------------------
(* Properties *)

\* The attempts started under an enrollment never exceed the limit that the
\* start read, however many requests race for the last slot.
AttemptLimitHolds ==
  [][\A e \in Enrollments :
       Cardinality(StartedUnder(e))' > Cardinality(StartedUnder(e)) =>
         \E t \in Tx : /\ pc[t] = "commit" /\ seen[t].enrollment = e
                       /\ \/ seen[t].limit = None
                          \/ Cardinality(StartedUnder(e))' <= seen[t].limit]_vars

\* Two starts never compute the same attempt number: the number a start is
\* about to insert is free, so the unique index is never what refuses it.
NumbersNeverCollide ==
  \A t \in Tx : pc[t] = "commit" /\ op[t].kind = "start" =>
    \A a \in Started : attempt[a].number # seen[t].number

\* A result follows from the attempt's own frozen questions and threshold and
\* from every answer that was saved before it was graded.
GradedFromItself ==
  \A a \in Attempts : attempt[a].status = "GRADED" =>
    /\ attempt[a].score = Score(attempt[a])
    /\ attempt[a].passed = Passed(attempt[a])

\* A graded attempt is never rescored and its answers never change.
GradedIsFinal ==
  [][\A a \in Attempts : attempt[a].status = "GRADED" => attempt'[a] = attempt[a]]_vars

\* Attempts that a request entitled by enrollment e has graded, and that passed
\* or had no threshold to pass.
EarnedUnder(e) ==
  {a \in Attempts : /\ attempt[a].status = "GRADED"
                    /\ attempt[a].threshold = None \/ attempt[a].passed = TRUE
                    /\ attempt[a].gradedUnder = e}

\* The lesson is completed under an enrollment by an attempt that was graded
\* under that very enrollment, whichever it was started under, and as soon as
\* there is one: grading and progress are one step, and of two overlapping
\* submissions of one attempt, under an old enrollment and a renewed one, a
\* single one is credited.
ProgressIsEarned ==
  \A e \in Enrollments :
    IF EarnedUnder(e) = {} THEN progress[e] = None ELSE progress[e] \in EarnedUnder(e)

\* A completed lesson is not completed again by a later attempt.
CompletedOnce ==
  [][\A e \in Enrollments : progress[e] # None => progress'[e] = progress[e]]_vars

\* What an attempt freezes is one state of the quiz ("from live authoring
\* state read at that exact instant only"), not parts of two.
FrozenAtOneInstant ==
  \A a \in Started : \E v \in Versions :
    /\ attempt[a].threshold = v.threshold
    /\ \A q \in Questions :
         attempt[a].paper[q] = IF v.paper[q].active THEN v.paper[q] ELSE BlankSheet

=============================================================================
