---------------------------- MODULE QuizAuthoring ----------------------------
(***************************************************************************)
(* Authoring and publication of quizzes by concurrent API requests         *)
(* (quiz.service.ts, question.service.ts, question-option.service.ts and   *)
(* quiz-publishability.util.ts).  Each request is one PostgreSQL READ      *)
(* COMMITTED transaction: it waits for its advisory locks, reads committed *)
(* rows and stages its writes (Execute), and makes them visible when it    *)
(* commits.  A transaction may be rolled back at any moment before that.   *)
(* Positions of questions and options, hence the two reorder operations,   *)
(* are left out: no rule about a quiz depends on them.                     *)
(***************************************************************************)

CONSTANTS
  Tx,          \* requests being served: one database transaction each
  Quizzes, Questions, Options,   \* identifiers; questions are per quiz, options per question
  NoTx,        \* a free lock
  None         \* a request field that the operation does not use

ASSUME TxAssumption == NoTx \notin Tx
ASSUME NoneAssumption == None \notin Quizzes \cup Questions \cup Options

VARIABLES
  quiz,          \* committed rows: one aggregate (quiz, questions, options) per quiz
  quizLock,      \* pg advisory lock of namespace 1, by quiz id
  questionLock,  \* pg advisory lock of namespace 0, by question id
  pc, op         \* the stage and the operation of each transaction

vars == <<quiz, quizLock, questionLock, pc, op>>

-----------------------------------------------------------------------------
(* Rows *)

QuizStatus == {"ABSENT", "DRAFT", "PUBLISHED", "ARCHIVED"}
QuestionType == {"TRUE_FALSE", "MULTIPLE_CHOICE"}
Correctness == {"right", "wrong"}
RangeCheck == {"inRange", "outOfRange"}

\* A question row with its options; type "absent" is an id not used yet.
\* points abstracts the number to whether it is positive.
Question == [type : QuestionType \cup {"absent"}, points : RangeCheck,
             option : [Options -> Correctness \cup {"absent"}]]

\* settings abstracts attemptLimit and passingScorePercent: both null, some
\* number within its range, or out of it.
Settings == {"unlimited", "limited", "outOfRange"}

Aggregate == [status : QuizStatus, settings : Settings,
              question : [Questions -> Question]]

NoQuestion == [type |-> "absent", points |-> "inRange",
               option |-> [o \in Options |-> "absent"]]

NoQuiz == [status |-> "ABSENT", settings |-> "unlimited",
           question |-> [n \in Questions |-> NoQuestion]]

AtMostOneRight(question) ==
  \A o1, o2 \in Options :
    question.option[o1] = "right" /\ question.option[o2] = "right" => o1 = o2

HasTwoOptions(question) ==
  \E o1, o2 \in Options :
    o1 # o2 /\ question.option[o1] # "absent" /\ question.option[o2] # "absent"

AtMostTwoOptions(question) ==
  \A o1, o2, o3 \in Options :
    /\ question.option[o1] # "absent"
    /\ question.option[o2] # "absent"
    /\ question.option[o3] # "absent"
    => o1 = o2 \/ o1 = o3 \/ o2 = o3

\* What assertValidOptionConfiguration keeps true of a question.
OptionRules(question) ==
  /\ AtMostOneRight(question)
  /\ question.type = "TRUE_FALSE" => AtMostTwoOptions(question)

\* The per-question part of the publishability rules.
QuestionPublishable(question) ==
  /\ question.points = "inRange"
  /\ \E o \in Options : question.option[o] = "right"
  /\ HasTwoOptions(question)
  /\ OptionRules(question)

\* evaluateQuizPublishability finds no reason against the aggregate.
Publishable(agg) ==
  /\ agg.settings # "outOfRange"
  /\ \E n \in Questions : agg.question[n].type # "absent"
  /\ \A n \in Questions :
       agg.question[n].type # "absent" => QuestionPublishable(agg.question[n])

-----------------------------------------------------------------------------
(* Operations *)

Lifecycle == {"publishQuiz", "archiveQuiz", "unpublishQuiz", "restoreQuiz"}
QuestionWrites == {"createQuestion", "updateQuestionMetadata"}
OptionWrites == {"createOption", "updateOption"}
ChildWrites == QuestionWrites \cup OptionWrites
Unlocked == {"createQuiz", "updateQuizMetadata"}

\* Every request a client can send; arg is the field that matters to it.
Request ==
  [kind : Lifecycle, quiz : Quizzes, question : {None}, option : {None}, arg : {None}]
  \cup [kind : Unlocked, quiz : Quizzes, question : {None}, option : {None}, arg : Settings]
  \cup [kind : {"createQuestion"}, quiz : Quizzes, question : Questions, option : {None},
        arg : QuestionType]
  \cup [kind : {"updateQuestionMetadata"}, quiz : Quizzes, question : Questions,
        option : {None}, arg : RangeCheck]
  \cup [kind : {"createOption"}, quiz : Quizzes, question : Questions, option : Options,
        arg : Correctness]
  \cup [kind : {"updateOption"}, quiz : Quizzes, question : Questions, option : Options,
        arg : Correctness \cup {"keep"}]

\* The operation of a transaction slot that serves no request.
NoOp == [kind |-> "none", quiz |-> None, question |-> None, option |-> None, arg |-> None]

\* The DTO validation: numbers out of range never reach the service.
Accepted(r) == r.arg # "outOfRange"

\* A created row gets a fresh UUID: no live row and no other transaction has it.
Fresh(t, r) ==
  LET taken == \E u \in Tx \ {t} : pc[u] # "idle" /\ op[u] = [r EXCEPT !.arg = op[u].arg]
      agg == quiz[r.quiz]
  IN CASE r.kind = "createQuiz" -> agg.status = "ABSENT" /\ ~taken
       [] r.kind = "createQuestion" -> agg.question[r.question].type = "absent" /\ ~taken
       [] r.kind = "createOption" ->
            agg.question[r.question].option[r.option] = "absent" /\ ~taken
       [] OTHER -> TRUE

\* lockAndAssertQuizAuthoringMutable, the lookup of the child row and
\* assertValidOptionConfiguration: what a child write requires of the rows it reads.
ChildWritePermitted(r, agg) ==
  LET question == agg.question[r.question]
  IN /\ agg.status \in {"DRAFT", "PUBLISHED"}
     /\ r.kind = "createQuestion" => agg.status # "PUBLISHED"
     /\ r.kind # "createQuestion" => question.type # "absent"
     /\ r.kind = "createOption" =>
          /\ question.type = "TRUE_FALSE" => ~HasTwoOptions(question)
          /\ r.arg = "right" => \A o \in Options : question.option[o] # "right"
     /\ r.kind = "updateOption" => question.option[r.option] # "absent"

\* The checks of an operation before it writes.
Permitted(r, agg) ==
  CASE r.kind = "createQuiz" -> agg.status = "ABSENT"
    [] r.kind = "updateQuizMetadata" -> agg.status \in {"DRAFT", "PUBLISHED"}
    [] r.kind = "publishQuiz" -> agg.status \in {"DRAFT", "PUBLISHED"} /\ Publishable(agg)
    [] r.kind = "archiveQuiz" -> agg.status # "ABSENT"
    [] r.kind = "unpublishQuiz" -> agg.status \in {"DRAFT", "PUBLISHED"}
    [] r.kind = "restoreQuiz" -> agg.status \in {"DRAFT", "ARCHIVED"}
    [] OTHER -> ChildWritePermitted(r, agg)

\* Mutant of OptionsAfter: an update that does not mention isCorrect writes it too.
OptionsAfterWritesOmittedField(r, option) ==
  CASE r.kind \in OptionWrites -> [option EXCEPT ![r.option] = r.arg]
    [] OTHER -> option

\* The option rows of a question after the option write r.
OptionsAfter(r, option) ==
  CASE r.kind = "createOption" -> [option EXCEPT ![r.option] = r.arg]
    [] r.kind = "updateOption" /\ r.arg = "wrong" -> [option EXCEPT ![r.option] = "wrong"]
    [] r.kind = "updateOption" /\ r.arg = "right" ->
         [o \in Options |-> CASE o = r.option -> "right"
                              [] o # r.option /\ option[o] = "right" -> "wrong"
                              [] OTHER -> option[o]]
    [] OTHER -> option

\* The question rows of a quiz after the child write r.
ChildrenAfter(r, question) ==
  CASE r.kind = "createQuestion" ->
         [question EXCEPT ![r.question] = [NoQuestion EXCEPT !.type = r.arg]]
    [] r.kind = "updateQuestionMetadata" -> [question EXCEPT ![r.question].points = r.arg]
    [] OTHER -> [question EXCEPT ![r.question].option = OptionsAfter(r, @)]

\* Mutant of After: updateQuizMetadata without the status in its WHERE clause.
AfterUnconditionalMetadata(r, agg) ==
  CASE r.kind = "updateQuizMetadata" -> [agg EXCEPT !.settings = r.arg]
    [] r.kind = "createQuiz" /\ agg.status = "ABSENT" -> [NoQuiz EXCEPT !.status = "DRAFT"]
    [] r.kind = "archiveQuiz" -> [agg EXCEPT !.status = "ARCHIVED"]
    [] OTHER -> agg

\* The writes of r applied to the rows they meet at the end of the
\* transaction: each status write is an updateMany with the old status in its
\* WHERE clause, so a row that has moved on is left alone.
After(r, agg) ==
  CASE r.kind = "createQuiz" ->
         IF agg.status = "ABSENT" THEN [NoQuiz EXCEPT !.status = "DRAFT", !.settings = r.arg]
                                  ELSE agg
    [] r.kind = "updateQuizMetadata" ->
         IF agg.status # "ARCHIVED" THEN [agg EXCEPT !.settings = r.arg] ELSE agg
    [] r.kind = "publishQuiz" ->
         IF agg.status = "DRAFT" THEN [agg EXCEPT !.status = "PUBLISHED"] ELSE agg
    [] r.kind = "archiveQuiz" ->
         IF agg.status \in {"DRAFT", "PUBLISHED"} THEN [agg EXCEPT !.status = "ARCHIVED"] ELSE agg
    [] r.kind = "unpublishQuiz" ->
         IF agg.status = "PUBLISHED" THEN [agg EXCEPT !.status = "DRAFT"] ELSE agg
    [] r.kind = "restoreQuiz" ->
         IF agg.status = "ARCHIVED" THEN [agg EXCEPT !.status = "DRAFT"] ELSE agg
    [] OTHER -> [agg EXCEPT !.question = ChildrenAfter(r, @)]

\* assertPublishedQuizRemainsPublishable, run by every child write after its
\* own writes and before the commit.
RemainsPublishable(r, agg) ==
  r.kind \in ChildWrites /\ agg.status = "PUBLISHED" => Publishable(After(r, agg))

-----------------------------------------------------------------------------
(* Transactions *)

Stage == {"idle", "lockQuiz", "lockQuestion", "execute", "commit"}

\* Mutant of NextStage: publishQuiz forgets the publication lock.
NextStageUnlockedPublish(kind, stage) ==
  CASE stage = "idle" ->
         IF kind \in Unlocked \cup {"publishQuiz"} THEN "execute" ELSE "lockQuiz"
    [] stage = "lockQuiz" -> IF kind \in OptionWrites THEN "lockQuestion" ELSE "execute"
    [] OTHER -> "execute"

\* Mutant of NextStage: createOption takes no lock.
NextStageUnlockedOption(kind, stage) ==
  CASE stage = "idle" ->
         IF kind \in Unlocked \cup {"createOption"} THEN "execute" ELSE "lockQuiz"
    [] stage = "lockQuiz" -> IF kind \in OptionWrites THEN "lockQuestion" ELSE "execute"
    [] OTHER -> "execute"

\* Mutant of NextStage: updateOption takes the question lock before the quiz lock.
NextStageReversedLocks(kind, stage) ==
  CASE stage = "idle" ->
         CASE kind \in Unlocked -> "execute"
           [] kind = "updateOption" -> "lockQuestion"
           [] OTHER -> "lockQuiz"
    [] stage = "lockQuiz" -> IF kind = "createOption" THEN "lockQuestion" ELSE "execute"
    [] OTHER -> IF kind = "updateOption" THEN "lockQuiz" ELSE "execute"

\* The order in which an operation takes its locks: the quiz lock first, the
\* question lock second, and neither for quiz creation and metadata.
NextStage(kind, stage) ==
  CASE stage = "idle" -> IF kind \in Unlocked THEN "execute" ELSE "lockQuiz"
    [] stage = "lockQuiz" -> IF kind \in OptionWrites THEN "lockQuestion" ELSE "execute"
    [] OTHER -> "execute"

TypeOK ==
  /\ quiz \in [Quizzes -> Aggregate]
  /\ quizLock \in [Quizzes -> Tx \cup {NoTx}]
  /\ questionLock \in [Quizzes \X Questions -> Tx \cup {NoTx}]
  /\ pc \in [Tx -> Stage]
  /\ op \in [Tx -> Request \cup {NoOp}]

Init ==
  /\ quiz = [q \in Quizzes |-> NoQuiz]
  /\ quizLock = [q \in Quizzes |-> NoTx]
  /\ questionLock = [k \in Quizzes \X Questions |-> NoTx]
  /\ pc = [t \in Tx |-> "idle"]
  /\ op = [t \in Tx |-> NoOp]

\* A request arrives and opens its transaction.
Begin(t) ==
  /\ pc[t] = "idle"
  /\ \E r \in Request :
       /\ Accepted(r)
       /\ Fresh(t, r)
       /\ op' = [op EXCEPT ![t] = r]
       /\ pc' = [pc EXCEPT ![t] = NextStage(r.kind, "idle")]
  /\ UNCHANGED <<quiz, quizLock, questionLock>>

\* lockQuizPublicationBoundary: pg_advisory_xact_lock on the quiz id.
AcquireQuizLock(t) ==
  /\ pc[t] = "lockQuiz"
  /\ quizLock[op[t].quiz] = NoTx
  /\ quizLock' = [quizLock EXCEPT ![op[t].quiz] = t]
  /\ pc' = [pc EXCEPT ![t] = NextStage(op[t].kind, "lockQuiz")]
  /\ UNCHANGED <<quiz, questionLock, op>>

\* lockQuestionOptionMutations: pg_advisory_xact_lock on the question id.
AcquireQuestionLock(t) ==
  /\ pc[t] = "lockQuestion"
  /\ questionLock[<<op[t].quiz, op[t].question>>] = NoTx
  /\ questionLock' = [questionLock EXCEPT ![<<op[t].quiz, op[t].question>>] = t]
  /\ pc' = [pc EXCEPT ![t] = NextStage(op[t].kind, "lockQuestion")]
  /\ UNCHANGED <<quiz, quizLock, op>>

\* The end of a transaction releases its advisory locks.
End(t) ==
  /\ pc' = [pc EXCEPT ![t] = "idle"]
  /\ op' = [op EXCEPT ![t] = NoOp]
  /\ quizLock' = [q \in Quizzes |-> IF quizLock[q] = t THEN NoTx ELSE quizLock[q]]
  /\ questionLock' = [k \in Quizzes \X Questions |->
                        IF questionLock[k] = t THEN NoTx ELSE questionLock[k]]

\* The reads, the checks and the staged writes; a failed check rolls back.
Execute(t) ==
  /\ pc[t] = "execute"
  /\ \/ /\ Permitted(op[t], quiz[op[t].quiz])
        /\ RemainsPublishable(op[t], quiz[op[t].quiz])
        /\ pc' = [pc EXCEPT ![t] = "commit"]
        /\ UNCHANGED <<quizLock, questionLock, op>>
     \/ /\ ~ (/\ Permitted(op[t], quiz[op[t].quiz])
              /\ RemainsPublishable(op[t], quiz[op[t].quiz]))
        /\ End(t)
  /\ UNCHANGED quiz

Commit(t) ==
  /\ pc[t] = "commit"
  /\ quiz' = [quiz EXCEPT ![op[t].quiz] = After(op[t], @)]
  /\ End(t)

\* A transaction timeout, a lost connection or a crash of the API process:
\* PostgreSQL rolls back and frees the locks.
Rollback(t) ==
  /\ pc[t] # "idle"
  /\ End(t)
  /\ UNCHANGED quiz

Next ==
  \E t \in Tx :
    \/ Begin(t) \/ AcquireQuizLock(t) \/ AcquireQuestionLock(t)
    \/ Execute(t) \/ Commit(t) \/ Rollback(t)

Spec == Init /\ [][Next]_vars

\* A transaction that can run does run, and PostgreSQL hands a lock to its
\* waiters in turn, so a waiter is not passed over for ever.
Fairness ==
  \A t \in Tx :
    /\ WF_vars(Execute(t)) /\ WF_vars(Commit(t))
    /\ SF_vars(AcquireQuizLock(t)) /\ SF_vars(AcquireQuestionLock(t))

FairSpec == Spec /\ Fairness

-----------------------------------------------------------------------------
(* Properties *)

\* A quiz that students can see always satisfies every publishability rule,
\* whatever edits race with its publication: the state the docstring of
\* lockQuizPublicationBoundary calls PUBLISHED and aggregate-invalid is
\* never committed.
PublishedIsPublishable ==
  \A q \in Quizzes : quiz[q].status = "PUBLISHED" => Publishable(quiz[q])

\* Whatever the status of the quiz, concurrent createOption and updateOption
\* requests never leave two right options on a question, nor three options on
\* a true/false question: the rules assertValidOptionConfiguration checks by
\* reading first and writing later, with no database constraint behind it.
OptionRulesHold ==
  \A q \in Quizzes, n \in Questions : OptionRules(quiz[q].question[n])

\* No request that read the quiz before it was archived changes it
\* afterwards: the only step out of an archived aggregate is its restoration
\* to DRAFT with the same content.
ArchivedIsFrozen ==
  [][\A q \in Quizzes :
       quiz[q].status = "ARCHIVED" =>
         quiz'[q] \in {quiz[q], [quiz[q] EXCEPT !.status = "DRAFT"]}]_vars

\* Taking the quiz lock before the question lock everywhere rules out that
\* two requests wait for each other: every transaction ends.
EveryTransactionEnds ==
  \A t \in Tx : pc[t] # "idle" ~> pc[t] = "idle"

=============================================================================
