------------------------- MODULE QuizAuthoringProofs -------------------------
(***************************************************************************)
(* TLAPS proofs about QuizAuthoring, for any set of requests, quizzes,     *)
(* questions and options.                                                  *)
(***************************************************************************)
EXTENDS QuizAuthoring, TLAPS

-----------------------------------------------------------------------------
(* The inductive invariant *)

\* A transaction that works holds a request the DTOs let through.
BusyHasRequest ==
  \A t \in Tx : pc[t] # "idle" => op[t] \in Request /\ Accepted(op[t])

\* From the moment it has the quiz lock, a locking transaction keeps it.
QuizLockHeld ==
  \A t \in Tx :
    pc[t] \in {"lockQuestion", "execute", "commit"} /\ op[t].kind \notin Unlocked
      => quizLock[op[t].quiz] = t

\* What a transaction read and checked is still true when it commits.
Ready(r, agg) ==
  r.kind \notin Unlocked => Permitted(r, agg) /\ RemainsPublishable(r, agg)

ChecksStillHold ==
  \A t \in Tx : pc[t] = "commit" => Ready(op[t], quiz[op[t].quiz])

IInv ==
  /\ TypeOK
  /\ BusyHasRequest
  /\ QuizLockHeld
  /\ ChecksStillHold
  /\ PublishedIsPublishable
  /\ OptionRulesHold

-----------------------------------------------------------------------------
(* Lemmas about one write on one aggregate *)

\* The fields a request carries, by kind of operation.
LEMMA RequestFields ==
  ASSUME NEW r \in Request, Accepted(r)
  PROVE  /\ r.quiz \in Quizzes
         /\ r.kind \in Lifecycle \cup Unlocked \cup ChildWrites
         /\ r.kind \in Unlocked => r.arg \in {"unlimited", "limited"}
         /\ r.kind \in ChildWrites => r.question \in Questions
         /\ r.kind = "createQuestion" => r.arg \in QuestionType
         /\ r.kind = "updateQuestionMetadata" => r.arg = "inRange"
         /\ r.kind \in OptionWrites => r.option \in Options
         /\ r.kind = "createOption" => r.arg \in Correctness
         /\ r.kind = "updateOption" => r.arg \in Correctness \cup {"keep"}
BY DEF Request, Accepted, Lifecycle, Unlocked, ChildWrites, QuestionWrites, OptionWrites,
       RangeCheck, Settings

\* A child write touches nothing but the questions of the aggregate.
LEMMA AfterChildWrite ==
  ASSUME NEW r \in Request, r.kind \in ChildWrites, NEW agg \in Aggregate
  PROVE  /\ After(r, agg).status = agg.status
         /\ After(r, agg).settings = agg.settings
         /\ After(r, agg).question = ChildrenAfter(r, agg.question)
         /\ After(r, agg) = [agg EXCEPT !.question = ChildrenAfter(r, agg.question)]
BY DEF After, ChildWrites, QuestionWrites, OptionWrites, Aggregate

\* Every write leaves a well-formed aggregate.
LEMMA AfterType ==
  ASSUME NEW r \in Request, Accepted(r), NEW agg \in Aggregate
  PROVE  After(r, agg) \in Aggregate
<1>1. CASE r.kind \in Lifecycle
  BY <1>1 DEF Lifecycle, After, Aggregate, QuizStatus
<1>2. CASE r.kind \in Unlocked
  BY <1>2, RequestFields DEF Unlocked, After, Aggregate, QuizStatus, Settings, NoQuiz,
     NoQuestion, Question, RangeCheck
<1>3. CASE r.kind = "createQuestion"
  BY <1>3, RequestFields DEF ChildWrites, QuestionWrites, After, ChildrenAfter, Aggregate,
     NoQuestion, Question, RangeCheck
<1>4. CASE r.kind = "updateQuestionMetadata"
  <2>1. r.question \in Questions /\ r.arg \in RangeCheck /\ r.kind \in ChildWrites
    BY <1>4, RequestFields DEF ChildWrites, QuestionWrites, RangeCheck
  <2>2. ChildrenAfter(r, agg.question) = [agg.question EXCEPT ![r.question].points = r.arg]
    BY <1>4 DEF ChildrenAfter
  <2>3. ChildrenAfter(r, agg.question) \in [Questions -> Question]
    BY <2>1, <2>2, SMTT(30) DEF Aggregate, Question
  <2> QED
    BY <2>1, <2>3, AfterChildWrite DEF Aggregate
<1>5. CASE r.kind \in OptionWrites
  <2> DEFINE options == agg.question[r.question].option
  <2>1. r.question \in Questions /\ r.option \in Options
    BY <1>5, RequestFields DEF ChildWrites
  <2>2. options \in [Options -> Correctness \cup {"absent"}]
    BY <2>1 DEF Aggregate, Question
  <2>3. OptionsAfter(r, options) \in [Options -> Correctness \cup {"absent"}]
    BY <1>5, <2>1, <2>2, RequestFields DEF OptionWrites, OptionsAfter, Correctness
  <2>4. ChildrenAfter(r, agg.question) \in [Questions -> Question]
    BY <1>5, <2>1, <2>3, ZenonT(60) DEF OptionWrites, ChildrenAfter, Aggregate, Question
  <2>5. After(r, agg) = [agg EXCEPT !.question = ChildrenAfter(r, agg.question)]
    BY <1>5 DEF OptionWrites, After, Aggregate
  <2> QED
    BY <2>4, <2>5 DEF Aggregate
<1> QED
  BY <1>1, <1>2, <1>3, <1>4, <1>5, RequestFields DEF ChildWrites, QuestionWrites

\* A permitted option write keeps the option rules of its question: the
\* check of assertValidOptionConfiguration is enough when nothing intervenes.
LEMMA OptionsAfterKeepRules ==
  ASSUME NEW r \in Request, Accepted(r), NEW agg \in Aggregate,
         r.kind \in OptionWrites, ChildWritePermitted(r, agg),
         OptionRules(agg.question[r.question])
  PROVE  OptionRules([agg.question[r.question] EXCEPT
                        !.option = OptionsAfter(r, agg.question[r.question].option)])
<1> DEFINE question == agg.question[r.question]
           after == OptionsAfter(r, question.option)
<1>1. r.question \in Questions /\ r.option \in Options
  BY RequestFields DEF ChildWrites
<1>2. question \in Question
  BY <1>1 DEF Aggregate
<1>3. CASE r.kind = "createOption"
  <2>1. after = [question.option EXCEPT ![r.option] = r.arg]
    BY <1>3 DEF OptionsAfter
  <2>2. r.arg = "right" => \A o \in Options : question.option[o] # "right"
    BY <1>3 DEF ChildWritePermitted
  <2>3. question.type = "TRUE_FALSE" => ~HasTwoOptions(question)
    BY <1>3 DEF ChildWritePermitted
  <2>4. AtMostOneRight([question EXCEPT !.option = after])
    BY <1>1, <1>2, <2>1, <2>2 DEF OptionRules, AtMostOneRight, Question
  <2>5. question.type = "TRUE_FALSE" => AtMostTwoOptions([question EXCEPT !.option = after])
    BY <1>1, <1>2, <2>1, <2>3 DEF HasTwoOptions, AtMostTwoOptions, Question
  <2> QED
    BY <1>2, <2>4, <2>5 DEF OptionRules, Question
<1>4. CASE r.kind = "updateOption"
  <2>1. r.arg \in Correctness \cup {"keep"}
    BY <1>4, RequestFields
  <2>2. question.option[r.option] # "absent"
    BY <1>4 DEF ChildWritePermitted
  <2>3. \A o \in Options : after[o] = "absent" <=> question.option[o] = "absent"
    BY <1>1, <1>2, <1>4, <2>1, <2>2 DEF OptionsAfter, Correctness, Question
  <2>4. \A o \in Options : after[o] = "right" =>
          IF r.arg = "right" THEN o = r.option ELSE question.option[o] = "right"
    BY <1>1, <1>2, <1>4, <2>1 DEF OptionsAfter, Correctness, Question
  <2>5. AtMostOneRight([question EXCEPT !.option = after])
    BY <1>2, <2>4 DEF OptionRules, AtMostOneRight, Question
  <2>6. AtMostTwoOptions(question) => AtMostTwoOptions([question EXCEPT !.option = after])
    BY <1>2, <2>3 DEF AtMostTwoOptions, Question
  <2> QED
    BY <1>2, <2>5, <2>6 DEF OptionRules, Question
<1> QED
  BY <1>3, <1>4 DEF OptionWrites

\* Every write that was checked on the rows it meets keeps the option rules.
LEMMA AfterKeepsOptionRules ==
  ASSUME NEW r \in Request, Accepted(r), NEW agg \in Aggregate, Ready(r, agg),
         \A n \in Questions : OptionRules(agg.question[n])
  PROVE  \A n \in Questions : OptionRules(After(r, agg).question[n])
<1>1. CASE r.kind \in Lifecycle
  BY <1>1 DEF Lifecycle, After, Aggregate
<1>2. CASE r.kind \in Unlocked
  BY <1>2, SMTT(30) DEF Unlocked, After, Aggregate, NoQuiz, NoQuestion, OptionRules, AtMostOneRight,
     AtMostTwoOptions
<1>3. CASE r.kind = "createQuestion"
  BY <1>3, RequestFields DEF After, ChildrenAfter, Aggregate, NoQuestion, OptionRules,
     AtMostOneRight, AtMostTwoOptions
<1>4. CASE r.kind = "updateQuestionMetadata"
  <2>1. r.question \in Questions /\ agg.question \in [Questions -> Question]
    BY <1>4, RequestFields DEF ChildWrites, QuestionWrites, Aggregate
  <2>2. After(r, agg).question = [agg.question EXCEPT ![r.question].points = r.arg]
    BY <1>4 DEF After, ChildrenAfter, Aggregate
  <2>3. \A n \in Questions : /\ After(r, agg).question[n].type = agg.question[n].type
                             /\ After(r, agg).question[n].option = agg.question[n].option
    BY <2>1, <2>2 DEF Question
  <2> QED
    BY <2>3 DEF OptionRules, AtMostOneRight, AtMostTwoOptions
<1>5. CASE r.kind \in OptionWrites
  <2>1. ChildWritePermitted(r, agg)
    BY <1>5 DEF Ready, Permitted, OptionWrites, Unlocked
  <2>2. r.question \in Questions /\ agg.question \in [Questions -> Question]
    BY <1>5, RequestFields DEF ChildWrites, Aggregate
  <2>3. After(r, agg).question =
          [agg.question EXCEPT ![r.question].option = OptionsAfter(r, @)]
    BY <1>5 DEF OptionWrites, After, ChildrenAfter, Aggregate
  <2>4. OptionRules([agg.question[r.question] EXCEPT
                       !.option = OptionsAfter(r, agg.question[r.question].option)])
    BY <1>5, <2>1, <2>2, OptionsAfterKeepRules
  <2> QED
    BY <2>2, <2>3, <2>4
<1> QED
  BY <1>1, <1>2, <1>3, <1>4, <1>5, RequestFields DEF ChildWrites, QuestionWrites

\* Every write that was checked on the rows it meets leaves a published quiz
\* publishable.
LEMMA AfterKeepsPublishable ==
  ASSUME NEW r \in Request, Accepted(r), NEW agg \in Aggregate, Ready(r, agg),
         agg.status = "PUBLISHED" => Publishable(agg),
         After(r, agg).status = "PUBLISHED"
  PROVE  Publishable(After(r, agg))
<1>1. CASE r.kind \in Lifecycle
  <2>1. Publishable(agg) /\ After(r, agg).question = agg.question
                         /\ After(r, agg).settings = agg.settings
    BY <1>1 DEF Lifecycle, After, Aggregate, Ready, Permitted, Unlocked
  <2> QED
    BY <2>1 DEF Publishable
<1>2. CASE r.kind \in Unlocked
  <2>1. agg.status = "PUBLISHED"
    BY <1>2 DEF Unlocked, After, Aggregate, NoQuiz
  <2>2. /\ After(r, agg).question = agg.question
        /\ After(r, agg).settings \in {"unlimited", "limited", agg.settings}
    BY <1>2, <2>1, RequestFields DEF Unlocked, After, Aggregate
  <2> QED
    BY <2>1, <2>2 DEF Publishable
<1>3. CASE r.kind \in ChildWrites
  <2>1. agg.status = "PUBLISHED"
    BY <1>3 DEF ChildWrites, QuestionWrites, OptionWrites, After, Aggregate
  <2> QED
    BY <1>3, <2>1 DEF Ready, RemainsPublishable, ChildWrites, QuestionWrites, OptionWrites,
       Unlocked
<1> QED
  BY <1>1, <1>2, <1>3, RequestFields

\* The writes that take no lock cannot invalidate what a locked transaction
\* has checked: updateQuizMetadata only stores numbers the DTO has bounded.
LEMMA UnlockedWritesKeepReady ==
  ASSUME NEW r \in Request, NEW m \in Request, Accepted(r), Accepted(m),
         NEW agg \in Aggregate, m.kind \in Unlocked, r.kind \notin Unlocked, Ready(r, agg)
  PROVE  Ready(r, After(m, agg))
<1> DEFINE new == After(m, agg)
<1>1. agg.status # "ABSENT"
  BY RequestFields DEF Ready, Permitted, ChildWritePermitted, Lifecycle, ChildWrites,
     QuestionWrites, OptionWrites, Unlocked
<1>2. /\ new.status = agg.status
      /\ new.question = agg.question
      /\ agg.settings # "outOfRange" => new.settings # "outOfRange"
  BY <1>1, RequestFields DEF Unlocked, After, Aggregate
<1>3. Publishable(agg) => Publishable(new)
  BY <1>2 DEF Publishable
<1>4. Permitted(r, new)
  BY <1>2, <1>3 DEF Ready, Permitted, ChildWritePermitted
<1>5. ASSUME r.kind \in ChildWrites, new.status = "PUBLISHED"
      PROVE  Publishable(After(r, new))
  <2>1. /\ After(r, new).question = After(r, agg).question
        /\ After(r, new).settings = new.settings
        /\ After(r, agg).settings = agg.settings
    BY <1>2, <1>5, AfterType, AfterChildWrite
  <2>2. Publishable(After(r, agg))
    BY <1>2, <1>5 DEF Ready, RemainsPublishable
  <2> QED
    BY <1>2, <2>1, <2>2 DEF Publishable
<1> QED
  BY <1>4, <1>5 DEF Ready, RemainsPublishable

-----------------------------------------------------------------------------
(* The steps of a transaction *)

\* Nothing is locked and nothing runs before the first request.
LEMMA InitIInv == Init => IInv
BY DEF Init, IInv, TypeOK, BusyHasRequest, QuizLockHeld, ChecksStillHold,
   PublishedIsPublishable, OptionRulesHold, NoQuiz, NoQuestion, Aggregate, Question, QuizStatus,
   Settings, RangeCheck, Stage, OptionRules, AtMostOneRight, AtMostTwoOptions

\* A request that arrives holds no lock yet and may still be refused.
LEMMA BeginIInv ==
  ASSUME IInv, NEW t \in Tx, Begin(t)
  PROVE  IInv'
<1>1. PICK r \in Request : /\ Accepted(r)
                           /\ op' = [op EXCEPT ![t] = r]
                           /\ pc' = [pc EXCEPT ![t] = NextStage(r.kind, "idle")]
  BY DEF Begin
<1>2. NextStage(r.kind, "idle") = IF r.kind \in Unlocked THEN "execute" ELSE "lockQuiz"
  BY DEF NextStage
<1>3. UNCHANGED <<quiz, quizLock, questionLock>>
  BY DEF Begin
<1>4. TypeOK'
  BY <1>1, <1>2, <1>3 DEF IInv, TypeOK, Stage
<1>5. BusyHasRequest'
  BY <1>1 DEF IInv, TypeOK, BusyHasRequest
<1>6. QuizLockHeld'
  BY <1>1, <1>2, <1>3 DEF IInv, TypeOK, QuizLockHeld
<1>7. ChecksStillHold'
  BY <1>1, <1>2, <1>3 DEF IInv, TypeOK, ChecksStillHold, Ready, Permitted, RemainsPublishable
<1> QED
  BY <1>3, <1>4, <1>5, <1>6, <1>7 DEF IInv, PublishedIsPublishable, OptionRulesHold

\* The quiz lock goes to one transaction, which has read nothing before it.
LEMMA AcquireQuizLockIInv ==
  ASSUME IInv, NEW t \in Tx, AcquireQuizLock(t)
  PROVE  IInv'
<1> DEFINE q == op[t].quiz
           next == NextStage(op[t].kind, "lockQuiz")
<1>1. /\ pc[t] = "lockQuiz"
      /\ quizLock[q] = NoTx
      /\ quizLock' = [quizLock EXCEPT ![q] = t]
      /\ pc' = [pc EXCEPT ![t] = next]
      /\ UNCHANGED <<quiz, questionLock, op>>
  BY DEF AcquireQuizLock
<1>2. next \in {"lockQuestion", "execute"}
  BY DEF NextStage
<1>3. q \in Quizzes
  BY <1>1, RequestFields DEF IInv, BusyHasRequest
<1>4. TypeOK'
  BY <1>1, <1>2, <1>3 DEF IInv, TypeOK, Stage
<1>5. BusyHasRequest'
  BY <1>1 DEF IInv, TypeOK, BusyHasRequest, Accepted
<1>6. QuizLockHeld'
  <2> SUFFICES ASSUME NEW u \in Tx, pc'[u] \in {"lockQuestion", "execute", "commit"},
                      op[u].kind \notin Unlocked
               PROVE  quizLock'[op[u].quiz] = u
    BY <1>1 DEF QuizLockHeld
  <2>1. CASE u = t
    BY <1>1, <1>3, <2>1 DEF IInv, TypeOK
  <2>2. CASE u # t
    <3>1. quizLock[op[u].quiz] = u
      BY <1>1, <2>2 DEF IInv, TypeOK, QuizLockHeld
    <3> QED
      BY <1>1, <1>3, <3>1, TxAssumption DEF IInv, TypeOK
  <2> QED
    BY <2>1, <2>2
<1>7. ChecksStillHold'
  BY <1>1, <1>2 DEF IInv, TypeOK, ChecksStillHold, Ready, Permitted, RemainsPublishable
<1> QED
  BY <1>1, <1>4, <1>5, <1>6, <1>7 DEF IInv, PublishedIsPublishable, OptionRulesHold

\* The question lock goes to a transaction that holds the quiz lock.
LEMMA AcquireQuestionLockIInv ==
  ASSUME IInv, NEW t \in Tx, AcquireQuestionLock(t)
  PROVE  IInv'
<1>1. /\ pc[t] = "lockQuestion"
      /\ questionLock' = [questionLock EXCEPT ![<<op[t].quiz, op[t].question>>] = t]
      /\ pc' = [pc EXCEPT ![t] = NextStage(op[t].kind, "lockQuestion")]
      /\ UNCHANGED <<quiz, quizLock, op>>
  BY DEF AcquireQuestionLock
<1>2. NextStage(op[t].kind, "lockQuestion") = "execute"
  BY DEF NextStage
<1>3. TypeOK'
  BY <1>1, <1>2 DEF IInv, TypeOK, Stage
<1>4. BusyHasRequest'
  BY <1>1 DEF IInv, TypeOK, BusyHasRequest, Accepted
<1>5. QuizLockHeld'
  BY <1>1, <1>2 DEF IInv, TypeOK, QuizLockHeld
<1>6. ChecksStillHold'
  BY <1>1, <1>2 DEF IInv, TypeOK, ChecksStillHold, Ready, Permitted, RemainsPublishable
<1> QED
  BY <1>1, <1>3, <1>4, <1>5, <1>6 DEF IInv, PublishedIsPublishable, OptionRulesHold

\* The end of a transaction leaves the locks and the stages of the others.
LEMMA EndKeepsOthers ==
  ASSUME IInv, NEW t \in Tx, End(t)
  PROVE  /\ quizLock' \in [Quizzes -> Tx \cup {NoTx}]
         /\ questionLock' \in [Quizzes \X Questions -> Tx \cup {NoTx}]
         /\ pc' \in [Tx -> Stage]
         /\ op' \in [Tx -> Request \cup {NoOp}]
         /\ pc'[t] = "idle"
         /\ \A u \in Tx \ {t} : pc'[u] = pc[u] /\ op'[u] = op[u]
         /\ BusyHasRequest'
         /\ QuizLockHeld'
<1>1. /\ quizLock' \in [Quizzes -> Tx \cup {NoTx}]
      /\ questionLock' \in [Quizzes \X Questions -> Tx \cup {NoTx}]
      /\ pc' \in [Tx -> Stage]
      /\ op' \in [Tx -> Request \cup {NoOp}]
      /\ pc'[t] = "idle"
      /\ \A u \in Tx \ {t} : pc'[u] = pc[u] /\ op'[u] = op[u]
  BY DEF End, IInv, TypeOK, Stage
<1>2. BusyHasRequest'
  BY <1>1 DEF IInv, BusyHasRequest, Accepted
<1>3. QuizLockHeld'
  <2> SUFFICES ASSUME NEW u \in Tx, pc'[u] \in {"lockQuestion", "execute", "commit"},
                      op'[u].kind \notin Unlocked
               PROVE  quizLock'[op'[u].quiz] = u
    BY DEF QuizLockHeld
  <2>1. u # t /\ pc'[u] = pc[u] /\ op'[u] = op[u]
    BY <1>1
  <2>2. quizLock[op[u].quiz] = u /\ op[u].quiz \in Quizzes
    BY <2>1, RequestFields DEF IInv, QuizLockHeld, BusyHasRequest
  <2> QED
    BY <2>1, <2>2 DEF End
<1> QED
  BY <1>1, <1>2, <1>3

\* A transaction that ends without writing changes nothing that matters.
LEMMA EndIInv ==
  ASSUME IInv, NEW t \in Tx, End(t), UNCHANGED quiz
  PROVE  IInv'
<1>1. TypeOK'
  BY EndKeepsOthers DEF IInv, TypeOK
<1>2. ChecksStillHold'
  <2> SUFFICES ASSUME NEW u \in Tx, pc'[u] = "commit"
               PROVE  Ready(op'[u], quiz'[op'[u].quiz])
    BY DEF ChecksStillHold, Ready, Permitted, RemainsPublishable
  <2>1. pc[u] = "commit" /\ op'[u] = op[u]
    BY EndKeepsOthers
  <2> QED
    BY <2>1 DEF IInv, ChecksStillHold
<1> QED
  BY <1>1, <1>2, EndKeepsOthers DEF IInv, PublishedIsPublishable, OptionRulesHold

\* What Execute checks under its locks is what the commit relies on.
LEMMA ExecuteIInv ==
  ASSUME IInv, NEW t \in Tx, Execute(t)
  PROVE  IInv'
<1> DEFINE agg == quiz[op[t].quiz]
<1>1. CASE End(t)
  BY <1>1, EndIInv DEF Execute
<1>2. CASE /\ Permitted(op[t], agg)
           /\ RemainsPublishable(op[t], agg)
           /\ pc' = [pc EXCEPT ![t] = "commit"]
           /\ UNCHANGED <<quizLock, questionLock, op, quiz>>
  <2>1. pc[t] = "execute"
    BY DEF Execute
  <2>2. TypeOK'
    BY <1>2 DEF IInv, TypeOK, Stage
  <2>3. BusyHasRequest'
    BY <1>2, <2>1 DEF IInv, TypeOK, BusyHasRequest, Accepted
  <2>4. QuizLockHeld'
    BY <1>2, <2>1 DEF IInv, TypeOK, QuizLockHeld
  <2>5. ChecksStillHold'
    <3> SUFFICES ASSUME NEW u \in Tx, pc'[u] = "commit"
                 PROVE  Ready(op[u], quiz[op[u].quiz])
      BY <1>2 DEF ChecksStillHold, Ready, Permitted, RemainsPublishable
    <3>1. CASE u = t
      BY <1>2, <3>1 DEF Ready
    <3>2. CASE u # t
      BY <1>2, <3>2 DEF IInv, TypeOK, ChecksStillHold
    <3> QED
      BY <3>1, <3>2
  <2> QED
    BY <1>2, <2>2, <2>3, <2>4, <2>5 DEF IInv, PublishedIsPublishable, OptionRulesHold
<1> QED
  BY <1>1, <1>2 DEF Execute

\* The commit is where the lock matters: no other transaction that has checked
\* this quiz can be about to commit, except those that take no lock.
LEMMA CommitIInv ==
  ASSUME IInv, NEW t \in Tx, Commit(t)
  PROVE  IInv'
<1> DEFINE r == op[t]
           q == r.quiz
<1>1. /\ pc[t] = "commit"
      /\ quiz' = [quiz EXCEPT ![q] = After(r, quiz[q])]
      /\ End(t)
  BY DEF Commit
<1>2. r \in Request /\ Accepted(r) /\ q \in Quizzes
  BY <1>1, RequestFields DEF IInv, BusyHasRequest
<1>3. quiz[q] \in Aggregate /\ Ready(r, quiz[q])
  BY <1>1, <1>2 DEF IInv, TypeOK, ChecksStillHold
<1>4. /\ quiz'[q] = After(r, quiz[q])
      /\ \A p \in Quizzes \ {q} : quiz'[p] = quiz[p]
  BY <1>1, <1>2 DEF IInv, TypeOK
<1>5. TypeOK'
  <2>1. After(r, quiz[q]) \in Aggregate
    BY <1>2, <1>3, AfterType
  <2>2. quiz' \in [Quizzes -> Aggregate]
    BY <1>1, <1>2, <2>1 DEF IInv, TypeOK
  <2> QED
    BY <1>1, <2>2, EndKeepsOthers DEF TypeOK
<1>6. BusyHasRequest' /\ QuizLockHeld'
  BY <1>1, EndKeepsOthers
<1>7. ChecksStillHold'
  <2> SUFFICES ASSUME NEW u \in Tx, pc'[u] = "commit"
               PROVE  Ready(op'[u], quiz'[op'[u].quiz])
    BY DEF ChecksStillHold, Ready, Permitted, RemainsPublishable
  <2>1. u # t /\ pc[u] = "commit" /\ op'[u] = op[u]
    BY <1>1, EndKeepsOthers
  <2>2. op[u] \in Request /\ Accepted(op[u]) /\ op[u].quiz \in Quizzes
    BY <2>1, RequestFields DEF IInv, BusyHasRequest
  <2>3. Ready(op[u], quiz[op[u].quiz])
    BY <2>1 DEF IInv, ChecksStillHold
  <2>4. CASE op[u].quiz # q
    BY <1>4, <2>1, <2>2, <2>3, <2>4
  <2>5. CASE op[u].kind \in Unlocked
    BY <2>1, <2>5 DEF Ready
  <2>6. CASE op[u].quiz = q /\ op[u].kind \notin Unlocked /\ r.kind \notin Unlocked
    <3>1. quizLock[q] = u /\ quizLock[q] = t
      BY <1>1, <2>1, <2>6 DEF IInv, QuizLockHeld
    <3> QED
      BY <2>1, <3>1
  <2>7. CASE op[u].quiz = q /\ op[u].kind \notin Unlocked /\ r.kind \in Unlocked
    <3>1. Ready(op[u], After(r, quiz[q]))
      BY <1>2, <1>3, <2>2, <2>3, <2>7, UnlockedWritesKeepReady
    <3> QED
      BY <1>4, <2>1, <2>7, <3>1
  <2> QED
    BY <2>4, <2>5, <2>6, <2>7
<1>8. PublishedIsPublishable'
  <2> SUFFICES ASSUME NEW p \in Quizzes, quiz'[p].status = "PUBLISHED"
               PROVE  Publishable(quiz'[p])
    BY DEF PublishedIsPublishable, Publishable, QuestionPublishable, HasTwoOptions, OptionRules,
       AtMostOneRight, AtMostTwoOptions
  <2>1. \A a \in Quizzes : quiz[a].status = "PUBLISHED" => Publishable(quiz[a])
    BY DEF IInv, PublishedIsPublishable
  <2>2. CASE p = q
    BY <1>2, <1>3, <1>4, <2>1, <2>2, AfterKeepsPublishable
  <2>3. CASE p # q
    BY <1>4, <2>1, <2>3
  <2> QED
    BY <2>2, <2>3
<1>9. OptionRulesHold'
  <2> SUFFICES ASSUME NEW p \in Quizzes, NEW n \in Questions
               PROVE  OptionRules(quiz'[p].question[n])
    BY DEF OptionRulesHold, OptionRules, AtMostOneRight, AtMostTwoOptions
  <2>1. \A a \in Quizzes, b \in Questions : OptionRules(quiz[a].question[b])
    BY DEF IInv, OptionRulesHold
  <2>2. CASE p = q
    BY <1>2, <1>3, <1>4, <2>1, <2>2, AfterKeepsOptionRules
  <2>3. CASE p # q
    BY <1>4, <2>1, <2>3
  <2> QED
    BY <2>2, <2>3
<1> QED
  BY <1>5, <1>6, <1>7, <1>8, <1>9 DEF IInv

\* Every step of the authoring service preserves the invariant.
LEMMA StepIInv == IInv /\ [Next]_vars => IInv'
<1> SUFFICES ASSUME IInv, [Next]_vars
             PROVE  IInv'
  OBVIOUS
<1>1. ASSUME NEW t \in Tx, Begin(t) PROVE IInv'
  BY <1>1, BeginIInv
<1>2. ASSUME NEW t \in Tx, AcquireQuizLock(t) PROVE IInv'
  BY <1>2, AcquireQuizLockIInv
<1>3. ASSUME NEW t \in Tx, AcquireQuestionLock(t) PROVE IInv'
  BY <1>3, AcquireQuestionLockIInv
<1>4. ASSUME NEW t \in Tx, Execute(t) PROVE IInv'
  BY <1>4, ExecuteIInv
<1>5. ASSUME NEW t \in Tx, Commit(t) PROVE IInv'
  BY <1>5, CommitIInv
<1>6. ASSUME NEW t \in Tx, Rollback(t) PROVE IInv'
  BY <1>6, EndIInv DEF Rollback
<1>7. CASE UNCHANGED vars
  BY <1>7 DEF vars, IInv, TypeOK, BusyHasRequest, QuizLockHeld, ChecksStillHold, Ready, Permitted,
     RemainsPublishable, PublishedIsPublishable, OptionRulesHold, Accepted
<1> QED
  BY <1>1, <1>2, <1>3, <1>4, <1>5, <1>6, <1>7 DEF Next

\* The inductive invariant holds in every behaviour.
THEOREM Invariance == Spec => []IInv
<1> QED
  BY InitIInv, StepIInv, PTL DEF Spec

-----------------------------------------------------------------------------
(* Theorems *)

\* Rows, locks and transactions stay well formed.
THEOREM TypeCorrect == Spec => []TypeOK
<1>1. IInv => TypeOK
  BY DEF IInv
<1> QED
  BY <1>1, Invariance, PTL

\* However many authoring requests race, a quiz students can see is
\* publishable: publishQuiz and the child writes serialise on the quiz lock,
\* and the metadata writes that skip it cannot break a rule.
THEOREM PublishedQuizzesArePublishable == Spec => []PublishedIsPublishable
<1>1. IInv => PublishedIsPublishable
  BY DEF IInv
<1> QED
  BY <1>1, Invariance, PTL

\* However many option requests race on a question, it keeps at most one right
\* option and, when it is true/false, at most two options.
THEOREM OptionRulesAlwaysHold == Spec => []OptionRulesHold
<1>1. IInv => OptionRulesHold
  BY DEF IInv
<1> QED
  BY <1>1, Invariance, PTL

\* An archived quiz is frozen: no request that read it earlier writes to it
\* later, be it serialised by the quiz lock or guarded by its WHERE clause.
THEOREM ArchivedQuizzesAreFrozen == Spec => ArchivedIsFrozen
<1> DEFINE Frozen(q) == quiz[q].status = "ARCHIVED" =>
                          quiz'[q] \in {quiz[q], [quiz[q] EXCEPT !.status = "DRAFT"]}
<1>1. ASSUME IInv, [Next]_vars, NEW q \in Quizzes
      PROVE  Frozen(q)
  <2>1. ASSUME NEW t \in Tx, Commit(t), quiz[q].status = "ARCHIVED"
        PROVE  quiz'[q] \in {quiz[q], [quiz[q] EXCEPT !.status = "DRAFT"]}
    <3> DEFINE r == op[t]
    <3>1. r \in Request /\ Accepted(r) /\ Ready(r, quiz[r.quiz])
      BY <1>1, <2>1 DEF IInv, BusyHasRequest, ChecksStillHold, Commit
    <3>2. quiz' = [quiz EXCEPT ![r.quiz] = After(r, quiz[r.quiz])]
      BY <2>1 DEF Commit
    <3>3. quiz \in [Quizzes -> Aggregate]
      BY <1>1 DEF IInv, TypeOK
    <3>4. CASE r.quiz # q
      BY <3>2, <3>3, <3>4
    <3>5. CASE r.quiz = q
      <4>1. After(r, quiz[q]) \in {quiz[q], [quiz[q] EXCEPT !.status = "DRAFT"]}
        BY <2>1, <3>1, <3>3, <3>5, RequestFields
        DEF Ready, Permitted, ChildWritePermitted, After, Lifecycle, Unlocked, ChildWrites,
            QuestionWrites, OptionWrites, Aggregate
      <4> QED
        BY <3>2, <3>3, <3>5, <4>1
    <3> QED
      BY <3>4, <3>5
  <2>2. CASE UNCHANGED quiz
    BY <2>2
  <2>3. CASE \E t \in Tx : Commit(t)
    BY <2>1, <2>3
  <2> QED
    BY <1>1, <2>2, <2>3 DEF Next, vars, Begin, AcquireQuizLock, AcquireQuestionLock, Execute,
       Rollback
<1>2. IInv /\ [Next]_vars => [\A q \in Quizzes : Frozen(q)]_vars
  BY <1>1
<1> QED
  BY <1>2, Invariance, PTL DEF Spec, ArchivedIsFrozen

=============================================================================
