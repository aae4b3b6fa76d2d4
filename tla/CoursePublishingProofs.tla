----------------------- MODULE CoursePublishingProofs -----------------------
(***************************************************************************)
(* TLAPS proofs about CoursePublishing, for any number of requests,        *)
(* courses, sections, lessons, quizzes and assets and any number of        *)
(* granular changes.                                                       *)
(***************************************************************************)
EXTENDS CoursePublishing, FiniteSetTheorems, WellFoundedInduction, TLAPS

-----------------------------------------------------------------------------
(* The inductive invariant *)

Written == {"lessons", "commit"}                   \* its sections are written
Validated == {"sections"} \cup Written             \* the verdict was favourable
Locked == {"quizzes"} \cup Validated               \* it has all its quiz locks
Past == {"read", "lock"} \cup Locked               \* it has claimed its course

\* A selection names sections and lessons of its course, and none of them is
\* read before the course is claimed.
Requested(t) ==
  /\ pc[t] \in Past \cup {"claim"} =>
       /\ op[t].sections \subseteq SectionsOf(op[t].course)
       /\ op[t].lessons \subseteq LessonsOf(op[t].course)
  /\ pc[t] = "claim" => op[t].unread = Reads

\* A course that has been claimed is as it was found.
ClaimStands(t) == pc[t] \in Past => Claimable(op[t].course)

\* Quiz locks are taken upwards.
LocksOrdered(t) ==
  /\ pc[t] = "lock" => Unlocked(t) # {}
  /\ \A q \in Quizzes : lock[q] = t =>
       /\ pc[t] \in {"lock"} \cup Locked
       /\ pc[t] = "lock" => \A r \in Unlocked(t) : q < r

LocksHeld(t) ==
  pc[t] \in Locked => \A q \in RequiredQuizzes(op[t].lessons) : lock[q] = t

\* What was read of the quizzes under their locks still holds.
QuizzesStand(t) ==
  pc[t] \in Validated =>
    /\ op[t].drafts \subseteq RequiredQuizzes(op[t].lessons)
    /\ \A q \in RequiredQuizzes(op[t].lessons) :
         QuizFit(q) /\ (q \in op[t].drafts <=> quiz[q].status = "DRAFT")

\* The assets have been looked at, and the verdict is still to come.
AssetsRead(t) ==
  pc[t] \in {"lock", "quizzes"} \/ (pc[t] = "read" /\ "assets" \notin op[t].unread)

\* What was read of the assets without a lock still holds: READY is final.
MediaStand(t) ==
  /\ (AssetsRead(t) /\ ~op[t].blocked) \/ pc[t] \in Validated =>
       \A l \in op[t].lessons \ QuizLessons : media[ContentOf[l]] = "ready"
  /\ pc[t] = "publish" /\ op[t] \notin QuizLessons => media[ContentOf[op[t]]] = "ready"

\* The rows a bulk UPDATE has written stay as it found them.
RowsStand(t) ==
  /\ pc[t] \in Written => AllDrafts(op[t].sections, section)
  /\ pc[t] = "commit" => AllDrafts(op[t].lessons, lesson)

Sound(t) ==
  /\ Requested(t)
  /\ ClaimStands(t)
  /\ LocksOrdered(t)
  /\ LocksHeld(t)
  /\ QuizzesStand(t)
  /\ MediaStand(t)
  /\ RowsStand(t)

\* The row lock on a claimed course keeps the other requests from it.
AloneOnCourse ==
  \A t, u \in Tx : pc[t] \in Past /\ pc[u] \in Past /\ op[t].course = op[u].course => t = u

IInv ==
  /\ TypeOK
  /\ \A t \in Tx : Sound(t)
  /\ AloneOnCourse
  /\ PublishedQuizzesAreValid
  /\ PublishedMediaIsReady

-----------------------------------------------------------------------------
(* Facts about selections and locks *)

\* A set of quiz ids has a first one.
LEMMA LeastQuiz ==
  ASSUME NEW S \in SUBSET Quizzes, S # {}
  PROVE  \E q \in S : \A r \in S : q <= r
<1>1. S \subseteq Nat
  BY QuizzesAssumption
<1>2. PICK q \in S : \A r \in S : ~ (<<r, q>> \in OpToRel(<, Nat))
  BY <1>1, WFMin, NatLessThanWellFounded
<1>3. \A r \in S : ~ (r < q)
  BY <1>1, <1>2 DEF OpToRel
<1> QED
  BY <1>1, <1>3

\* The quizzes that lessons show are quizzes.
LEMMA RequiredAreQuizzes ==
  ASSUME NEW L
  PROVE  RequiredQuizzes(L) \subseteq Quizzes
BY DEF RequiredQuizzes, QuizLessons

\* The next lock is the first of those that are missing.
LEMMA NextQuizIsLeast ==
  ASSUME NEW t \in Tx, Unlocked(t) # {}
  PROVE  NextQuiz(t) \in Unlocked(t) /\ \A r \in Unlocked(t) : NextQuiz(t) <= r
<1>1. Unlocked(t) \subseteq Quizzes
  BY RequiredAreQuizzes DEF Unlocked
<1> QED
  BY <1>1, LeastQuiz DEF NextQuiz

\* A transaction is in exactly one kind of stage.
LEMMA OpTyped ==
  ASSUME TypeOK, NEW t \in Tx, pc[t] \in Past \cup {"claim"}
  PROVE  op[t] \in Op
BY DEF TypeOK, Past, Locked, Validated, Written

\* A step of another request that changes no row leaves a request sound.
LEMMA OthersStaySound ==
  ASSUME IInv, NEW u \in Tx, UNCHANGED rows, pc'[u] = pc[u], op'[u] = op[u],
         \A q \in Quizzes : lock'[q] = u <=> lock[q] = u
  PROVE  Sound(u)'
<1>1. Unlocked(u)' = Unlocked(u)
  BY RequiredAreQuizzes DEF Unlocked
<1> QED
  BY <1>1, RequiredAreQuizzes DEF IInv, rows, Sound, Requested, ClaimStands, Claimable,
     LocksOrdered, LocksHeld, QuizzesStand, QuizFit, MediaStand, AssetsRead, RowsStand, AllDrafts

\* A request that ends leaves no trace, and the others their locks.
LEMMA EndFacts ==
  ASSUME TypeOK, NEW t \in Tx, End(t)
  PROVE  /\ pc' \in [Tx -> Stage] /\ op' \in [Tx -> Op \cup Lessons \cup {NoOp}]
         /\ lock' \in [Quizzes -> Tx \cup {NoTx}]
         /\ pc'[t] = "idle" /\ op'[t] = NoOp
         /\ \A u \in Tx \ {t} : pc'[u] = pc[u] /\ op'[u] = op[u]
         /\ \A q \in Quizzes, u \in Tx : lock'[q] = u <=> lock[q] = u /\ u # t
BY TxAssumption DEF TypeOK, End, Stage

\* An idle request promises nothing.
LEMMA IdleIsSound ==
  ASSUME NEW t, pc'[t] = "idle", \A q \in Quizzes : lock'[q] # t
  PROVE  Sound(t)'
BY DEF Sound, Requested, ClaimStands, LocksOrdered, LocksHeld, QuizzesStand, MediaStand, AssetsRead,
   RowsStand, Past, Locked, Validated, Written

\* Refusals and failures.
LEMMA EndIInv ==
  ASSUME IInv, NEW t \in Tx, End(t), UNCHANGED rows
  PROVE  IInv'
<1>1. TypeOK'
  BY EndFacts DEF IInv, TypeOK, rows
<1>2. ASSUME NEW u \in Tx PROVE Sound(u)'
  <2>1. CASE u = t
    BY <2>1, EndFacts, IdleIsSound DEF IInv
  <2>2. CASE u # t
    BY <2>2, EndFacts, OthersStaySound DEF IInv
  <2> QED
    BY <2>1, <2>2
<1>3. AloneOnCourse'
  BY EndFacts DEF IInv, AloneOnCourse, Past, Locked, Validated, Written
<1> QED
  BY <1>1, <1>2, <1>3 DEF IInv, rows, PublishedQuizzesAreValid, PublishedMediaIsReady

-----------------------------------------------------------------------------
(* The steps of publish-selected *)

\* A request that arrives has promised nothing but a selection of its course.
LEMMA SelectIInv ==
  ASSUME IInv, NEW t \in Tx, Select(t)
  PROVE  IInv'
<1>0. PICK c \in Courses : \E S \in SUBSET SectionsOf(c), L \in SUBSET LessonsOf(c) :
        op' = [op EXCEPT ![t] = [course |-> c, sections |-> S, lessons |-> L,
                                 unread |-> Reads, blocked |-> FALSE, drafts |-> {}]]
  BY DEF Select
<1>1. PICK S \in SUBSET SectionsOf(c), L \in SUBSET LessonsOf(c) :
        op' = [op EXCEPT ![t] = [course |-> c, sections |-> S, lessons |-> L,
                                 unread |-> Reads, blocked |-> FALSE, drafts |-> {}]]
  BY <1>0
<1>2. op'[t] \in Op
  BY <1>1 DEF IInv, TypeOK, Op, SectionsOf, LessonsOf
<1>3. pc'[t] = "claim" /\ pc' = [pc EXCEPT ![t] = "claim"] /\ UNCHANGED <<rows, lock>>
  BY DEF Select, Goto, IInv, TypeOK
<1>4. TypeOK'
  BY <1>1, <1>2, <1>3 DEF IInv, TypeOK, rows, Stage
<1>5. ASSUME NEW u \in Tx PROVE Sound(u)'
  <2>1. CASE u = t
    <3>1. \A q \in Quizzes : lock[q] # t
      BY DEF IInv, Sound, LocksOrdered, Select, Locked, Validated, Written
    <3> QED
      BY <1>1, <1>3, <2>1, <3>1 DEF IInv, TypeOK, Sound, Requested, ClaimStands, LocksOrdered,
         LocksHeld, QuizzesStand, MediaStand, AssetsRead, RowsStand, Past, Locked, Validated, Written
  <2>2. CASE u # t
    BY <1>1, <1>3, <2>2, OthersStaySound DEF IInv, TypeOK
  <2> QED
    BY <2>1, <2>2
<1>6. AloneOnCourse'
  BY <1>1, <1>3 DEF IInv, TypeOK, AloneOnCourse, Past, Locked, Validated, Written
<1> QED
  BY <1>3, <1>4, <1>5, <1>6 DEF IInv, rows, PublishedQuizzesAreValid, PublishedMediaIsReady

\* A request that claims its course is the only one that has.
LEMMA ClaimIInv ==
  ASSUME IInv, NEW t \in Tx, Claim(t)
  PROVE  IInv'
<1>1. CASE ~Claimable(op[t].course)
  BY <1>1, EndIInv DEF Claim
<1>2. CASE Claimable(op[t].course)
  <2>1. pc' = [pc EXCEPT ![t] = "read"] /\ UNCHANGED <<rows, op, lock>> /\ pc[t] = "claim"
    BY <1>2 DEF Claim, Goto
  <2>2. TypeOK'
    BY <2>1 DEF IInv, TypeOK, rows, Stage
  <2>3. ASSUME NEW u \in Tx PROVE Sound(u)'
    <3>1. CASE u = t
      <4>1. \A q \in Quizzes : lock[q] # t
        BY <2>1 DEF IInv, Sound, LocksOrdered, Locked, Validated, Written
      <4> QED
        BY <1>2, <2>1, <3>1, <4>1 DEF IInv, TypeOK, rows, Claimable, Sound, Requested, ClaimStands,
           LocksOrdered, LocksHeld, QuizzesStand, MediaStand, AssetsRead, RowsStand, Past, Locked,
           Validated, Written,
           Reads
    <3>2. CASE u # t
      BY <2>1, <3>2, OthersStaySound DEF IInv, TypeOK
    <3> QED
      BY <3>1, <3>2
  <2>4. AloneOnCourse'
    <3>1. \A u \in Tx : pc[u] \in Past => op[u].course # op[t].course
      BY DEF Claim, Claimed, Past, Locked, Validated, Written
    <3> QED
      BY <2>1, <3>1 DEF IInv, TypeOK, AloneOnCourse
  <2> QED
    BY <2>1, <2>2, <2>3, <2>4 DEF IInv, rows, PublishedQuizzesAreValid, PublishedMediaIsReady
<1> QED
  BY <1>1, <1>2

ReadStep(t) == ReadSections(t) \/ ReadLessons(t) \/ ReadAssets(t) \/ ReadPlaces(t)

\* What the reads of a selection have in common: each adds to the verdict, and
\* the last one goes on to the quizzes.
LEMMA ReadFacts ==
  ASSUME IInv, NEW t \in Tx, ReadStep(t)
  PROVE  /\ pc[t] = "read" /\ UNCHANGED <<rows, lock>>
         /\ pc'[t] \in {"read", "quizzes", "lock"}
         /\ pc'[t] = "quizzes" => RequiredQuizzes(op[t].lessons) = {}
         /\ pc'[t] = "lock" => RequiredQuizzes(op[t].lessons) # {}
         /\ op'[t] \in Op /\ op'[t].course = op[t].course
         /\ op'[t].sections = op[t].sections /\ op'[t].lessons = op[t].lessons
         /\ op[t].blocked => op'[t].blocked
         /\ \/ pc'[t] = "read" /\ "assets" \notin op'[t].unread => "assets" \notin op[t].unread
            \/ UnfitAssets(op[t].lessons) => op'[t].blocked
         /\ pc'[t] # "read" => "assets" \notin op[t].unread
         /\ pc' \in [Tx -> Stage]
         /\ op' \in [Tx -> Op \cup Lessons \cup {NoOp}]
         /\ \A u \in Tx \ {t} : pc'[u] = pc[u] /\ op'[u] = op[u]
<1> DEFINE L == op[t].lessons
           found(what, unfit) == [op[t] EXCEPT !.unread = op[t].unread \ {what},
                                               !.blocked = op[t].blocked \/ unfit]
<1>1. pc[t] = "read" /\ UNCHANGED <<rows, lock>>
  BY DEF ReadStep, ReadSections, ReadLessons, ReadAssets, ReadPlaces, Read
<1>2. op[t] \in Op
  BY <1>1, OpTyped DEF IInv, Past
<1>3. ASSUME NEW what \in Reads, NEW unfit \in BOOLEAN, op' = [op EXCEPT ![t] = found(what, unfit)]
      PROVE  /\ op'[t] \in Op /\ op'[t].course = op[t].course
             /\ op'[t].sections = op[t].sections /\ op'[t].lessons = L
             /\ op'[t].unread = op[t].unread \ {what}
             /\ op'[t].blocked <=> op[t].blocked \/ unfit
             /\ op' \in [Tx -> Op \cup Lessons \cup {NoOp}]
             /\ \A u \in Tx \ {t} : op'[u] = op[u]
  <2>1. op'[t] = found(what, unfit) /\ \A u \in Tx \ {t} : op'[u] = op[u]
    BY <1>3 DEF IInv, TypeOK
  <2>2. found(what, unfit) \in Op
    BY <1>2 DEF Op
  <2> QED
    BY <1>2, <1>3, <2>1, <2>2 DEF Op, IInv, TypeOK
<1>4. CASE ReadSections(t)
  <2>1. op' = [op EXCEPT ![t] = found("sections", UnfitSections(op[t].sections))] /\ pc' = pc
    BY <1>4 DEF ReadSections, Read
  <2>2. UnfitSections(op[t].sections) \in BOOLEAN /\ "sections" \in Reads
    BY DEF UnfitSections, Reads
  <2> HIDE DEF found
  <2> QED
    BY <1>1, <1>3, <2>1, <2>2 DEF IInv, TypeOK
<1>5. CASE ReadLessons(t)
  <2>1. op' = [op EXCEPT ![t] = found("lessons", UnfitLessons(L))] /\ pc' = pc
    BY <1>5 DEF ReadLessons, Read
  <2>2. UnfitLessons(L) \in BOOLEAN /\ "lessons" \in Reads
    BY DEF UnfitLessons, Reads
  <2> HIDE DEF found
  <2> QED
    BY <1>1, <1>3, <2>1, <2>2 DEF IInv, TypeOK
<1>6. CASE ReadAssets(t)
  <2>1. op' = [op EXCEPT ![t] = found("assets", UnfitAssets(L))] /\ pc' = pc
    BY <1>6 DEF ReadAssets, Read
  <2>2. UnfitAssets(L) \in BOOLEAN /\ "assets" \in Reads
    BY DEF UnfitAssets, Reads
  <2> HIDE DEF found
  <2> QED
    BY <1>1, <1>3, <2>1, <2>2 DEF IInv, TypeOK
<1>7. CASE ReadPlaces(t)
  <2>1. /\ op' = [op EXCEPT ![t] = found("places", UnfitPlaces(op[t].sections, L))]
        /\ pc' = [pc EXCEPT ![t] = AfterRead(L)]
        /\ "assets" \notin op[t].unread
    BY <1>7 DEF ReadPlaces, Read, Goto, Reads
  <2>2. UnfitPlaces(op[t].sections, L) \in BOOLEAN /\ "places" \in Reads
    BY DEF UnfitPlaces, Reads
  <2>3. AfterRead(L) \in {"quizzes", "lock"} /\ (AfterRead(L) = "quizzes" <=> RequiredQuizzes(L) = {})
    BY DEF AfterRead
  <2>4. /\ pc'[t] = AfterRead(L) /\ pc' \in [Tx -> Stage]
        /\ \A u \in Tx \ {t} : pc'[u] = pc[u]
    BY <2>1, <2>3 DEF IInv, TypeOK, Stage
  <2> HIDE DEF found
  <2> QED
    BY <1>1, <1>3, <2>1, <2>2, <2>3, <2>4
<1> QED
  BY <1>4, <1>5, <1>6, <1>7 DEF ReadStep

\* The verdict on the assets is about rows that are final when they are good.
LEMMA ReadIInv ==
  ASSUME IInv, NEW t \in Tx, ReadStep(t)
  PROVE  IInv'
<1> DEFINE L == op[t].lessons
<1>1. TypeOK'
  <2>1. ASSUME NEW u \in Tx
        PROVE  op'[u] \in CASE pc'[u] = "idle" -> {NoOp} [] pc'[u] = "publish" -> Lessons [] OTHER -> Op
    <3>1. CASE u = t
      BY <3>1, ReadFacts
    <3>2. CASE u # t
      BY <3>2, ReadFacts DEF IInv, TypeOK
    <3> QED
      BY <3>1, <3>2
  <2>2. UNCHANGED <<rows, lock>> /\ pc' \in [Tx -> Stage] /\ op' \in [Tx -> Op \cup Lessons \cup {NoOp}]
    BY ReadFacts
  <2> QED
    BY <2>1, <2>2 DEF IInv, TypeOK, rows
<1>2. ASSUME NEW u \in Tx PROVE Sound(u)'
  <2>1. CASE u = t
    <3>1. \A q \in Quizzes : lock[q] # t
      BY ReadFacts DEF IInv, Sound, LocksOrdered, Locked, Validated, Written
    <3>2. Requested(t)' /\ ClaimStands(t)'
      BY ReadFacts DEF IInv, Sound, Requested, ClaimStands, Claimable, rows, Past
    <3>3. Unlocked(t)' = RequiredQuizzes(L)
      BY <3>1, ReadFacts, RequiredAreQuizzes DEF Unlocked
    <3>4. LocksOrdered(t)' /\ LocksHeld(t)'
      BY <3>1, <3>3, ReadFacts DEF LocksOrdered, LocksHeld, Locked, Validated, Written
    <3>5. MediaStand(t)'
      <4>1. SUFFICES ASSUME AssetsRead(t)', ~op'[t].blocked
                     PROVE  \A l \in L \ QuizLessons : media[ContentOf[l]] = "ready"
        BY ReadFacts DEF MediaStand, AssetsRead, Validated, Written, rows
      <4>2. CASE "assets" \notin op[t].unread
        BY <4>1, <4>2, ReadFacts DEF IInv, Sound, MediaStand, AssetsRead
      <4>3. CASE "assets" \in op[t].unread
        <5>1. ~UnfitAssets(L)
          BY <4>1, <4>3, ReadFacts DEF AssetsRead
        <5> QED
          BY <5>1 DEF UnfitAssets, ContentReady
      <4> QED
        BY <4>2, <4>3
    <3>6. QuizzesStand(t)' /\ RowsStand(t)'
      BY ReadFacts DEF QuizzesStand, RowsStand, Validated, Written
    <3> QED
      BY <2>1, <3>2, <3>4, <3>5, <3>6 DEF Sound
  <2>2. CASE u # t
    BY <2>2, ReadFacts, OthersStaySound
  <2> QED
    BY <2>1, <2>2
<1>3. AloneOnCourse'
  <2>1. \A u \in Tx : op'[u].course = op[u].course /\ (pc'[u] \in Past <=> pc[u] \in Past)
    BY ReadFacts DEF Past, Locked
  <2> QED
    BY <2>1 DEF IInv, AloneOnCourse
<1> QED
  BY <1>1, <1>2, <1>3, ReadFacts DEF IInv, rows, PublishedQuizzesAreValid, PublishedMediaIsReady

\* A new lock is above those it holds and below those it still needs.
LEMMA LockQuizIInv ==
  ASSUME IInv, NEW t \in Tx, LockQuiz(t)
  PROVE  IInv'
<1> DEFINE n == NextQuiz(t)
           stage == IF Cardinality(Unlocked(t)) = 1 THEN "quizzes" ELSE "lock"
<1>1. /\ pc[t] = "lock" /\ lock[n] = NoTx /\ lock' = [lock EXCEPT ![n] = t]
      /\ pc' = [pc EXCEPT ![t] = stage]
      /\ UNCHANGED <<rows, op>>
  BY DEF LockQuiz, Goto
<1>2. Unlocked(t) # {} /\ n \in Unlocked(t) /\ \A r \in Unlocked(t) : n <= r
  BY <1>1, NextQuizIsLeast DEF IInv, Sound, LocksOrdered
<1>3. Unlocked(t) \subseteq Quizzes /\ IsFiniteSet(Unlocked(t))
  BY RequiredAreQuizzes, QuizzesAssumption, FS_Subset DEF Unlocked
<1>4. \A q \in Quizzes, u \in Tx : lock'[q] = u <=> lock[q] = u \/ (q = n /\ u = t)
  BY <1>1, <1>2, <1>3, TxAssumption DEF IInv, TypeOK
<1>5. Unlocked(t)' = Unlocked(t) \ {n}
  BY <1>1, <1>2, <1>4, RequiredAreQuizzes DEF Unlocked
<1>6. stage = "quizzes" <=> Unlocked(t)' = {}
  BY <1>2, <1>3, <1>5, FS_Singleton, SMTT(30)
<1>7. TypeOK'
  BY <1>1, <1>2, <1>3 DEF IInv, TypeOK, rows, Stage
<1>8. ASSUME NEW u \in Tx PROVE Sound(u)'
  <2>1. CASE u = t
    <3>1. pc'[t] = stage /\ stage \in {"lock", "quizzes"}
      BY <1>1 DEF IInv, TypeOK
    <3>2. Requested(t)' /\ ClaimStands(t)'
      BY <1>1, <3>1 DEF IInv, Sound, Requested, ClaimStands, Claimable, rows, Past, Locked
    <3>3. \A q \in Quizzes : lock'[q] = t => \A r \in Unlocked(t)' : q < r
      <4>1. \A q \in Quizzes : lock[q] = t => \A r \in Unlocked(t) : q < r
        BY <1>1 DEF IInv, Sound, LocksOrdered
      <4>2. n \in Nat /\ \A r \in Unlocked(t) : r \in Nat
        BY <1>2, <1>3, QuizzesAssumption
      <4>3. \A r \in Unlocked(t) \ {n} : n < r
        BY <1>2, <4>2
      <4> QED
        BY <1>4, <1>5, <4>1, <4>3
    <3>4. LocksOrdered(t)'
      BY <1>6, <3>1, <3>3 DEF LocksOrdered, Locked
    <3>5. LocksHeld(t)'
      <4>1. pc'[t] = "quizzes" => \A q \in RequiredQuizzes(op[t].lessons)' : lock'[q] = t
        BY <1>6, <3>1 DEF Unlocked
      <4> QED
        BY <3>1, <4>1 DEF LocksHeld, Locked, Validated, Written
    <3>6. QuizzesStand(t)' /\ MediaStand(t)' /\ RowsStand(t)'
      BY <1>1, <3>1 DEF IInv, Sound, QuizzesStand, MediaStand, AssetsRead, RowsStand, Validated, Written, rows
    <3> QED
      BY <2>1, <3>2, <3>4, <3>5, <3>6 DEF Sound
  <2>2. CASE u # t
    BY <1>1, <1>4, <2>2, OthersStaySound DEF IInv, TypeOK
  <2> QED
    BY <2>1, <2>2
<1>9. AloneOnCourse'
  BY <1>1 DEF IInv, TypeOK, AloneOnCourse, Past, Locked
<1> QED
  BY <1>1, <1>7, <1>8, <1>9 DEF IInv, rows, PublishedQuizzesAreValid, PublishedMediaIsReady

\* What the verdict on the quizzes is about is protected by their locks.
LEMMA ReadQuizzesIInv ==
  ASSUME IInv, NEW t \in Tx, ReadQuizzes(t)
  PROVE  IInv'
<1> DEFINE required == RequiredQuizzes(op[t].lessons)
           drafts == {q \in required : quiz[q].status = "DRAFT"}
<1>1. CASE op[t].blocked \/ \E q \in required : ~QuizFit(q)
  BY <1>1, EndIInv DEF ReadQuizzes
<1>2. CASE ~(op[t].blocked \/ \E q \in required : ~QuizFit(q))
  <2>1. /\ pc[t] = "quizzes" /\ UNCHANGED <<rows, lock>>
        /\ pc' = [pc EXCEPT ![t] = "sections"]
        /\ op' = [op EXCEPT ![t].drafts = drafts]
    BY <1>2 DEF ReadQuizzes, Goto
  <2>2. op[t] \in Op
    BY <2>1, OpTyped DEF IInv, Past, Locked
  <2>3. op'[t] = [op[t] EXCEPT !.drafts = drafts] /\ \A u \in Tx \ {t} : op'[u] = op[u]
    BY <2>1 DEF IInv, TypeOK
  <2>4. op'[t] \in Op /\ op'[t].course = op[t].course /\ op'[t].sections = op[t].sections
        /\ op'[t].lessons = op[t].lessons /\ op'[t].drafts = drafts
    BY <2>2, <2>3, RequiredAreQuizzes DEF Op
  <2>5. TypeOK'
    BY <2>1, <2>3, <2>4, ZenonT(30) DEF IInv, TypeOK, rows, Stage
  <2>6. ASSUME NEW u \in Tx PROVE Sound(u)'
    <3>1. CASE u = t
      <4>1. pc'[t] = "sections"
        BY <2>1 DEF IInv, TypeOK
      <4>2. Requested(t)' /\ ClaimStands(t)'
        BY <2>1, <2>4, <4>1 DEF IInv, Sound, Requested, ClaimStands, Claimable, rows, Past, Locked
      <4>3. LocksOrdered(t)' /\ LocksHeld(t)'
        BY <2>1, <2>4, <4>1 DEF IInv, Sound, LocksOrdered, LocksHeld, Locked, Validated
      <4>4. QuizzesStand(t)'
        BY <1>2, <2>1, <2>4, <4>1 DEF QuizzesStand, QuizFit, rows
      <4>5. MediaStand(t)'
        BY <1>2, <2>1, <2>4, <4>1 DEF IInv, Sound, MediaStand, AssetsRead, rows
      <4>6. RowsStand(t)'
        BY <4>1 DEF RowsStand, Written
      <4> QED
        BY <3>1, <4>2, <4>3, <4>4, <4>5, <4>6 DEF Sound
    <3>2. CASE u # t
      BY <2>1, <2>3, <3>2, OthersStaySound DEF IInv, TypeOK
    <3> QED
      BY <3>1, <3>2
  <2>7. AloneOnCourse'
    <3>1. \A u \in Tx : op'[u].course = op[u].course /\ (pc'[u] \in Past <=> pc[u] \in Past)
      BY <2>1, <2>3, <2>4 DEF IInv, TypeOK, Past, Locked, Validated
    <3> QED
      BY <3>1 DEF IInv, AloneOnCourse
  <2> QED
    BY <2>1, <2>5, <2>6, <2>7 DEF IInv, rows, PublishedQuizzesAreValid, PublishedMediaIsReady
<1> QED
  BY <1>1, <1>2

\* A bulk UPDATE that wrote as many rows as it names wrote drafts only.
LEMMA WriteIInv ==
  ASSUME IInv, NEW t \in Tx, WriteSections(t) \/ WriteLessons(t)
  PROVE  IInv'
<1>1. CASE End(t)
  BY <1>1, EndIInv DEF WriteSections, WriteLessons
<1>2. CASE ~End(t)
  <2>1. PICK stage \in Written :
          /\ pc' = [pc EXCEPT ![t] = stage] /\ UNCHANGED <<rows, op, lock>>
          /\ pc[t] \in Validated
          /\ stage = "lessons" => AllDrafts(op[t].sections, section)
          /\ stage = "commit" => pc[t] = "lessons" /\ AllDrafts(op[t].lessons, lesson)
    BY <1>2 DEF WriteSections, WriteLessons, Goto, Written, Validated
  <2>2. TypeOK'
    BY <2>1 DEF IInv, TypeOK, rows, Stage, Validated, Written
  <2>3. ASSUME NEW u \in Tx PROVE Sound(u)'
    <3>1. CASE u = t
      <4>1. pc'[t] = stage
        BY <2>1 DEF IInv, TypeOK
      <4>2. Requested(t)' /\ ClaimStands(t)'
        BY <2>1, <4>1 DEF IInv, Sound, Requested, ClaimStands, Claimable, rows, Past, Locked, Validated, Written
      <4>3. LocksOrdered(t)' /\ LocksHeld(t)'
        BY <2>1, <4>1 DEF IInv, Sound, LocksOrdered, LocksHeld, Locked, Validated, Written
      <4>4. QuizzesStand(t)' /\ MediaStand(t)'
        BY <2>1, <4>1 DEF IInv, Sound, QuizzesStand, QuizFit, MediaStand, AssetsRead, rows, Validated, Written
      <4>5. RowsStand(t)'
        BY <2>1, <4>1 DEF IInv, Sound, RowsStand, AllDrafts, rows, Written
      <4> QED
        BY <3>1, <4>2, <4>3, <4>4, <4>5 DEF Sound
    <3>2. CASE u # t
      BY <2>1, <3>2, OthersStaySound DEF IInv, TypeOK
    <3> QED
      BY <3>1, <3>2
  <2>4. AloneOnCourse'
    BY <2>1 DEF IInv, TypeOK, AloneOnCourse, Past, Locked, Validated
  <2> QED
    BY <2>1, <2>2, <2>3, <2>4 DEF IInv, rows, PublishedQuizzesAreValid, PublishedMediaIsReady
<1> QED
  BY <1>1, <1>2

\* Selections of different courses have no row in common, and required
\* quizzes in common are locked by one request only.
LEMMA SelectionsApart ==
  ASSUME IInv, NEW t \in Tx, NEW u \in Tx, t # u, pc[t] \in Past, pc[u] \in Past
  PROVE  /\ op[t].course # op[u].course
         /\ op[t].sections \cap op[u].sections = {}
         /\ op[t].lessons \cap op[u].lessons = {}
         /\ pc[t] \in Locked /\ pc[u] \in Locked =>
              RequiredQuizzes(op[t].lessons) \cap RequiredQuizzes(op[u].lessons) = {}
<1>1. op[t].course # op[u].course
  BY DEF IInv, AloneOnCourse
<1>2. op[t].sections \cap op[u].sections = {} /\ op[t].lessons \cap op[u].lessons = {}
  BY <1>1 DEF IInv, Sound, Requested, SectionsOf, LessonsOf
<1>3. pc[t] \in Locked /\ pc[u] \in Locked =>
        RequiredQuizzes(op[t].lessons) \cap RequiredQuizzes(op[u].lessons) = {}
  BY DEF IInv, Sound, LocksHeld
<1> QED
  BY <1>1, <1>2, <1>3

\* A committed selection leaves the rows and locks of the others alone.
LEMMA CommitIInv ==
  ASSUME IInv, NEW t \in Tx, Commit(t)
  PROVE  IInv'
<1> DEFINE S == op[t].sections
           L == op[t].lessons
           required == RequiredQuizzes(L)
<1>1. pc[t] = "commit" /\ pc[t] \in Past /\ pc[t] \in Validated /\ op[t] \in Op
  BY OpTyped DEF Commit, IInv, Past, Locked, Validated, Written
<1>2. /\ AllDrafts(S, section) /\ AllDrafts(L, lesson)
      /\ op[t].drafts \subseteq required
      /\ \A q \in required : QuizFit(q)
      /\ \A l \in L \ QuizLessons : media[ContentOf[l]] = "ready"
  BY <1>1 DEF IInv, Sound, RowsStand, QuizzesStand, MediaStand, AssetsRead, Written
<1>3. /\ \A c \in Courses : course'[c] = IF c = op[t].course THEN [status |-> "PUBLISHED", published |-> TRUE]
                                         ELSE course[c]
      /\ \A s \in Sections : section'[s] = IF s \in S THEN "PUBLISHED" ELSE section[s]
      /\ \A l \in Lessons : lesson'[l] = IF l \in L THEN "PUBLISHED" ELSE lesson[l]
      /\ \A q \in Quizzes : quiz'[q].valid = quiz[q].valid
                            /\ quiz'[q].status = IF q \in op[t].drafts THEN "PUBLISHED" ELSE quiz[q].status
      /\ media' = media
  BY <1>1, <1>2 DEF Commit, Published, AllDrafts, IInv, TypeOK, Op
<1>4. TypeOK'
  <2>1. /\ course' \in [Courses -> [status : Status, published : BOOLEAN]]
        /\ \A c \in Courses : course'[c].status = "PUBLISHED" => course'[c].published
    BY <1>1 DEF Commit, IInv, TypeOK, Op, Status
  <2>2. section' \in [Sections -> Status] /\ lesson' \in [Lessons -> Status]
    BY DEF Commit, Published, IInv, TypeOK, Status
  <2>3. quiz' \in [Quizzes -> [status : Status, valid : BOOLEAN]]
    BY DEF Commit, IInv, TypeOK, Status
  <2> QED
    BY <1>3, <2>1, <2>2, <2>3, EndFacts DEF IInv, TypeOK, Commit
<1>5. ASSUME NEW u \in Tx, u # t PROVE Sound(u)'
  <2>1. pc'[u] = pc[u] /\ op'[u] = op[u] /\ \A q \in Quizzes : lock'[q] = u <=> lock[q] = u
    BY <1>5, EndFacts DEF Commit, IInv
  <2>2. Unlocked(u)' = Unlocked(u)
    BY <2>1, RequiredAreQuizzes DEF Unlocked
  <2>3. Requested(u)' /\ LocksOrdered(u)' /\ LocksHeld(u)' /\ MediaStand(u)'
    BY <1>3, <2>1, <2>2, RequiredAreQuizzes DEF IInv, Sound, Requested, LocksOrdered, LocksHeld,
       MediaStand, AssetsRead
  <2>4. ClaimStands(u)'
    <3>1. pc[u] \in Past => op[u].course # op[t].course /\ op[u].course \in Courses
      BY <1>1, <1>5, SelectionsApart, OpTyped DEF IInv, Op
    <3> QED
      BY <1>3, <2>1, <3>1 DEF IInv, Sound, ClaimStands, Claimable
  <2>5. QuizzesStand(u)'
    <3>1. pc[u] \in Validated => RequiredQuizzes(op[u].lessons) \cap op[t].drafts = {}
      BY <1>1, <1>2, <1>5, SelectionsApart DEF Past, Locked
    <3> QED
      BY <1>3, <2>1, <3>1, RequiredAreQuizzes DEF IInv, Sound, QuizzesStand, QuizFit
  <2>6. RowsStand(u)'
    <3>1. pc[u] \in Written => op[u] \in Op /\ op[u].sections \cap S = {} /\ op[u].lessons \cap L = {}
      BY <1>1, <1>5, SelectionsApart, OpTyped DEF IInv, Past, Locked, Validated
    <3> QED
      BY <1>3, <2>1, <3>1 DEF IInv, Sound, RowsStand, AllDrafts, Op, Written
  <2> QED
    BY <2>3, <2>4, <2>5, <2>6 DEF Sound
<1>6. Sound(t)'
  BY EndFacts, IdleIsSound DEF IInv, Commit
<1>7. AloneOnCourse'
  BY EndFacts DEF IInv, Commit, AloneOnCourse, Past, Locked, Validated, Written
<1>8. PublishedQuizzesAreValid'
  BY <1>2, <1>3 DEF IInv, PublishedQuizzesAreValid, QuizFit
<1>9. PublishedMediaIsReady'
  BY <1>2, <1>3 DEF IInv, PublishedMediaIsReady
<1> QED
  BY <1>4, <1>5, <1>6, <1>7, <1>8, <1>9 DEF IInv

-----------------------------------------------------------------------------
(* Granular transitions *)

\* publishLesson publishes what it found publishable: READY is final.
LEMMA PublishLessonIInv ==
  ASSUME IInv, NEW t \in Tx, CheckLesson(t) \/ PublishLesson(t)
  PROVE  IInv'
<1>1. CASE CheckLesson(t)
  <2>1. PICK l \in Lessons : LessonPublishable(l) /\ op' = [op EXCEPT ![t] = l]
    BY <1>1 DEF CheckLesson
  <2>2. pc[t] = "idle" /\ pc' = [pc EXCEPT ![t] = "publish"] /\ UNCHANGED <<rows, lock>>
    BY <1>1 DEF CheckLesson, Goto
  <2>3. pc'[t] = "publish" /\ op'[t] = l /\ \A u \in Tx \ {t} : pc'[u] = pc[u] /\ op'[u] = op[u]
    BY <2>1, <2>2 DEF IInv, TypeOK
  <2>4. TypeOK'
    BY <2>1, <2>2, <2>3 DEF IInv, TypeOK, rows, Stage
  <2>5. ASSUME NEW u \in Tx PROVE Sound(u)'
    <3>1. CASE u = t
      <4>1. \A q \in Quizzes : lock'[q] # t
        BY <2>2 DEF IInv, Sound, LocksOrdered, Locked, Validated, Written
      <4>2. MediaStand(t)'
        BY <2>1, <2>2, <2>3 DEF MediaStand, AssetsRead, LessonPublishable, rows, Validated, Written
      <4> QED
        BY <2>3, <3>1, <4>1, <4>2 DEF Sound, Requested, ClaimStands, LocksOrdered, LocksHeld,
           QuizzesStand, RowsStand, Past, Locked, Validated, Written
    <3>2. CASE u # t
      BY <2>2, <2>3, <3>2, OthersStaySound DEF IInv
    <3> QED
      BY <3>1, <3>2
  <2>6. AloneOnCourse'
    BY <2>3 DEF IInv, AloneOnCourse, Past, Locked, Validated, Written
  <2> QED
    BY <2>2, <2>4, <2>5, <2>6 DEF IInv, rows, PublishedQuizzesAreValid, PublishedMediaIsReady
<1>2. CASE PublishLesson(t)
  <2>1. pc[t] = "publish" /\ ~LessonWritten(op[t]) /\ End(t) /\ UNCHANGED <<course, section, quiz, media>>
    BY <1>2 DEF PublishLesson
  <2>2. op[t] \in Lessons
    BY <2>1 DEF IInv, TypeOK
  <2>3. /\ lesson' \in [Lessons -> Status]
        /\ \A l \in Lessons : lesson'[l] = IF l = op[t] /\ lesson[l] = "DRAFT" THEN "PUBLISHED" ELSE lesson[l]
    BY <1>2 DEF PublishLesson, Published, IInv, TypeOK, Status
  <2>4. TypeOK'
    BY <2>1, <2>3, EndFacts DEF IInv, TypeOK
  <2>5. ASSUME NEW u \in Tx, u # t PROVE Sound(u)'
    <3>1. pc'[u] = pc[u] /\ op'[u] = op[u] /\ \A q \in Quizzes : lock'[q] = u <=> lock[q] = u
      BY <2>1, <2>5, EndFacts DEF IInv
    <3>2. Unlocked(u)' = Unlocked(u)
      BY <3>1, RequiredAreQuizzes DEF Unlocked
    <3>3. RowsStand(u)'
      <4>1. pc[u] = "commit" => op[t] \notin op[u].lessons
        BY <2>1 DEF LessonWritten
      <4>2. pc[u] = "commit" => op[u].lessons \subseteq Lessons
        BY OpTyped DEF IInv, Op, Past, Locked, Validated, Written
      <4> QED
        BY <2>1, <2>3, <3>1, <4>1, <4>2 DEF IInv, Sound, RowsStand, AllDrafts
    <3> QED
      BY <2>1, <3>1, <3>2, <3>3, RequiredAreQuizzes DEF IInv, Sound, Requested, ClaimStands, Claimable,
         LocksOrdered, LocksHeld, QuizzesStand, QuizFit, MediaStand, AssetsRead
  <2>6. Sound(t)'
    BY <2>1, EndFacts, IdleIsSound DEF IInv
  <2>7. AloneOnCourse'
    BY <2>1, EndFacts DEF IInv, AloneOnCourse, Past, Locked, Validated, Written
  <2>8. PublishedQuizzesAreValid'
    BY <2>1 DEF IInv, PublishedQuizzesAreValid
  <2>9. PublishedMediaIsReady'
    BY <2>1, <2>2, <2>3 DEF IInv, Sound, MediaStand, AssetsRead, PublishedMediaIsReady
  <2> QED
    BY <2>4, <2>5, <2>6, <2>7, <2>8, <2>9 DEF IInv
<1> QED
  BY <1>1, <1>2

\* Granular changes of courses, sections and lessons wait for the rows that a
\* selection has written.
LEMMA ChangeRowIInv ==
  ASSUME IInv,
         \/ \E c \in Courses : ChangeCourse(c)
         \/ \E s \in Sections : ChangeSection(s)
         \/ \E l \in Lessons : ChangeLesson(l)
  PROVE  IInv'
<1>1. UNCHANGED <<quiz, media, lock, pc, op>>
  BY DEF ChangeCourse, ChangeSection, ChangeLesson
<1>2. \A t \in Tx : pc[t] \in Past => op[t] \in Op
  BY OpTyped DEF IInv
<1>3. TypeOK'
  <2>1. CASE \E c \in Courses : ChangeCourse(c)
    <3>1. PICK c \in Courses, to \in Status :
            course' = [course EXCEPT ![c] = [status |-> to, published |-> PublishedOnce(c, to)]]
      BY <2>1 DEF ChangeCourse
    <3>2. UNCHANGED <<section, lesson>>
      BY <2>1 DEF ChangeCourse
    <3>3. PublishedOnce(c, to) \in BOOLEAN /\ (to = "PUBLISHED" => PublishedOnce(c, to) = TRUE)
      BY DEF PublishedOnce
    <3> QED
      BY <1>1, <3>1, <3>2, <3>3 DEF IInv, TypeOK
  <2>2. CASE \E s \in Sections : ChangeSection(s)
    BY <1>1, <2>2 DEF ChangeSection, IInv, TypeOK
  <2>3. CASE \E l \in Lessons : ChangeLesson(l)
    BY <1>1, <2>3 DEF ChangeLesson, IInv, TypeOK, Status
  <2> QED
    BY <2>1, <2>2, <2>3
<1>4. ASSUME NEW t \in Tx PROVE ClaimStands(t)'
  <2>1. CASE \E c \in Courses : ChangeCourse(c)
    <3>1. PICK c \in Courses : ~Claimed(c) /\ \A d \in Courses \ {c} : course'[d] = course[d]
      BY <2>1 DEF ChangeCourse, IInv, TypeOK
    <3>2. pc[t] \in Past => op[t].course # c /\ op[t].course \in Courses
      BY <1>2, <3>1 DEF Claimed, Op, Past, Locked, Validated, Written
    <3> QED
      BY <1>1, <3>1, <3>2 DEF IInv, Sound, ClaimStands, Claimable
  <2>2. CASE UNCHANGED course
    BY <1>1, <2>2 DEF IInv, Sound, ClaimStands, Claimable
  <2> QED
    BY <2>1, <2>2 DEF ChangeSection, ChangeLesson
<1>5. ASSUME NEW t \in Tx PROVE RowsStand(t)'
  <2>1. CASE \E s \in Sections : ChangeSection(s)
    <3>1. PICK s \in Sections : ~SectionWritten(s) /\ \A r \in Sections \ {s} : section'[r] = section[r]
      BY <2>1 DEF ChangeSection, IInv, TypeOK
    <3>2. pc[t] \in Written => s \notin op[t].sections /\ op[t].sections \subseteq Sections
      BY <1>2, <3>1 DEF SectionWritten, Op, Past, Locked, Validated, Written
    <3>3. UNCHANGED lesson
      BY <2>1 DEF ChangeSection
    <3> QED
      BY <1>1, <3>1, <3>2, <3>3 DEF IInv, Sound, RowsStand, AllDrafts
  <2>2. CASE \E l \in Lessons : ChangeLesson(l)
    <3>1. PICK l \in Lessons : ~LessonWritten(l) /\ \A r \in Lessons \ {l} : lesson'[r] = lesson[r]
      BY <2>2 DEF ChangeLesson, IInv, TypeOK
    <3>2. pc[t] = "commit" => l \notin op[t].lessons /\ op[t].lessons \subseteq Lessons
      BY <1>2, <3>1 DEF LessonWritten, Op, Past, Locked, Validated, Written
    <3>3. UNCHANGED section
      BY <2>2 DEF ChangeLesson
    <3> QED
      BY <1>1, <3>1, <3>2, <3>3 DEF IInv, Sound, RowsStand, AllDrafts
  <2>3. CASE UNCHANGED <<section, lesson>>
    BY <1>1, <2>3 DEF IInv, Sound, RowsStand, AllDrafts
  <2> QED
    BY <2>1, <2>2, <2>3 DEF ChangeCourse
<1>6. ASSUME NEW t \in Tx PROVE Sound(t)'
  <2>1. Unlocked(t)' = Unlocked(t)
    BY <1>1 DEF Unlocked
  <2> QED
    BY <1>1, <1>4, <1>5, <2>1 DEF IInv, Sound, Requested, LocksOrdered, LocksHeld, QuizzesStand, QuizFit,
       MediaStand, AssetsRead
<1>7. PublishedMediaIsReady'
  <2>1. \A l \in Lessons : lesson'[l] = "PUBLISHED" => lesson[l] = "PUBLISHED"
    BY DEF ChangeCourse, ChangeSection, ChangeLesson, IInv, TypeOK
  <2> QED
    BY <1>1, <2>1 DEF IInv, PublishedMediaIsReady
<1> QED
  BY <1>1, <1>3, <1>6, <1>7 DEF IInv, AloneOnCourse, PublishedQuizzesAreValid

\* Changes of a quiz wait for its lock.
LEMMA ChangeQuizIInv ==
  ASSUME IInv, NEW q \in Quizzes, ChangeQuiz(q) \/ EditQuiz(q)
  PROVE  IInv'
<1>1. lock[q] = NoTx /\ UNCHANGED <<course, section, lesson, media, lock, pc, op>>
  BY DEF ChangeQuiz, EditQuiz
<1>2. /\ quiz' \in [Quizzes -> [status : Status, valid : BOOLEAN]]
      /\ \A r \in Quizzes \ {q} : quiz'[r] = quiz[r]
      /\ quiz'[q].status = "PUBLISHED" => quiz'[q].valid
  <2>0. quiz \in [Quizzes -> [status : Status, valid : BOOLEAN]]
    BY DEF IInv, TypeOK
  <2>1. CASE ChangeQuiz(q)
    <3>1. PICK to \in Status : /\ to = "PUBLISHED" => quiz[q].valid
                              /\ quiz' = [quiz EXCEPT ![q] = [status |-> to, valid |-> quiz[q].valid]]
      BY <2>1 DEF ChangeQuiz
    <3> QED
      BY <2>0, <3>1
  <2>2. CASE EditQuiz(q)
    <3>1. quiz[q].status = "DRAFT" /\ quiz' = [quiz EXCEPT ![q] = [status |-> "DRAFT",
    valid |-> ~quiz[q].valid]]
      BY <2>2 DEF EditQuiz
    <3> QED
      BY <2>0, <3>1 DEF Status
  <2> QED
    BY <2>1, <2>2
<1>3. TypeOK'
  BY <1>1, <1>2 DEF IInv, TypeOK
<1>4. ASSUME NEW t \in Tx PROVE Sound(t)'
  <2>1. Unlocked(t)' = Unlocked(t)
    BY <1>1 DEF Unlocked
  <2>2. QuizzesStand(t)'
    <3>1. pc[t] \in Validated => q \notin RequiredQuizzes(op[t].lessons)
      BY <1>1, TxAssumption DEF IInv, Sound, LocksHeld, Locked
    <3> QED
      BY <1>1, <1>2, <3>1, RequiredAreQuizzes DEF IInv, Sound, QuizzesStand, QuizFit
  <2> QED
    BY <1>1, <2>1, <2>2 DEF IInv, Sound, Requested, ClaimStands, Claimable, LocksOrdered, LocksHeld,
       MediaStand, AssetsRead, RowsStand, AllDrafts
<1> QED
  BY <1>1, <1>2, <1>3, <1>4 DEF IInv, AloneOnCourse, PublishedQuizzesAreValid, PublishedMediaIsReady

\* An asset that is READY stays so.
LEMMA ChangeMediaIInv ==
  ASSUME IInv, NEW m \in Media, ChangeMedia(m)
  PROVE  IInv'
<1>1. UNCHANGED <<course, section, lesson, quiz, lock, pc, op>>
  BY DEF ChangeMedia
<1>2. /\ media' \in [Media -> {"preparing", "ready", "failed"}]
      /\ \A n \in Media : media[n] = "ready" => media'[n] = "ready"
  BY DEF ChangeMedia, Progress, IInv, TypeOK
<1>3. TypeOK'
  BY <1>1, <1>2 DEF IInv, TypeOK
<1>4. \A l \in Lessons \ QuizLessons : media[ContentOf[l]] = "ready" => media'[ContentOf[l]] = "ready"
  BY <1>2, StructureAssumption DEF QuizLessons
<1>5. ASSUME NEW t \in Tx PROVE Sound(t)'
  <2>1. Unlocked(t)' = Unlocked(t)
    BY <1>1 DEF Unlocked
  <2>2. MediaStand(t)'
    <3>1. pc[t] \in Past => op[t].lessons \subseteq Lessons
      BY OpTyped DEF IInv, Op
    <3>2. pc[t] = "publish" => op[t] \in Lessons
      BY DEF IInv, TypeOK
    <3> QED
      BY <1>1, <1>4, <3>1, <3>2 DEF IInv, Sound, MediaStand, AssetsRead, Past, Locked
  <2> QED
    BY <1>1, <2>1, <2>2 DEF IInv, Sound, Requested, ClaimStands, Claimable, LocksOrdered, LocksHeld,
       QuizzesStand, QuizFit, RowsStand, AllDrafts
<1> QED
  BY <1>1, <1>3, <1>4, <1>5 DEF IInv, AloneOnCourse, PublishedQuizzesAreValid, PublishedMediaIsReady

-----------------------------------------------------------------------------
(* Theorems *)

\* Nothing is published and nothing runs at first.
LEMMA InitIInv == Init => IInv
<1> SUFFICES ASSUME Init PROVE IInv
  OBVIOUS
<1>1. TypeOK
  BY DEF Init, TypeOK, Status, Stage
<1>2. ASSUME NEW t \in Tx PROVE Sound(t)
  BY TxAssumption DEF Init, Sound, Requested, ClaimStands, LocksOrdered, LocksHeld, QuizzesStand,
     MediaStand, AssetsRead,
     RowsStand, Past, Locked, Validated, Written
<1> QED
  BY <1>1, <1>2 DEF Init, IInv, AloneOnCourse, PublishedQuizzesAreValid, PublishedMediaIsReady, Past, Locked,
     Validated, Written

\* Every step preserves the invariant.
LEMMA StepIInv == IInv /\ [Next]_vars => IInv'
<1> SUFFICES ASSUME IInv, [Next]_vars PROVE IInv'
  OBVIOUS
<1>1. ASSUME NEW t \in Tx, Serve(t) PROVE IInv'
  <2>1. CASE Select(t) \/ Claim(t)
    BY <2>1, SelectIInv, ClaimIInv
  <2>2. CASE ReadStep(t) \/ LockQuiz(t) \/ ReadQuizzes(t)
    BY <2>2, ReadIInv, LockQuizIInv, ReadQuizzesIInv
  <2>3. CASE WriteSections(t) \/ WriteLessons(t)
    BY <2>3, WriteIInv
  <2>4. CASE Commit(t)
    BY <2>4, CommitIInv
  <2>5. CASE Rollback(t)
    BY <2>5, EndIInv DEF Rollback
  <2>6. CASE CheckLesson(t) \/ PublishLesson(t)
    BY <2>6, PublishLessonIInv
  <2> QED
    BY <1>1, <2>1, <2>2, <2>3, <2>4, <2>5, <2>6 DEF Serve, ReadStep
<1>2. CASE Change
  BY <1>2, ChangeRowIInv, ChangeQuizIInv, ChangeMediaIInv DEF Change
<1>3. CASE UNCHANGED vars
  <2>1. \A t \in Tx : Sound(t)'
    BY <1>3, OthersStaySound DEF vars, rows
  <2> QED
    BY <1>3, <2>1 DEF IInv, vars, TypeOK, AloneOnCourse, PublishedQuizzesAreValid, PublishedMediaIsReady
<1> QED
  BY <1>1, <1>2, <1>3 DEF Next

\* The invariant holds in every reachable state.
THEOREM Invariance == Spec => []IInv
<1>1. Init => IInv
  BY InitIInv
<1>2. IInv /\ [Next]_vars => IInv'
  BY StepIInv
<1> QED
  BY <1>1, <1>2, PTL DEF Spec

\* Every reachable state is well formed.
THEOREM TypeCorrect == Spec => []TypeOK
<1>1. IInv => TypeOK
  BY DEF IInv
<1> QED
  BY <1>1, Invariance, PTL

\* A published quiz satisfies the publishability rules, by whichever way it
\* was published.
THEOREM QuizzesArePublishedValid == Spec => []PublishedQuizzesAreValid
<1>1. IInv => PublishedQuizzesAreValid
  BY DEF IInv
<1> QED
  BY <1>1, Invariance, PTL

\* A published video or document lesson has a READY asset.
THEOREM MediaIsPublishedReady == Spec => []PublishedMediaIsReady
<1>1. IInv => PublishedMediaIsReady
  BY DEF IInv
<1> QED
  BY <1>1, Invariance, PTL

\* The readiness report and publish-selected agree on what may be published.
THEOREM OffersAreFit == Spec => []OfferedSelectionsAreFit
<1>1. IInv => OfferedSelectionsAreFit
  <2> SUFFICES ASSUME IInv, NEW c \in Courses, NEW L \in SUBSET ReadyLessons(c)
               PROVE  /\ ~Unfit({s \in ReadySections(c) : \E l \in L : SectionOf[l] = s}, L)
                      /\ \A q \in RequiredQuizzes(L) : QuizFit(q)
    BY DEF OfferedSelectionsAreFit
  <2> DEFINE S == {s \in ReadySections(c) : \E l \in L : SectionOf[l] = s}
  <2>1. \A l \in L : /\ l \in LessonsOf(c) /\ lesson[l] = "DRAFT" /\ ContentReady(l)
                     /\ section[SectionOf[l]] # "ARCHIVED"
    BY DEF ReadyLessons
  <2>2. \A s \in S : section[s] = "DRAFT"
    BY DEF ReadySections
  <2>3. ASSUME NEW l \in L PROVE SectionOf[l] \in S \/ section[SectionOf[l]] = "PUBLISHED"
    <3>1. SectionOf[l] \in SectionsOf(c) /\ section[SectionOf[l]] \in Status
      BY <2>1, StructureAssumption DEF LessonsOf, SectionsOf, IInv, TypeOK
    <3> QED
      BY <2>1, <3>1 DEF Status, ReadySections
  <2>4. \A q \in RequiredQuizzes(L) : QuizFit(q)
    BY <2>1 DEF RequiredQuizzes, ContentReady
  <2> QED
    BY <2>1, <2>2, <2>3, <2>4 DEF Unfit, UnfitSections, UnfitLessons, UnfitAssets, UnfitPlaces
<1> QED
  BY <1>1, Invariance, PTL

\* Publications wait for the quizzes they share in one order, so no two of
\* them wait for each other.
THEOREM PublicationsNeverDeadlock == Spec => []NoMutualWait
<1>1. IInv => NoMutualWait
  <2> SUFFICES ASSUME IInv, NEW t \in Tx, NEW u \in Tx, u \in WaitsFor(t), t \in WaitsFor(u)
               PROVE  FALSE
    BY DEF NoMutualWait
  <2>1. pc[t] \in {"claim", "lock"} /\ pc[u] \in {"claim", "lock"}
    BY DEF WaitsFor
  <2>2. ASSUME NEW v \in Tx, NEW w \in Tx, pc[v] = "lock", w \in WaitsFor(v)

               PROVE  pc[w] # "claim" /\ NextQuiz(v) \in Quizzes /\ NextQuiz(v) \in Unlocked(v) /\ lock[NextQuiz(v)] = w
    <3>1. NextQuiz(v) \in Unlocked(v) /\ NextQuiz(v) \in Quizzes
      BY <2>2, NextQuizIsLeast, RequiredAreQuizzes DEF IInv, Sound, LocksOrdered, Unlocked
    <3>2. lock[NextQuiz(v)] = w
      BY <2>2 DEF WaitsFor
    <3> QED
      BY <3>1, <3>2 DEF IInv, Sound, LocksOrdered, Locked, Validated, Written
  <2>3. ASSUME NEW v \in Tx, NEW w \in Tx, pc[v] = "claim", w \in WaitsFor(v)
        PROVE  pc[w] # "claim"
    BY <2>3 DEF WaitsFor
  <2>4. pc[t] = "lock" /\ pc[u] = "lock"
    BY <2>1, <2>2, <2>3
  <2>5. NextQuiz(u) < NextQuiz(t) /\ NextQuiz(t) < NextQuiz(u)
    BY <2>2, <2>4 DEF IInv, Sound, LocksOrdered
  <2>6. NextQuiz(u) \in Nat /\ NextQuiz(t) \in Nat
    BY <2>2, <2>4, QuizzesAssumption
  <2> QED
    BY <2>5, <2>6
<1> QED
  BY <1>1, Invariance, PTL

\* Only a commit of publish-selected changes a claimed course.
LEMMA ClaimedCourseChanges ==
  ASSUME IInv, [Next]_vars, NEW t \in Tx, pc[t] = "commit", course'[op[t].course] # course[op[t].course]
  PROVE  Commit(t)
<1>1. op[t].course \in Courses /\ Claimed(op[t].course) /\ pc[t] \in Past
  BY OpTyped DEF IInv, Op, Claimed, Past, Locked, Validated, Written
<1>2. CASE \E c \in Courses : ChangeCourse(c)
  BY <1>1, <1>2 DEF ChangeCourse, IInv, TypeOK
<1>3. ASSUME NEW u \in Tx, u # t, Commit(u) PROVE FALSE
  <2>1. op[u].course # op[t].course
    BY <1>1, <1>3, SelectionsApart DEF Commit, Past, Locked, Validated, Written
  <2> QED
    BY <1>1, <1>3, <2>1 DEF Commit, IInv, TypeOK
<1>4. CASE UNCHANGED course
  BY <1>4
<1> QED
  BY <1>2, <1>3, <1>4 DEF Next, vars, Serve, Change, rows, Select, Claim, Read, ReadSections,
     ReadLessons, ReadAssets, ReadPlaces, LockQuiz, ReadQuizzes,
     WriteSections,
     WriteLessons, Rollback, CheckLesson, PublishLesson, ChangeSection, ChangeLesson, ChangeQuiz, EditQuiz,
     ChangeMedia

\* A commit of publish-selected publishes the reviewed selection and nothing
\* else.
THEOREM SelectionsAreExact == Spec => SelectionIsExact
<1>1. ASSUME IInv, [Next]_vars, NEW t \in Tx, pc[t] = "commit", course'[op[t].course] # course[op[t].course]
      PROVE  /\ \A s \in Sections :
                  IF s \in op[t].sections THEN section[s] = "DRAFT" /\ section'[s] = "PUBLISHED"
                  ELSE section'[s] = section[s]
             /\ \A l \in Lessons :
                  IF l \in op[t].lessons THEN lesson[l] = "DRAFT" /\ lesson'[l] = "PUBLISHED"
                  ELSE lesson'[l] = lesson[l]
             /\ \A q \in Quizzes :
                  IF q \in RequiredQuizzes(op[t].lessons) THEN quiz'[q].status = "PUBLISHED"
                  ELSE quiz'[q] = quiz[q]
  <2>1. Commit(t)
    BY <1>1, ClaimedCourseChanges
  <2>2. /\ AllDrafts(op[t].sections, section) /\ AllDrafts(op[t].lessons, lesson)
        /\ op[t].drafts \subseteq RequiredQuizzes(op[t].lessons)
        /\ \A q \in RequiredQuizzes(op[t].lessons) :
             QuizFit(q) /\ (q \in op[t].drafts <=> quiz[q].status = "DRAFT")
    BY <1>1 DEF IInv, Sound, RowsStand, QuizzesStand, Validated, Written
  <2>3. section \in [Sections -> Status] /\ lesson \in [Lessons -> Status]
        /\ quiz \in [Quizzes -> [status : Status, valid : BOOLEAN]]
    BY <1>1 DEF IInv, TypeOK
  <2>4. \A s \in Sections :
          IF s \in op[t].sections THEN section[s] = "DRAFT" /\ section'[s] = "PUBLISHED"
          ELSE section'[s] = section[s]
    BY <2>1, <2>2, <2>3 DEF Commit, Published, AllDrafts
  <2>5. \A l \in Lessons :
          IF l \in op[t].lessons THEN lesson[l] = "DRAFT" /\ lesson'[l] = "PUBLISHED"
          ELSE lesson'[l] = lesson[l]
    BY <2>1, <2>2, <2>3 DEF Commit, Published, AllDrafts
  <2>6. \A q \in Quizzes :
          IF q \in RequiredQuizzes(op[t].lessons) THEN quiz'[q].status = "PUBLISHED"
          ELSE quiz'[q] = quiz[q]
    BY <2>1, <2>2, <2>3 DEF Commit, QuizFit, Status
  <2> QED
    BY <2>4, <2>5, <2>6
<1>2. IInv /\ [Next]_vars => [\A t \in Tx : pc[t] = "commit" /\ course'[op[t].course] # course[op[t].course] =>
       /\ \A s \in Sections :
            IF s \in op[t].sections THEN section[s] = "DRAFT" /\ section'[s] = "PUBLISHED"
            ELSE section'[s] = section[s]
       /\ \A l \in Lessons :
            IF l \in op[t].lessons THEN lesson[l] = "DRAFT" /\ lesson'[l] = "PUBLISHED"
            ELSE lesson'[l] = lesson[l]
       /\ \A q \in Quizzes :
            IF q \in RequiredQuizzes(op[t].lessons) THEN quiz'[q].status = "PUBLISHED"
            ELSE quiz'[q] = quiz[q]]_vars
  BY <1>1
<1> QED
  BY <1>2, Invariance, PTL DEF Spec, SelectionIsExact

\* A course that has been published once is never published by a selection.
THEOREM FirstPublicationsOnly == Spec => FirstPublishOnly
<1>1. IInv /\ [Next]_vars =>
        [\A t \in Tx, c \in Courses :
           pc[t] = "commit" /\ op[t].course = c /\ course'[c] # course[c] => ~course[c].published]_vars
  BY DEF IInv, Sound, ClaimStands, Claimable, Past, Locked, Validated, Written
<1> QED
  BY <1>1, Invariance, PTL DEF Spec, FirstPublishOnly

=============================================================================
