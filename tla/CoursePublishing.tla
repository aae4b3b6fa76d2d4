--------------------------- MODULE CoursePublishing ---------------------------
(***************************************************************************)
(* The lifecycle of courses, sections and lessons and of the quizzes and   *)
(* media they show (course.service.ts, course-section.service.ts,          *)
(* lesson.service.ts, quiz.service.ts), the readiness report               *)
(* (course-readiness.util.ts) and the first publication of a reviewed      *)
(* selection (course-publish-selected.service.ts).                         *)
(* Publish-selected is a long transaction, step by step here.  A granular  *)
(* transition is one conditional UPDATE that decides alone, and waits for  *)
(* the row; publishLesson also reads the content first, unlocked.          *)
(* QuizAuthoring.tla details what is one step on a quiz here.              *)
(***************************************************************************)
EXTENDS Naturals, FiniteSets

CONSTANTS
  Tx,          \* API requests being served: one database transaction each
  Courses, Sections, Lessons,
  Quizzes,     \* quiz ids, in their sort order
  Media,       \* video and document assets
  CourseOf,    \* the course of a section
  SectionOf,   \* the section of a lesson
  ContentOf,   \* what a lesson shows: a quiz or an asset
  NoTx         \* the holder of a free lock

ASSUME QuizzesAssumption == Quizzes \subseteq Nat /\ IsFiniteSet(Quizzes)

ASSUME TxAssumption == NoTx \notin Tx

ASSUME StructureAssumption ==
  /\ CourseOf \in [Sections -> Courses]
  /\ SectionOf \in [Lessons -> Sections]
  /\ ContentOf \in [Lessons -> Quizzes \cup Media]

VARIABLES
  course,      \* status, and whether publishedAt is set
  section, lesson,   \* status
  quiz,        \* status, and whether the aggregate passes the publishability rules
  media,       \* processingStatus
  lock,        \* quiz publication lock: the transaction that holds it
  pc, op       \* stage, request and reads of each transaction

rows == <<course, section, lesson, quiz, media>>
vars == <<course, section, lesson, quiz, media, lock, pc, op>>

-----------------------------------------------------------------------------
(* Rows and requests *)

Status == {"DRAFT", "PUBLISHED", "ARCHIVED"}

SectionsOf(c) == {s \in Sections : CourseOf[s] = c}

LessonsOf(c) == {l \in Lessons : CourseOf[SectionOf[l]] = c}

QuizLessons == {l \in Lessons : ContentOf[l] \in Quizzes}

\* The quizzes that a selection needs, derived from its lessons.
RequiredQuizzes(L) == {ContentOf[l] : l \in L \cap QuizLessons}

Stage == {"idle", "claim", "read", "lock", "quizzes", "sections", "lessons", "commit", "publish"}

\* The reads of the selection that lock nothing, each a statement: its sections,
\* its lessons, their assets, and the sections that its lessons are in.
Reads == {"sections", "lessons", "assets", "places"}

\* sections, lessons: the selection; unread: the reads still to do; blocked:
\* the rows read so far were unfit; drafts: the quizzes to publish with it.
Op == [course : Courses, sections : SUBSET Sections, lessons : SUBSET Lessons,
       unread : SUBSET Reads, blocked : BOOLEAN, drafts : SUBSET Quizzes]

NoOp == [kind |-> "none"]

TypeOK ==
  /\ course \in [Courses -> [status : Status, published : BOOLEAN]]
  /\ \A c \in Courses : course[c].status = "PUBLISHED" => course[c].published
  /\ section \in [Sections -> Status]
  /\ lesson \in [Lessons -> Status]
  /\ quiz \in [Quizzes -> [status : Status, valid : BOOLEAN]]
  /\ media \in [Media -> {"preparing", "ready", "failed"}]
  /\ lock \in [Quizzes -> Tx \cup {NoTx}]
  /\ pc \in [Tx -> Stage]
  /\ op \in [Tx -> Op \cup Lessons \cup {NoOp}]
  /\ \A t \in Tx : op[t] \in CASE pc[t] = "idle" -> {NoOp}
                               [] pc[t] = "publish" -> Lessons
                               [] OTHER -> Op

\* A course that has been authored and not published yet.
Init ==
  /\ course = [c \in Courses |-> [status |-> "DRAFT", published |-> FALSE]]
  /\ section = [s \in Sections |-> "DRAFT"]
  /\ lesson = [l \in Lessons |-> "DRAFT"]
  /\ quiz \in [Quizzes -> [status : {"DRAFT"}, valid : BOOLEAN]]
  /\ media \in [Media -> {"preparing", "ready"}]
  /\ lock = [q \in Quizzes |-> NoTx]
  /\ pc = [t \in Tx |-> "idle"]
  /\ op = [t \in Tx |-> NoOp]

-----------------------------------------------------------------------------
(* The rules *)

\* evaluateLessonContentBlockers: the asset is READY, or the quiz is not
\* archived and its aggregate is publishable.
QuizFit(q) == quiz[q].status # "ARCHIVED" /\ quiz[q].valid

ContentReady(l) ==
  IF l \in QuizLessons THEN QuizFit(ContentOf[l]) ELSE media[ContentOf[l]] = "ready"

\* assertLessonPublishable: of a quiz, publishLesson asks more.
LessonPublishable(l) ==
  IF l \in QuizLessons THEN quiz[ContentOf[l]].status = "PUBLISHED"
  ELSE media[ContentOf[l]] = "ready"

\* readyToPublish.lessons of the readiness report (evaluateCourseReadiness).
ReadyLessons(c) ==
  {l \in LessonsOf(c) :
     /\ section[SectionOf[l]] # "ARCHIVED"
     /\ lesson[l] = "DRAFT" /\ ContentReady(l)}

\* readyToPublish.sections: the drafts with a lesson to publish.
ReadySections(c) ==
  {s \in SectionsOf(c) : section[s] = "DRAFT" /\ \E l \in ReadyLessons(c) : SectionOf[l] = s}

\* The rows of a selection are unfit: a row is not a draft, an asset is not
\* ready, or a lesson would be published in a section that is not.
UnfitSections(S) == \E s \in S : section[s] # "DRAFT"

UnfitLessons(L) == \E l \in L : lesson[l] # "DRAFT"

UnfitAssets(L) == \E l \in L \ QuizLessons : ~ContentReady(l)

UnfitPlaces(S, L) == \E l \in L : SectionOf[l] \notin S /\ section[SectionOf[l]] # "PUBLISHED"

Unfit(S, L) == UnfitSections(S) \/ UnfitLessons(L) \/ UnfitAssets(L) \/ UnfitPlaces(S, L)

-----------------------------------------------------------------------------
(* Rows that a transaction has written and not committed *)

Claimed(c) == \E t \in Tx : pc[t] \notin {"idle", "claim", "publish"} /\ op[t].course = c

SectionWritten(s) == \E t \in Tx : pc[t] \in {"lessons", "commit"} /\ s \in op[t].sections

LessonWritten(l) == \E t \in Tx : pc[t] = "commit" /\ l \in op[t].lessons

End(t) ==
  /\ pc' = [pc EXCEPT ![t] = "idle"]
  /\ op' = [op EXCEPT ![t] = NoOp]
  /\ lock' = [q \in Quizzes |-> IF lock[q] = t THEN NoTx ELSE lock[q]]

Goto(t, stage) == pc' = [pc EXCEPT ![t] = stage]

-----------------------------------------------------------------------------
(* Publish-selected *)

\* The request, for a draft course that has never been published.
Select(t) ==
  /\ pc[t] = "idle"
  /\ \E c \in Courses :
       /\ course[c].status # "ARCHIVED" /\ ~course[c].published
       /\ \E S \in SUBSET SectionsOf(c), L \in SUBSET LessonsOf(c) \ {{}} :
            op' = [op EXCEPT ![t] = [course |-> c, sections |-> S, lessons |-> L,
                                     unread |-> Reads, blocked |-> FALSE, drafts |-> {}]]
  /\ Goto(t, "claim")
  /\ UNCHANGED <<rows, lock>>

\* Mutant of Claimable: that the course has been published before is not asked.
ClaimableDraft(c) == course[c].status = "DRAFT"

\* The condition of the first UPDATE.
Claimable(c) == course[c].status = "DRAFT" /\ ~course[c].published

\* The course row is claimed before anything else is read.
Claim(t) ==
  /\ pc[t] = "claim" /\ ~Claimed(op[t].course)
  /\ IF Claimable(op[t].course) THEN Goto(t, "read") /\ UNCHANGED <<op, lock>> ELSE End(t)
  /\ UNCHANGED rows

\* Mutant of AfterRead: the quizzes are read without their locks.
AfterReadUnlocked(L) == "quizzes"

\* The quizzes of the selection are locked before they are read.
AfterRead(L) == IF RequiredQuizzes(L) = {} THEN "quizzes" ELSE "lock"

\* A read that needs the results of others finds rows fit or unfit; the verdict
\* is given after the quizzes.
Read(t, what, needs, unfit) ==
  /\ pc[t] = "read"
  /\ what \in op[t].unread /\ needs \cap op[t].unread = {}
  /\ op' = [op EXCEPT ![t].unread = @ \ {what}, ![t].blocked = @ \/ unfit]
  /\ UNCHANGED <<rows, lock>>

\* The sections and the lessons are asked for at once (Promise.all) ...
ReadSections(t) ==
  /\ Read(t, "sections", {}, UnfitSections(op[t].sections))
  /\ UNCHANGED pc

ReadLessons(t) ==
  /\ Read(t, "lessons", {}, UnfitLessons(op[t].lessons))
  /\ UNCHANGED pc

\* ... the assets as a relation of the lessons that were found ...
ReadAssets(t) ==
  /\ Read(t, "assets", {"lessons"}, UnfitAssets(op[t].lessons))
  /\ UNCHANGED pc

\* ... and last the sections of the lessons that were not submitted.
ReadPlaces(t) ==
  /\ Read(t, "places", Reads \ {"places"}, UnfitPlaces(op[t].sections, op[t].lessons))
  /\ Goto(t, AfterRead(op[t].lessons))

Unlocked(t) == {q \in RequiredQuizzes(op[t].lessons) : lock[q] # t}

\* Mutant of NextQuiz: one lesson after the other, as the request names them.
NextQuizUnsorted(t) ==
  ContentOf[CHOOSE l \in op[t].lessons \cap QuizLessons : ContentOf[l] \in Unlocked(t)]

\* deriveSortedRequiredQuizIds: the locks are taken in the order of the ids.
NextQuiz(t) == CHOOSE q \in Unlocked(t) : \A r \in Unlocked(t) : q <= r

LockQuiz(t) ==
  /\ pc[t] = "lock"
  /\ lock[NextQuiz(t)] = NoTx
  /\ lock' = [lock EXCEPT ![NextQuiz(t)] = t]
  /\ Goto(t, IF Cardinality(Unlocked(t)) = 1 THEN "quizzes" ELSE "lock")
  /\ UNCHANGED <<rows, op>>

\* The quizzes are read and validated, and the drafts among them written.
ReadQuizzes(t) ==
  LET required == RequiredQuizzes(op[t].lessons)
  IN /\ pc[t] = "quizzes"
     /\ IF op[t].blocked \/ \E q \in required : ~QuizFit(q)
        THEN End(t)
        ELSE /\ op' = [op EXCEPT ![t].drafts = {q \in required : quiz[q].status = "DRAFT"}]
             /\ Goto(t, "sections")
             /\ UNCHANGED lock
     /\ UNCHANGED rows

\* Mutant of AllDrafts: the number of updated rows is not compared.
AllDraftsUncounted(S, status) == TRUE

\* Every row still is a draft: the number of updated rows is compared.
AllDrafts(S, status) == \A x \in S : status[x] = "DRAFT"

WriteSections(t) ==
  /\ pc[t] = "sections"
  /\ IF AllDrafts(op[t].sections, section)
     THEN Goto(t, "lessons") /\ UNCHANGED <<op, lock>>
     ELSE End(t)
  /\ UNCHANGED rows

WriteLessons(t) ==
  /\ pc[t] = "lessons"
  /\ \A l \in op[t].lessons : ~LessonWritten(l)
  /\ IF AllDrafts(op[t].lessons, lesson)
     THEN Goto(t, "commit") /\ UNCHANGED <<op, lock>>
     ELSE End(t)
  /\ UNCHANGED rows

Published(S, status) ==
  [x \in DOMAIN status |-> IF x \in S /\ status[x] = "DRAFT" THEN "PUBLISHED" ELSE status[x]]

Commit(t) ==
  /\ pc[t] = "commit"
  /\ course' = [course EXCEPT ![op[t].course] = [status |-> "PUBLISHED", published |-> TRUE]]
  /\ section' = Published(op[t].sections, section)
  /\ lesson' = Published(op[t].lessons, lesson)
  /\ quiz' = [q \in Quizzes |->
                IF q \in op[t].drafts THEN [quiz[q] EXCEPT !.status = "PUBLISHED"] ELSE quiz[q]]
  /\ End(t)
  /\ UNCHANGED media

\* A timeout, a lost connection or a crash of the API process.
Rollback(t) ==
  /\ pc[t] # "idle"
  /\ End(t)
  /\ UNCHANGED rows

-----------------------------------------------------------------------------
(* Granular transitions *)

\* publish, unpublish, archive and restore, as the conditional UPDATEs allow.
Transition(from, to) ==
  \/ from = "DRAFT" /\ to \in {"PUBLISHED", "ARCHIVED"}
  \/ from = "PUBLISHED" /\ to \in {"DRAFT", "ARCHIVED"}
  \/ from = "ARCHIVED" /\ to = "DRAFT"

\* publishCourse sets publishedAt, and no transition clears it.
PublishedOnce(c, to) == course[c].published \/ to = "PUBLISHED"

ChangeCourse(c) ==
  /\ ~Claimed(c)
  /\ \E to \in Status :
       /\ Transition(course[c].status, to)
       /\ course' = [course EXCEPT ![c] = [status |-> to, published |-> PublishedOnce(c, to)]]
  /\ UNCHANGED <<section, lesson, quiz, media, lock, pc, op>>

ChangeSection(s) ==
  /\ ~SectionWritten(s)
  /\ \E to \in Status :
       /\ Transition(section[s], to)
       /\ section' = [section EXCEPT ![s] = to]
  /\ UNCHANGED <<course, lesson, quiz, media, lock, pc, op>>

\* unpublishLesson, archiveLesson, restoreLesson.
ChangeLesson(l) ==
  /\ ~LessonWritten(l)
  /\ \E to \in {"DRAFT", "ARCHIVED"} :
       /\ Transition(lesson[l], to)
       /\ lesson' = [lesson EXCEPT ![l] = to]
  /\ UNCHANGED <<course, section, quiz, media, lock, pc, op>>

\* publishLesson: the lesson and its content are read ...
CheckLesson(t) ==
  /\ pc[t] = "idle"
  /\ \E l \in Lessons :
       /\ lesson[l] = "DRAFT" /\ LessonPublishable(l)
       /\ op' = [op EXCEPT ![t] = l]
  /\ Goto(t, "publish")
  /\ UNCHANGED <<rows, lock>>

\* ... and the lesson is published if it still is a draft.
PublishLesson(t) ==
  /\ pc[t] = "publish" /\ ~LessonWritten(op[t])
  /\ lesson' = Published({op[t]}, lesson)
  /\ End(t)
  /\ UNCHANGED <<course, section, quiz, media>>

\* publishQuiz, unpublishQuiz, archiveQuiz, restoreQuiz, under the quiz lock.
ChangeQuiz(q) ==
  /\ lock[q] = NoTx
  /\ \E to \in Status :
       /\ Transition(quiz[q].status, to)
       /\ to = "PUBLISHED" => quiz[q].valid
       /\ quiz' = [quiz EXCEPT ![q] = [status |-> to, valid |-> quiz[q].valid]]
  /\ UNCHANGED <<course, section, lesson, media, lock, pc, op>>

\* A question or an option changes, under the quiz lock: a published quiz
\* remains publishable, an archived one is not touched.
EditQuiz(q) ==
  /\ lock[q] = NoTx
  /\ quiz[q].status = "DRAFT"
  /\ quiz' = [quiz EXCEPT ![q] = [status |-> "DRAFT", valid |-> ~quiz[q].valid]]
  /\ UNCHANGED <<course, section, lesson, media, lock, pc, op>>

\* Mutant of Progress: a failure report is accepted whatever the status.
ProgressWithLateFailure(from, to) == to # "preparing" /\ to # from

\* The conditions of the webhook and upload confirmation updates: READY ends it.
Progress(from, to) ==
  \/ from = "preparing" /\ to \in {"ready", "failed"}
  \/ from = "failed" /\ to = "ready"

ChangeMedia(m) ==
  /\ \E to \in {"preparing", "ready", "failed"} :
       Progress(media[m], to) /\ media' = [media EXCEPT ![m] = to]
  /\ UNCHANGED <<course, section, lesson, quiz, lock, pc, op>>

-----------------------------------------------------------------------------
Serve(t) ==
  \/ Select(t) \/ Claim(t)
  \/ ReadSections(t) \/ ReadLessons(t) \/ ReadAssets(t) \/ ReadPlaces(t)
  \/ LockQuiz(t) \/ ReadQuizzes(t)
  \/ WriteSections(t) \/ WriteLessons(t) \/ Commit(t) \/ Rollback(t)
  \/ CheckLesson(t) \/ PublishLesson(t)

Change ==
  \/ \E c \in Courses : ChangeCourse(c)
  \/ \E s \in Sections : ChangeSection(s)
  \/ \E l \in Lessons : ChangeLesson(l)
  \/ \E q \in Quizzes : ChangeQuiz(q) \/ EditQuiz(q)
  \/ \E m \in Media : ChangeMedia(m)

Next == (\E t \in Tx : Serve(t)) \/ Change

Spec == Init /\ [][Next]_vars

-----------------------------------------------------------------------------
(* Properties *)

\* A quiz that is published, on its own or with a selection, satisfies the
\* publishability rules: publish-selected is as safe against concurrent
\* authoring as publishQuiz.
PublishedQuizzesAreValid == \A q \in Quizzes : quiz[q].status = "PUBLISHED" => quiz[q].valid

\* A published video or document lesson can be played or opened for as long
\* as it is published, although its asset was checked by an unlocked read: READY
\* is final (docs/MEDIA.md:555), whatever course-readiness.util.ts:96 supposes.
PublishedMediaIsReady ==
  \A l \in Lessons \ QuizLessons : lesson[l] = "PUBLISHED" => media[ContentOf[l]] = "ready"

\* A commit of publish-selected publishes all of the reviewed selection and
\* nothing else, whatever was archived, published or edited since it was
\* read, and every quiz of a published lesson with it.
SelectionIsExact ==
  [][\A t \in Tx : pc[t] = "commit" /\ course'[op[t].course] # course[op[t].course] =>
       /\ \A s \in Sections :
            IF s \in op[t].sections THEN section[s] = "DRAFT" /\ section'[s] = "PUBLISHED"
            ELSE section'[s] = section[s]
       /\ \A l \in Lessons :
            IF l \in op[t].lessons THEN lesson[l] = "DRAFT" /\ lesson'[l] = "PUBLISHED"
            ELSE lesson'[l] = lesson[l]
       /\ \A q \in Quizzes :
            IF q \in RequiredQuizzes(op[t].lessons) THEN quiz'[q].status = "PUBLISHED"
            ELSE quiz'[q] = quiz[q]]_vars

\* A course that has been published, even one taken offline in the meantime,
\* is never published by publish-selected: of several concurrent requests at
\* most one succeeds.
FirstPublishOnly ==
  [][\A t \in Tx, c \in Courses :
       pc[t] = "commit" /\ op[t].course = c /\ course'[c] # course[c] => ~course[c].published]_vars

\* What readiness offers, publish-selected accepts: any choice of the offered
\* lessons with their draft sections passes the revalidation.
OfferedSelectionsAreFit ==
  \A c \in Courses : \A L \in SUBSET ReadyLessons(c) :
    /\ ~Unfit({s \in ReadySections(c) : \E l \in L : SectionOf[l] = s}, L)
    /\ \A q \in RequiredQuizzes(L) : QuizFit(q)

\* The transactions that t waits for.
WaitsFor(t) ==
  CASE pc[t] = "claim" -> {u \in Tx \ {t} : pc[u] \notin {"idle", "claim", "publish"}
                                              /\ op[u].course = op[t].course}
    [] pc[t] = "lock" -> {lock[NextQuiz(t)]} \ {NoTx}
    [] OTHER -> {}

\* Publications of courses that share quizzes never wait for each other.
NoMutualWait == \A t, u \in Tx : ~(u \in WaitsFor(t) /\ t \in WaitsFor(u))

=============================================================================
