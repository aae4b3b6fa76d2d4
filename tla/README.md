# Edvora: a TLA+ verification of the platform's core

Edvora is a course platform: a NestJS API (`src/apps/api`) over PostgreSQL through
Prisma, a Next.js web client (`src/apps/web`) and an Expo mobile client
(`src/apps/mobile`). Everything that decides anything is in the API, in services that
turn one HTTP request into a few reads and one database transaction. Several instances
of the API serve requests at the same time and share nothing but the database, an
object store and the video provider. So the hard question is always the same one:
*what do two overlapping requests do to the same rows?* No test of the repository can
schedule the statements of two transactions; these models do.

## How the code is abstracted

* **A request is a process** (`t \in Tx`). `pc[t]` says how far it is and `op[t]` what
  it was asked. It leaves `"idle"` by the reads it makes before its transaction and
  returns there by a commit or a rollback. `Tx` bounds the requests *in flight*, not
  those served: a slot is used again and again.
* **PostgreSQL is READ COMMITTED.** No call in the code sets an isolation level. Each
  statement sees what is committed when it starts, the writes of a transaction are
  staged in it and become visible together at its commit. An `UPDATE ... WHERE` takes its
  rows from what was committed when it started, waits for them one by one, and decides
  again on a row as it is after the wait; it does not see rows committed meanwhile.
* **Statements are merged only when nothing can come between them**: under a lock that
  every writer of the rows takes, or when the later ones read what no other request
  changes. Where the code reads without a lock, the read is a step of its own.
* **`pg_advisory_xact_lock`** is a variable with the transaction that holds it (or
  `NoTx`); it is given back by the commit or rollback, never earlier.
* **Row locks and unique index entries** are explicit where they decide something:
  `AuthSessions` (rows that an `UPDATE` has written), `SiblingOrder`, `AccountActivation`
  and `Enrollments` (rows and index entries).
* **A rollback is possible at any step** of a transaction: a lost connection, a crash
  of the instance, a deadlock broken by the server, a refused constraint. Where a request
  holds nothing outside the database, a crash is exactly that. The handlers of media
  assets call a store and a provider between their statements; there a crash at any
  point leaves what was done so far (`DocumentUpload.Fail`, `VideoUpload.Crash`).
* **Clients and networks** are explicit where the code handles their failures:
  uploads that arrive twice or late, webhooks that are repeated and reordered, answers
  that are lost (`ClientSessions`).
* Texts, titles, identifiers' formats, hashing and the wording of errors are left
  out. A hash stands for what it hashes, a number for what its comparisons tell apart.

## Inventory

| component | state it keeps | operations | what makes it correct |
|---|---|---|---|
| Quiz authoring (`modules/quizzes/services/quiz.service.ts`, `question*.service.ts`, `quiz-publishability.util.ts`) | quizzes, questions, options; advisory locks by quiz and by question | create, update, publish, unpublish, archive, restore a quiz; create and update questions and options; two reorders | a published quiz is publishable whatever the authors do together; an archived one is frozen; the two locks never deadlock |
| Quiz attempts (`student-quiz-attempt.service.ts`) | attempts with a frozen copy of the quiz, answers; two families of advisory locks | start, save answer, submit | the attempt limit, the numbers, the grade from the frozen copy, progress that was earned, nothing after grading |
| Student devices (`modules/devices`) | device rows, change requests; lock by student; two partial unique indexes | authorize the first, request, approve, reject, check | exactly one active device from the first on; it moves only by an approved request |
| Sessions and passwords (`modules/auth/services`) | credential, refresh sessions, reset tokens | login with rehash, refresh with rotation and replay detection, logout, logout all, change password, issue and complete a reset | one chain of tokens; no session survives its password; a reset is used once |
| Account activation and onboarding (`account-activation-token.service.ts`, `tenancy/services`) | users, tenants, rosters, activation codes; lock by account; unique addresses and slugs | create an instructor with a tenant, issue a code anew, add a student, activate | an instructor has one way in, nobody is locked out |
| Sibling ordering (`course-section.service.ts`, `lesson.service.ts`) | positions under a unique index | create, archive, restore, reorder | distinct, dense positions; a reorder is what was asked |
| Course lifecycle and publication (`course*.service.ts`) | status of courses, sections, lessons | granular transitions, readiness report, publish-selected | what is published is fit to be shown; a first publication is exactly the reviewed selection |
| Course access and progress (`student-course-access.service.ts`) | lesson progress | complete a lesson; entitlement checks | progress only for the entitled, never overwritten |
| Enrollment, notifications (`enrollment.service.ts`, `notifications`) | enrollments, notifications; a partial unique index | create (with the expiry of an old one), revoke, mark as read | one active enrollment per student and course; it is announced, and an end is an end |
| Media assets (`media-asset.service.ts`, the web's upload flows) | rows of assets; the temporary and final objects of a store; the video provider and its webhooks | upload intents, confirmation of a document, five kinds of webhook | READY is final and true of what is stored; a failure costs no upload |
| Tenancy, authorization, token signing, hashing, cookies | none that changes | checks and computations | - |
| Web and mobile clients (`apps/web/src/lib/api/auth.ts`, `apps/mobile/src/features/auth`) | two cookies that all tabs share; two keys of a secure store; an access token in memory | login, refresh on a 401 or at start, logout | the client keeps the newest token of its session, and is not taken for a thief |

Interactions: publish-selected takes the *same* advisory lock as quiz authoring, for
each quiz of the selection; attempts read the quiz that authoring changes, without its
lock, and copy it; attempts write the progress that course access reads, in the
enrollment that another request may just have revoked; lessons depend on assets that
webhooks move; every password operation revokes sessions that refreshes are rotating;
the clients present the tokens that these refreshes hand out, over a network that may
lose the answer; enrollments need the roster that account onboarding fills.

`PROJECT.json` lists every component with its files and every hazard at its line,
the uncovered ones with the reason.

## Modules

| module | models | state and actions |
|---|---|---|
| `QuizAuthoring` | quiz authoring | `quiz` holds one aggregate (row, questions, options) per quiz. `Begin`, `AcquireQuizLock`, `AcquireQuestionLock`, `Execute` (the reads and checks, `Permitted`, `Accepted`), `Commit` (`After`), `Rollback`. `NextStage` is the order in which an operation takes its locks. |
| `QuizAttempts` | attempts of one student at one quiz, with authoring, enrollment and revocation around them | `Begin` is the entitlement check before the transaction; `ReadQuiz`, `ReadQuestions`, `ReadOptions` are the three statements of the snapshot; `ReadForAnswer`, `ReadForGrading`, the commits, `Author`, `Enroll`, `Unenroll`. `gradedUnder` of a row is a history variable: the enrollment that entitled the request which graded it, for `ProgressIsEarned`. |
| `DeviceBinding` | what device authorization promises | the abstract specification: `BindFirst`, `Ask`, `Approve`, `Reject`. |
| `StudentDevices` | device authorization | `Begin`, `AcquireLock`, `Execute` (`Decision`), `Commit` (`DevicesAfter`, `RequestsAfter`, `IndexesAllow`), `Rollback`, and the status check in three statements. |
| `AuthSessions` | the sessions and password of one account, inside the server | one action per statement that can wait: `Login`, `WriteCredential`, `CommitLogin`, `Refresh`, `WriteSession`, `CommitRefresh`, `GraceEnds`, `Logout`, `LogoutAll`, `Change`, `Reset`, `ConsumeReset`, `RevokeSessions`, `Issue`, ... The `UPDATE` that revokes sessions is two actions, as in PostgreSQL: `RevokeSessions` takes its rows from the snapshot it starts with, `RevokeSession` reaches one of them, waits for its lock and looks again; so are `WithdrawResets` and `WithdrawReset`. A login that commits while the rows are waited for escapes. |
| `RefreshSessions` | identifiers | the rows of `refresh_sessions` that the next two modules share. |
| `ClientSessions` | the same handlers as the clients meet them | two tabs over one cookie jar, or the mobile application. A call is sent, served and answered in separate steps; either half may be lost (`Lose`, `Vanish`), a client restarts (`Restart`), the application stops between the two writes of its store (`StopWhileSaving`). A transaction of the server is one step. |
| `ChildList` | what a parent promises about its children | the abstract specification, a sequence: `Add` at the end, `Rearrange`, `Hide`, `Show`; no child is ever removed. |
| `SiblingOrder` | children of one parent | `locked` and `written` are the row locks and index entries of a transaction. `Create`, `Insert`, `Reorder` and its two phases row by row, `Archive`, `Restore`. |
| `CoursePublishing` | lifecycle and publication | `Serve` is publish-selected (claim the course, read the selected sections, lessons, their assets and the sections they are in, each by a statement of its own, take the quiz locks in their sort order, validate, three bulk updates, commit) and publishLesson's check then act; `Change` is every granular transition, edit of a quiz and report on an asset. |
| `AssetLifecycle` | what a media asset promises to the lessons that show it | the abstract specification: preparing becomes ready or failed, failed may become ready, ready is for ever. |
| `DocumentUpload` | the upload of one document | the browser's flow (`phase`), PUTs that are under way (`transit`), the row, the temporary and the final object. A confirmation is `FindRow`, `HeadTemporary`, `Promote`, `VerifyFinal`, `RecordReady`, `Recheck`, `DeleteTemporary` and the branches that refuse; it fails or crashes after any of them. |
| `VideoUpload` | the upload and processing of one video | the browser's flow (`view`), the provider, `mail` (reports that may be delivered again, in any order), the webhook handler statement by statement, its reads of the provider's metadata among them. |
| `MediaAssets` | either of them | composes the two and states that both implement `AssetLifecycle`. |
| `AccountActivation` | accounts, tenants, rosters and codes | one transaction per request, a step per statement (`Stages`): row locks and doubtful index entries are what a transaction `makes` and `ends`. Creating an instructor, reissuing a code, adding a student with its retry, activating; `Expire`, `Rollback`. |
| `Enrollments` | enrollments and their notices | EXTENDS `AccountActivation`: the same requests in flight (`Txs`) serve both, and an enrollment starts from the roster that onboarding filled. `CreateEnrollment` and `RevokeEnrollment` statement by statement, `ComesToAnEnd`. |
| `MC*` | small instances for TLC | symmetry; concrete course structures, file sizes and versions of a quiz; the bound on granular changes. |
| `*Proofs` | theorems | inductive invariants and proofs. |

Locks are per student, quiz, account or parent, and no row is shared between accounts
or parents, so `QuizAttempts`, `AuthSessions` and `SiblingOrder` model one of each.
What one module replaces of another is what the other shows:

* `CoursePublishing` takes from `QuizAuthoring` that a published quiz stays publishable
  (there `PublishedIsPublishable`), and its transactions are single steps under the lock;
* the assets of `CoursePublishing` move as `AssetLifecycle` does, which `MediaAssets`
  implements;
* `ClientSessions` has a refresh as one step, which `AuthSessions` justifies
  (`NewestTokenRotates`, `RevokedIsFinal`), and adds the network and the clients;
* the theorems of `AccountActivation` hold in `Enrollments`, because every behaviour of
  the second is one of the first (`AccountsGoOn`).

## Runs

Runs that pass:

| run | instance | shows |
|---|---|---|
| `quiz_authoring` | 2 requests, 1 quiz, 1 question, 2 options | `PublishedIsPublishable`, `OptionRulesHold`, `ArchivedIsFrozen`, `EveryTransactionEnds` |
| `devices` | 1 student, 3 installations, 3 change requests, 2 requests | `NeverStranded`, `PendingNamesCurrent`, `ResolvedIsFinal`, and that `StudentDevices` implements `DeviceBinding` |
| `quiz_attempts` | 2 requests, 2 attempts, 2 enrollments, 3 states of a quiz | `AttemptLimitHolds`, `NumbersNeverCollide`, `GradedFromItself`, `ProgressIsEarned`, `GradedIsFinal` |
| `auth_sessions` | 2 requests, 2 sessions, 2 reset tokens, 2 passwords, 3 refresh tokens per session | `NewestTokenRotates`, `RevokedIsFinal`, `ResetTokenIsSingleUse`, `StaleSessionsAreLate` |
| `client_sessions` | 2 tabs or the application, 2 sessions, 2 calls | `InStep`: unless an answer was lost, two tabs refreshed at once, or an error or a login made the client let go, it has the current token of its ACTIVE session; `ReplayedForCause`: only a lost answer or a rival sets off replay detection |
| `sibling_order` | 2 requests, 3 children | `PositionsAreDense`, `ReorderIsHonoured`, and that `SiblingOrder` implements `ChildList` |
| `course_publishing` | 2 requests, 2 courses with 5 lessons on 2 shared quizzes and 1 video, 1 granular change | `PublishedQuizzesAreValid`, `PublishedMediaIsReady`, `SelectionIsExact`, `FirstPublishOnly`, `NoMutualWait` |
| `media_assets` | 1 document with 2 files and 2 confirmations, or 1 video with 2 webhook requests | `ReportsAreTrue`, `ReadyIsComplete`, `UploadIsKept`, `SoleConfirmationIsSafe`, `FinishedBecomesReady`, and that both implement `AssetLifecycle` |
| `roster` | 1 address, 1 tenant with a course, 2 codes, 2 enrollments, 2 requests | `InstructorHasOneWayIn`, `EveryoneHasAWayIn`, `OneEnrollmentAtATime`, `Announced`, `EndedStaysEnded` |

Runs whose property TLC refutes, each one a disagreement of the code with a sentence of
the repository:

| run | property | what happens |
|---|---|---|
| `quiz_attempts_torn` | `FrozenAtOneInstant` | an authoring commit falls between the statements of the snapshot; the attempt is frozen from two states of the quiz |
| `auth_stale` | `SessionsMatchPassword` | a login that verified the old password inserts its session after the password change revoked the others. `StaleSessionsAreLate`, which holds, says that this is the only way |
| `sibling_append` | `AppendPositionIsFree` | after the last sibling is archived, the position a creation computes is the archived row's |

### Bounds, and why they are enough

Two requests in flight are what every hazard of the list needs: each is a pair of
transactions, or one transaction and single-statement changes around it. A third
would wait for the same lock. Identifiers come in the smallest number that
allows the next one to differ: three installations (the active one, the one asked for,
another), two attempts (a limit and a number that could collide), two enrollments
(before and after a revocation), three children (a reorder that is not a swap), two
options (a question may have two right ones, or lose the one that made it publishable),
two codes (a reissue leaves one of two), two files of different sizes (the one that was
declared, and one that must be refused). `MaxTokens` = 3 lets a replayed
token be the previous one or an older one. The two courses of `course_publishing`
show the quizzes in opposite orders, which is what a deadlock would need. Any part of
the first may be selected; the second is selected as a whole (`WholeB`), since what a
part of a course does is seen on the first. `MaxChanges` = 1 allows one granular change
at any point of two publications. `quiz_authoring` has one question, since its
liveness property costs time; the theorems hold for any number.

Four runs do not check for deadlock, because their system really stops: the granular
changes of `course_publishing` run out (there `NoMutualWait` states deadlock freedom
directly), an upload that is over stays over, and the sessions of `client_sessions`, the
codes and the enrollments of `roster` are used once each. All the others check it.
The theorems below do not depend on any of these bounds.

### Fairness

Two properties are liveness properties.

* `EveryTransactionEnds` (`QuizAuthoring.FairSpec`). `Execute` and `Commit` are weakly
  fair: a transaction that can go on does. The lock acquisitions are strongly fair: the
  server keeps a queue per lock, so a waiter is not overtaken for ever. Nothing else is
  assumed: a client need not send anything (`Begin`) and nothing need fail (`Rollback`).
  The property depends on the order of the two locks; its mutant, which reverses it
  for one operation, deadlocks.
* `FinishedBecomesReady` (`VideoFairness`). The provider sends its last report until a
  request has served it (strong fairness of `DeliverReport(d, "finished")`), a request
  takes its next step unless the instance stops (weak fairness of `Handle`), and an
  instance does not stop at the same point of the same request for ever (strong fairness
  of `Measure` and `FinishVideo`). Reports may still be repeated and reordered without
  limit, and a metadata read may always be stale. The browser and the other reports
  are not assumed to do anything.

## Divergences

Three sentences of the repository have a run that refutes them (above, and "findings" in
`PROJECT.json`). The following were met while modelling; where a formula is named it
stands in the module, with no run of its own.

* `AuthSessions.RehashKeepsPassword`: `docs/AUTHENTICATION.md:154` wants the rehash "in
  the same authenticated flow". `auth-orchestration.service.ts:92` rehashes the password
  that was verified before the transaction, with no condition on the row: a login that
  overlaps a change of the password brings the old one back.
* `SiblingOrder.NoMutualWait`: the comment at `course-section.service.ts:369` says that two
  overlapping reorders race for positions and that one ends in a "known expected
  uniqueness conflict", which is caught. They can also wait for each other's row and
  index entry; the server breaks that with another error, which is not caught.
* `DocumentUpload.FinalizedIsFrozen`: `docs/MEDIA.md:200` says that after READY nothing
  mutates the final object. A second confirmation that was past its check of the row
  copies the temporary object again. `SoleConfirmationIsSafe` holds, and says that this
  takes overlapping confirmations.
* The comment at `course-readiness.util.ts:94` wants diagnostics of "already-published
  Course content too, e.g. a previously-`READY` video that later moved to `FAILED`". No
  statement does that: `docs/MEDIA.md:555` and the conditions of
  `media-asset.service.ts` make READY final. `PublishedMediaIsReady` and the refinement of
  `AssetLifecycle` follow them, and contradict the comment.
* `Enrollments.RevokesOnlyActive`: `docs/TENANCY-ENROLLMENT.md:109` says that revoking
  "revokes only active enrollments". `enrollment.service.ts:207` updates by id the row that
  line 197 read as ACTIVE: one that a creation has expired in between becomes REVOKED, and
  one that has just been revoked gets a second date and author. `EndedStaysEnded` allows it.
* `docs/MEDIA.md:538` says that status 4 (one resolution) is not READY.
  `media-asset.service.ts:394` promotes on status 4 when the provider's metadata shows
  encoding at 100%, a duration, at least one resolution and no failure
  (`isResolutionFinishedGenuinelyComplete`, `:670`); `ReadyIsComplete` is what holds of it.
* `docs/AUTHENTICATION.md:451` says that a logout revokes the session and clears the
  cookie. With an expired access token the guard answers first: it does neither, while
  the web client forgets its token and says goodbye.
* `auth-client.ts:50` keeps a stored mobile session unless it is "genuinely done". Any answer
  that is not a success ends it, a 429 or a 500 among them (`ServeBadly`, `ReceiveEnd`).
* `session-storage.ts:4` reads a half-written session as none. When the write goes over
  an earlier session, the half that is there belongs to another one, and the pair is read as
  complete (`StopWhileSaving`); replay detection may then end the newer session.
* A tab whose access token has expired refreshes with whatever cookie there is: after a
  login in another tab it goes on as that other account (`BeginRefresh` on the shared `store`).
* `account-activation-token.service.ts:35` says that the lock makes its reads "always
  fresh". The time that expiry is judged by is taken at line 122, before the wait for the
  lock at line 138 (`late` in `AccountActivation`), so a code that expired during
  the wait is accepted. `InstructorHasOneWayIn` therefore excepts a code that had expired.

## Proofs

`tlapm` proves, for every number of requests, rows, questions, lessons and so on:

| module | theorems |
|---|---|
| `QuizAuthoringProofs` | types, `PublishedIsPublishable`, `OptionRulesHold`, `ArchivedIsFrozen` |
| `StudentDevicesProofs` | types, `NeverStranded`, `PendingNamesCurrent`, `ResolvedIsFinal`, and the refinement of `DeviceBinding` |
| `QuizAttemptsProofs` | types, `AttemptLimitHolds`, `NumbersNeverCollide`, `GradedFromItself`, `ProgressIsEarned`, `GradedIsFinal`, `CompletedOnce` |
| `CoursePublishingProofs` | types, `PublishedQuizzesAreValid`, `PublishedMediaIsReady`, `OfferedSelectionsAreFit`, `NoMutualWait`, `SelectionIsExact`, `FirstPublishOnly` |
| `SessionsProofs` | of `AuthSessions`: types, `StaleSessionsAreLate`, `ResetTokenIsSingleUse`, `RevokedIsFinal`, `NewestTokenRotates`; of `ClientSessions`: types, `InStep`, `ReplayedForCause` |
| `SiblingOrderProofs` | types, `PositionsAreDense`, `ReorderIsHonoured`, and the refinement of `ChildList` |
| `MediaAssetsProofs` | types, `ReportsAreTrue`, `ReadyIsComplete`, `UploadIsKept`, `SoleConfirmationIsSafe`, and the refinement of `AssetLifecycle` |
| `EnrollmentsProofs` | of `AccountActivation`: types, `InstructorHasOneWayIn`, `EveryoneHasAWayIn`; of `Enrollments`: the same, types, `OneEnrollmentAtATime`, `Announced`, `EndedStaysEnded` |

They rest on the named assumptions of the modules only: `NoTx`, `None` and `Others` are
not identifiers (`None` not a refresh token either), the sets counted are finite, every
lesson has a section, every section a course, every course a tenant, every file a size,
quiz ids are ordered like numbers. `OfferedSelectionsAreFit` (what the readiness report offers,
publish-selected accepts) and `CompletedOnce` are proved and in no run.

None of the properties is inductive: they say nothing about the transactions that are
under way. The inductive invariants of the first four modules (`IInv`) have the same
shape. They add that (1) a transaction past its lock step holds the lock (`QuizLockHeld`,
`LockHeld`, `LocksHeld`), so a lock has one such holder; and (2) *what it read and decided
is still true when it commits* (`ChecksStillHold`, `DecisionStands`, `RoomRemains` and
`ReadStands`, `QuizzesStand` and `MediaStand` and `RowsStand`). (2) is kept by the
transaction's own step because it has just checked, and by the steps of all the others
because they would need the lock (or, for an asset, because READY is final; or, for
an unpublished course, because only one publication has claimed it, `AloneOnCourse`).
The property then follows at a commit from (2). `NoMutualWait` follows from
`LocksOrdered`: the quizzes a publication holds are below the one it waits for. The
refinement maps `bound` to the active installation and `wanted` to the one of the
pending request (`OneActive`, `PendingUnique`), a commit to the abstract operation, and
everything else to a stutter.

The others have no advisory lock to lean on, or not only:

* `IInv` of `AuthSessions` has, for each request, `KindFits` (its stage is one of its
  kind), `LocksHeld` (it holds the rows it has written) and `RowsStand` (what it found of
  them is still so). The last conjunct of `RowsStand` carries `StaleSessionsAreLate`: from
  the moment a replacement of the password has taken its snapshot, an ACTIVE session is
  one that it still has to reach (`due`), one that it has written (`gone`), its own, or the
  session of a login marked late; the lock on the credential keeps a second
  replacement out. That a step leaves another request what it relies on (`Spared`) is
  shown once per action.
* `MediaInv`. `DocumentInv` says what a confirmation may rely on at each stage: the
  temporary object is there until the row is READY, and the final one once it was
  verified. `SoleInv` says that, as long as no two confirmations overlapped, the one that
  has passed its check of the row is alone, so nothing copies after READY.
  `VideoInv` ties each stage of a webhook request to what the provider had done when the
  report was sent, which never goes back. The refinement follows: the only assignments of
  a status are guarded by "not READY" in the statement that writes.
* `AccountInv` is `RowsInv` on the rows, `Sound` on each request (what it has written and
  revoked is what its stage allows) and `Compatible` on each two (no row locked, no index
  entry in doubt and no account locked by both; a code that one has seen is not one that
  the other has inserted). An `UPDATE` that revokes the outstanding codes leaves none that
  it did not see, because an insert would need the lock of the account.
* `EnrollmentInv` is the same over enrollments (`RowsStand`, `Stands`, `Apart`): two
  requests that have found room for an enrollment hold the same index entry, so there are
  not two.
* `SiblingOrderProofs.IInv`. `PositionsAreDense` is about the committed rows; what keeps
  it is what holds of a transaction that is under way. `WritesStand`: it has locked what it
  has written, and sees no other row there. `CreationStands`: a creation writes one fresh
  row, at most one place after the last. `ReorderStands`: a reorder locks submitted rows
  only, all of them once it places them, and those it has placed are where they belong, at
  positions in use. `Apart`: no row is locked by two transactions, no position entered by
  two. A commit of a creation adds the position after the last, because any other is taken
  by a row that it sees. A commit of a reorder permutes the positions of its rows: the
  final ones are in use, and nobody else's row is at one of them.
  The lemmas about sorted and highest positions (`Sortable`, `AscendingSorts`, `Highest`,
  `PositionsAreFinite`, `LastIsHighest`) rest on the library's theorems about cardinality,
  injections and surjections. The refinement maps the list to the row at each position
  (`InOrder`), which `PlacesAreTaken` shows to be a sequence without repetitions as long as
  positions are dense; `CreationAppends` and `ReorderKeepsRows` then say what a commit does
  to it, and neither writes the status of a row that was there.
* `ClientInv`. `InStep` says nothing of a token that is under way for a second call.
  `HasOneToken` adds that, while a session has not raced, one call at most carries a
  token of it, somebody waits for that call, the token is the current one, and the stored
  token is current too or is being exchanged by that call; `OpenedUnseen` that nobody
  knows a session before its login is answered. A new refresh keeps this because its own
  client has none under way and a rival marks the session. Most steps only let go
  of tokens or make other sessions' tokens old: `Spares` is what they have in common, and
  `SparedFollows` is shown once for all of them. `Refuse` of an ACTIVE session contradicts
  `HasOneToken` unless it has raced, which is `ReplayedForCause`.

Only model-checked: the two liveness properties (`EveryTransactionEnds`,
`FinishedBecomesReady`), which are out of the prover's reach. The three properties that
are refuted have no theorem, of course. No theorem is about what a
recursive definition computes; the modules have no RECURSIVE operator.

## What is not modelled

* Queries and lists: they change nothing. The exceptions are those whose statements can
  disagree (the device status check) or that gate something (entitlement, readiness).
* Signed URLs of media for students (`media delivery`): they are computed after the
  access checks, expire by a clock at the store, and no row remembers them.
* Expiry of sessions and grace windows as clocks: a row that expires is one that
  nobody uses. The grace window for a retried refresh is a step (`GraceEnds`), the expiry
  of codes and enrollments too (`Expire`, `ComesToAnEnd`).
* Deactivated accounts: no code under `src/` changes `accountStatus` away from ACTIVE.
* Marking a notification as read: one idempotent UPDATE.
* Reorders of questions and options (the two phases of `SiblingOrder`, here under the
  quiz or question lock, where nothing can come between them), and the interplay of
  reorders of lessons with the bulk updates of publish-selected.
* Completing a lesson that is not a quiz: the same upsert as in `QuizAttempts`, whose
  `update` branch writes nothing.
* Stateless code: signing, hashing, DTO validation (its outcome is `Accepted`),
  pagination, configuration, error mapping, the one-shot administrator bootstrap.
* The rest of the clients: rendering, forms, translations, navigation, and dialogs that
  make one call each behind a disabled button.
* The provider, the object store and PostgreSQL are modelled as the code relies on them.

The implementation has far more lines than these models map: most of them are
integration tests, translations, page and screen layouts, DTOs and mappers, which no
state machine stands for.

## Plan

The order followed: what students and instructors do concurrently to the same quiz
first (`QuizAuthoring`, `QuizAttempts`), then the one-device rule with its abstract
specification, sessions, ordering, publication; then media with its lifecycle, accounts,
enrollments on top of them, and the clients. What is left:

1. Reorders of questions and options in `QuizAuthoring` (positions under its lock).
2. `CourseProgress`: completing lessons and reading progress during revocation and
   publication changes.
