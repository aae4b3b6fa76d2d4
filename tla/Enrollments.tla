------------------------------ MODULE Enrollments ------------------------------
(***************************************************************************)
(* Enrollments of the students of a roster in the courses of its tenant    *)
(* (enrollment.service.ts) and the notices that tell them                  *)
(* (notification.service.ts), beside the requests of AccountActivation     *)
(* that fill the roster.  The same pool of requests serves both.           *)
(***************************************************************************)
EXTENDS AccountActivation

CONSTANTS
  Courses,
  CourseTenant,   \* the tenant that each of them belongs to
  Enrollments     \* rows of enrollments

ASSUME CoursesAssumption == CourseTenant \in [Courses -> Tenants]
ASSUME RowsAssumption == None \notin Enrollments

VARIABLES
  enrollment,     \* rows of enrollments
  notified,       \* those that the student has a notification about
  request         \* the transactions in flight on them

enrollmentVars == <<enrollment, notified, request>>

-----------------------------------------------------------------------------
\* Its end, endsAt, is not set, to come, or passed.
Terms == {"open", "limited", "over"}

Enrollment == [student : Emails \cup {None}, course : Courses \cup {None},
               status : {"unused", "ACTIVE", "EXPIRED", "REVOKED"}, term : Terms]

Unused == [student |-> None, course |-> None, status |-> "unused", term |-> "open"]

EnrollmentStages == {"expire", "expiring", "look", "insert", "revoke", "commit"}

\* row: the one it creates or revokes.  seen: the rows that its UPDATE found,
\* ends: those it has expired or revoked.
EnrollmentRequest ==
  [op : {"enroll", "revoke"}, stage : EnrollmentStages, student : Emails \cup {None},
   course : Courses \cup {None}, term : Terms, row : Enrollments \cup {None},
   seen : SUBSET Enrollments, ends : SUBSET Enrollments]

EnrollmentTypeOK ==
  /\ enrollment \in [Enrollments -> Enrollment]
  /\ notified \in SUBSET Enrollments
  /\ request \in [Txs -> EnrollmentRequest \cup {None}]

EnrollmentInit ==
  /\ enrollment = [n \in Enrollments |-> Unused]
  /\ notified = {}
  /\ request = [t \in Txs |-> None]

-----------------------------------------------------------------------------
(* Requests *)

Begin(t, r) ==
  /\ tx[t] = None /\ request[t] = None
  /\ request' = [request EXCEPT ![t] = r]
  /\ UNCHANGED <<accountVars, enrollment, notified>>

\* The student, the association and the course are read before anything else.
\* Nothing keeps an instructor from naming an end that is past.
CreateEnrollment(t) ==
  \E e \in Emails, c \in Courses, term \in Terms :
    /\ Managed(CourseTenant[c])
    /\ <<e, CourseTenant[c]>> \in member
    /\ Begin(t, [op |-> "enroll", stage |-> "expire", student |-> e, course |-> c, term |-> term,
                 row |-> None, seen |-> {}, ends |-> {}])

RevokeEnrollment(t) ==
  \E n \in Enrollments :
    /\ enrollment[n].status = "ACTIVE"
    /\ Begin(t, [op |-> "revoke", stage |-> "revoke", student |-> None, course |-> None, term |-> "open",
                 row |-> n, seen |-> {}, ends |-> {}])

-----------------------------------------------------------------------------
(* Statements *)

Reached(t, stage) == request[t] # None /\ request[t].stage = stage

Opponents(t) == {u \in Txs \ {t} : request[u] # None}

Proceed(t, stage) == request' = [request EXCEPT ![t] = [request[t] EXCEPT !.stage = stage]]

Finish(t) == request' = [request EXCEPT ![t] = None]

ActiveRows(e, c) ==
  {n \in Enrollments : enrollment[n].student = e /\ enrollment[n].course = c
                         /\ enrollment[n].status = "ACTIVE"}

FindOverdue(t) ==
  /\ Reached(t, "expire")
  /\ LET overdue == {n \in ActiveRows(request[t].student, request[t].course) :
                       enrollment[n].term = "over"}
     IN request' = [request EXCEPT ![t] = [request[t] EXCEPT !.seen = overdue, !.stage = "expiring"]]

RowsFree(t, rows) == \A u \in Opponents(t) : request[u].ends \cap rows = {}

\* Mutant of StillActive: the UPDATE does not look again.
StillActiveWhenFound(rows) == rows

StillActive(rows) == {n \in rows : enrollment[n].status = "ACTIVE"}

ExpireOverdue(t) ==
  /\ Reached(t, "expiring")
  /\ RowsFree(t, request[t].seen)
  /\ request' = [request EXCEPT ![t] = [request[t] EXCEPT !.ends = StillActive(request[t].seen),
                                                          !.seen = {}, !.stage = "look"]]

LookForActive(t) ==
  /\ Reached(t, "look")
  /\ IF ActiveRows(request[t].student, request[t].course) \subseteq request[t].ends
     THEN Proceed(t, "insert") ELSE Finish(t)

\* Mutant of Accepted: there is no index.
AcceptedAlways(t) == TRUE

\* The partial unique index on the ACTIVE rows of a student in a course.
Accepted(t) == ActiveRows(request[t].student, request[t].course) \subseteq request[t].ends

\* An entry of that index depends on how another transaction ends.
InDoubt(t) ==
  \E u \in Opponents(t) :
    \/ /\ request[u].op = "enroll" /\ request[u].row # None
       /\ request[u].student = request[t].student /\ request[u].course = request[t].course
    \/ request[u].ends \cap ActiveRows(request[t].student, request[t].course) # {}

InsertEnrollment(t) ==
  /\ Reached(t, "insert")
  /\ ~InDoubt(t)
  /\ IF Accepted(t)
     THEN \E n \in Enrollments :
            /\ enrollment[n].status = "unused"
            /\ \A u \in Opponents(t) : request[u].row # n
            /\ request' = [request EXCEPT ![t] = [request[t] EXCEPT !.row = n, !.stage = "commit"]]
     ELSE Finish(t)

\* By id, whatever became of the row meanwhile.
Revoke(t) ==
  /\ Reached(t, "revoke")
  /\ RowsFree(t, {request[t].row})
  /\ request' = [request EXCEPT ![t] = [request[t] EXCEPT !.ends = {request[t].row}, !.stage = "commit"]]

-----------------------------------------------------------------------------
(* Ends *)

EndedAs(t) == IF request[t].op = "revoke" THEN "REVOKED" ELSE "EXPIRED"

EnrollmentAfter(t) ==
  [n \in Enrollments |->
     IF n \in request[t].ends THEN [enrollment[n] EXCEPT !.status = EndedAs(t)]
     ELSE IF request[t].op = "enroll" /\ n = request[t].row
     THEN [student |-> request[t].student, course |-> request[t].course, status |-> "ACTIVE",
           term |-> request[t].term]
     ELSE enrollment[n]]

\* Mutant of AlreadyNotified: the student has a notice of this type.
AlreadyNotifiedEver(t) ==
  \E n \in notified : enrollment[n].student = request[t].student

\* The student has a notice of this type about this row.
AlreadyNotified(t) == request[t].row \in notified

\* The recipient is on the roster still: nobody leaves it.
CommitEnrollment(t) ==
  /\ Reached(t, "commit")
  /\ enrollment' = EnrollmentAfter(t)
  /\ notified' = IF request[t].op = "enroll" /\ ~AlreadyNotified(t)
                 THEN notified \cup {request[t].row} ELSE notified
  /\ Finish(t)

\* A lost connection, a timeout, a crash.
RollbackEnrollment(t) ==
  /\ request[t] # None
  /\ Finish(t)

ComesToAnEnd(n) ==
  /\ enrollment[n].status # "unused" /\ enrollment[n].term = "limited"
  /\ enrollment' = [enrollment EXCEPT ![n] = [enrollment[n] EXCEPT !.term = "over"]]
  /\ UNCHANGED <<accountVars, notified, request>>

-----------------------------------------------------------------------------
EnrollmentStatement(t) ==
  \/ /\ \/ FindOverdue(t) \/ ExpireOverdue(t) \/ LookForActive(t)
        \/ InsertEnrollment(t) \/ Revoke(t)
     /\ UNCHANGED <<accountVars, enrollment, notified>>
  \/ CommitEnrollment(t) /\ UNCHANGED accountVars
  \/ RollbackEnrollment(t) /\ UNCHANGED <<accountVars, enrollment, notified>>

Init == AccountInit /\ EnrollmentInit

Next ==
  \/ \E t \in Txs : \/ request[t] = None /\ (Request(t) \/ Statement(t)) /\ UNCHANGED enrollmentVars
                    \/ CreateEnrollment(t) \/ RevokeEnrollment(t) \/ EnrollmentStatement(t)
  \/ \E k \in Tokens : Expire(k) /\ UNCHANGED enrollmentVars
  \/ \E n \in Enrollments : ComesToAnEnd(n)

Spec == Init /\ [][Next]_<<accountVars, enrollmentVars>>

-----------------------------------------------------------------------------
(* Properties *)

TypeOK == AccountTypeOK /\ EnrollmentTypeOK

\* However creations, expiries and revocations overlap, a student has one ACTIVE
\* enrollment in a course at a time, and is on the roster of its tenant.
OneEnrollmentAtATime ==
  \A m, n \in Enrollments :
    enrollment[n].status = "ACTIVE" =>
      /\ m \in ActiveRows(enrollment[n].student, enrollment[n].course) => m = n
      /\ <<enrollment[n].student, CourseTenant[enrollment[n].course]>> \in member

\* A student is told of every enrollment that there is, and of none that was
\* rolled back.
Announced == notified = {n \in Enrollments : enrollment[n].status # "unused"}

\* Only an ACTIVE enrollment is revoked (docs/TENANCY-ENROLLMENT.md:109).  The
\* code updates by id what it read as ACTIVE: a row that a creation has expired
\* in between is revoked too.
RevokesOnlyActive ==
  [][\A n \in Enrollments :
       enrollment'[n].status = "REVOKED" => enrollment[n].status \in {"ACTIVE", "REVOKED"}]_enrollment

\* What has ended does not come back, and a revocation is not turned into an
\* expiry by a creation that found the row overdue.  An expired row may still be
\* revoked, by a revocation that read it before (RevokesOnlyActive fails).
EndedStaysEnded ==
  [][\A n \in Enrollments :
       /\ enrollment[n].status = "EXPIRED" => enrollment'[n].status \in {"EXPIRED", "REVOKED"}
       /\ enrollment[n].status = "REVOKED" => enrollment'[n].status = "REVOKED"]_enrollment

=============================================================================
