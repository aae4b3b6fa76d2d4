\* One address, one tenant with one course, two codes, two enrollments, two
\* requests at once.
CONSTANTS
  Emails = {e1}
  Tenants = {"academy"}
  Tokens = {k1, k2}
  Txs = {t1, t2}
  Others = Others
  None = None
  Courses = {c1}
  CourseTenant <- MCCourseTenant
  Enrollments = {n1, n2}
SPECIFICATION Spec
INVARIANTS
  InstructorHasOneWayIn
  EveryoneHasAWayIn
  OneEnrollmentAtATime
  Announced
PROPERTY EndedStaysEnded
SYMMETRY Symmetry
\* The codes and the enrollments of an instance run out.
CHECK_DEADLOCK FALSE
