\* Two versions of the quiz in one snapshot.
SPECIFICATION Spec
CONSTANTS
  q1 = q1
  o1 = o1
  Tx = {t1, t2}
  Attempts = {a1, a2}
  Enrollments = {e1, e2}
  Questions <- OneQuestion
  Options <- OneOption
  Versions <- QuizVersions
  NoTx = NoTx
  None = None
SYMMETRY Symmetry
INVARIANT FrozenAtOneInstant
