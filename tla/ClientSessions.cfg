\* Two tabs over one jar, or one mobile application; two sessions, two requests at once.
CONSTANTS
  Clients = {a, b}
  App = a
  Sessions = {s1, s2}
  Calls = {k1, k2}
  None = None
SPECIFICATION ClientSpec
INVARIANTS
  InStep
  ReplayedForCause
\* Only so many sessions are ever opened.
CHECK_DEADLOCK FALSE
