\* Two requests at a time, two sessions, two reset tokens, two passwords.
CONSTANTS
  Tx = {t1, t2}
  Sessions = {s1, s2}
  Resets = {r1, r2}
  Passwords = {p1, p2}
  MaxTokens = 3
  NoTx = NoTx
  None = None
SPECIFICATION Spec
SYMMETRY Symmetry
INVARIANTS
  TypeOK
  ResetTokenIsSingleUse
  StaleSessionsAreLate
PROPERTIES
  NewestTokenRotates
  RevokedIsFinal
