\* One request at a time is enough.
CONSTANTS
  Tx = {t1}
  Children = {c1, c2}
SPECIFICATION Spec
SYMMETRY Symmetry
INVARIANTS
  AppendPositionIsFree
