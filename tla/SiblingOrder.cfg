\* Two requests at a time and up to three children of one parent.
CONSTANTS
  Tx = {t1, t2}
  Children = {c1, c2, c3}
SPECIFICATION Spec
SYMMETRY Symmetry
INVARIANTS
  TypeOK
  PositionsAreDense
PROPERTIES
  ReorderIsHonoured
  ImplementsChildList
