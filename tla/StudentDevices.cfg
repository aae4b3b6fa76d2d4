\* Two concurrent API requests of one student with three installations.
CONSTANTS
  Students = {s1}
  Installations = {i1, i2, i3}
  Requests = {r1, r2, r3}
  Tx = {t1, t2}
  NoTx = NoTx
  None = None
SPECIFICATION Spec
SYMMETRY Symmetry
INVARIANTS
  NeverStranded
  PendingNamesCurrent
PROPERTIES
  ResolvedIsFinal
  ImplementsDeviceBinding
