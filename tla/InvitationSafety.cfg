SPECIFICATION Spec
CONSTANTS
  Clients = {a, b}
  Invs = {i1, i2, i3}
  None = None
  Unreliable = FALSE
SYMMETRY Symmetry
INVARIANTS
  TypeOK
  IdsUnique
  BothSides
PROPERTY Forward
