SPECIFICATION Spec
CONSTANTS
  Clients = {a, b}
  Names = {n1, n2}
  NULL = NULL
  MaxLogins = 2
INVARIANT LoginGate
