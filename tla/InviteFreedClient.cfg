SPECIFICATION Spec
CONSTANTS
  Clients = {a, b}
  Invs = {i1}
  None = None
  Unreliable = FALSE
INVARIANT InviteeNotFreed
