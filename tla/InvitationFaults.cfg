SPECIFICATION FairSpec
CONSTANTS
  Clients = {a, b}
  Invs = {i1, i2}
  None = None
  Unreliable = TRUE
INVARIANTS
  InvitationRefs
  ClientRefs
  GameGoesWithState
PROPERTIES
  StaleUsesKnown
  LogoutEnds
