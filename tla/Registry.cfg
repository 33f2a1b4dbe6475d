SPECIFICATION FairSpec
CONSTANTS
  Conns = {c1, c2, c3}
  MAX_CLIENTS = 2
  Nobody = Nobody
INVARIANTS
  TypeOK
  SlotAccounting
  RegistryExact
  WakeupPending
PROPERTIES
  ImplementsBounded
  WaitForEmptyReturns
  EofUnregisters
  SighupEndsProcess
