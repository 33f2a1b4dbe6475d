SPECIFICATION FairSpec
CONSTANTS
  Clients = {a, b, c}
  Names = {n1}
  NULL = NULL
  MaxLogins = 1
INVARIANTS
  TypeOK
  PlayerRefs
  UniqueLoginUnlessReinit
PROPERTY LoginAnswered
