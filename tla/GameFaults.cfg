SPECIFICATION FairSpec
CONSTANTS
  Moves <- FewMoves
  PeerFaults = {"fin", "rst"}
INVARIANTS
  TypeOK
  LogoutEndsGame
PROPERTIES
  ImplementsMatch
  LeaversGo
