SPECIFICATION Spec
CONSTANTS
  Moves <- FewMoves
  PeerFaults = {"fin", "rst"}
INVARIANT SendReturns
