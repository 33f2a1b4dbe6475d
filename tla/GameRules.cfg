SPECIFICATION Spec
CONSTANTS
  Moves <- MCMoves
  PeerFaults = {}
INVARIANTS
  VerdictCorrect
  TurnsAlternate
  FinishedIsCleared
PROPERTY FinishedIsFinal
