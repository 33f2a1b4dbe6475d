SPECIFICATION HSpec
CONSTANTS
  Conns = {c1, c2}
  MAX_CLIENTS = 2
  Nobody = Nobody
INVARIANT WaitedForAll
