SPECIFICATION FairSpec
CONSTANTS
  Players = {p1, p2, p3}
  Threads = {t, u}
  Nobody = Nobody
  MaxGames = 3
INVARIANTS
  TypeOK
  TotalAccounted
  RolesDoNotMatter
  NoCircularWaitUnlessReinit
PROPERTIES
  ImplementsLedger
  ResultMovesRating
  ResultPosted
