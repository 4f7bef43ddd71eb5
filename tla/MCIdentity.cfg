SPECIFICATION WorldSpec
CONSTANTS
  MaxSlots = 2
  MaxQueued = 1
  GenMax = 3
  NoSnapshot = NoSnapshot
  Workers = {w1, w2}
  Main = main
  MaxChunks = 3
  NestMax = 1
INVARIANTS FreeChain RetiredStayDead TwinAgrees AlwaysSaveable
PROPERTIES RoundTrip ForkJoinRefined CallsEnd
CHECK_DEADLOCK FALSE
