SPECIFICATION MCSpec
CONSTANTS
  Port <- MCPort
  Direction <- MCDirection
  Kind <- MCKind
  Size <- MCSize
  Destinations <- MCDestinations
  FlushOrders <- MCFlushOrders
  Refresh <- MCRefresh
  PoolSize = 7
  Word = 8
  Thread <- MCThread
  PortOf <- MCPortOf
  Lengths = {1, 2}
  Timeouts = {0, 1}
  Flush = {"f", "g"}
  MaxSent = 4
  MaxTime = 2
INVARIANTS InOrder NoMissedWakeup ValidIsFresh
PROPERTY ReadsAdvance
CHECK_DEADLOCK FALSE
