SPECIFICATION FairSpec
CONSTANTS
  Ids = {i1, i2}
  Sessions = {s1, s2}
  MaxQueries = 2
  MaxActive = 2
  QueueCap = 2
  WorkersMayDie = FALSE
  DeadlineMayHit = TRUE
INVARIANT
  DrainBeforeClose
PROPERTIES
  EveryQueryAnswered
  ShutdownEnds
  StartsInOrder
CHECK_DEADLOCK FALSE
