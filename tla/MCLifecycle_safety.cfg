SPECIFICATION Spec
CONSTANTS
  Ids = {i1, i2, i3}
  Sessions = {s1, s2}
  MaxQueries = 3
  MaxActive = 2
  QueueCap = 1
  WorkersMayDie = TRUE
  DeadlineMayHit = TRUE
SYMMETRY Symmetry
INVARIANTS
  TypeOK
  AtMostOneAnswer
  CancelledNeverStarted
  OpenIsReachable
PROPERTIES
  KeepsContract
CHECK_DEADLOCK FALSE
