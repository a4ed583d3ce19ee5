SPECIFICATION Spec
CONSTANTS
  MaxOps = 4
  MaxBackends = 2
  Kinds = {"query", "begin", "commit", "rollback", "invalidate"}
  Faults = {}
INVARIANTS
  TypeOK
  CommitTruth
  CommitOnSameBackend
  SessionMatchesBackend
PROPERTY KeepsContract
CHECK_DEADLOCK FALSE
