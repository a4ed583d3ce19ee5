SPECIFICATION Spec
CONSTANTS
  MaxOps = 4
  MaxBackends = 2
  Kinds = {"query", "begin", "commit", "rollback"}
  Faults = {"hidden_error"}
INVARIANT CommitTruth
CHECK_DEADLOCK FALSE
