SPECIFICATION Spec
CONSTANTS
  MaxOps = 4
  MaxBackends = 2
  Kinds = {"query", "begin", "commit", "rollback", "info", "invalidate"}
  Faults = {"stray_cancel", "hidden_error", "late_close", "own_control"}
INVARIANTS
  SuccessTruth
  FailureTruth
  RollbackTruth
  OnlyCommitPersists
  TxAtomic
  ReadNeverWrites
CHECK_DEADLOCK FALSE
