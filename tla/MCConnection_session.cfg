SPECIFICATION Spec
CONSTANTS
  Transports = {"direct", "ssh", "container"}
  MaxQueries = 2
  MaxAttempts = 3
  MaxInvalidate = 1
INVARIANTS
  TypeOK
  NothingOrphaned
  CancelAnswerTruth
PROPERTY
  ReaderAndShutdownEnd
CHECK_DEADLOCK FALSE
