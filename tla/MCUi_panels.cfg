SPECIFICATION Spec
CONSTANTS
  SnapshotRows <- MCSnapshotRows
  IndexRows <- MCIndexRows
  ActivityRows <- MCActivityRows
  Statements <- MCStatements
  Calls = {1, 2}
  Lease = 1
  LongestRows = 2
INVARIANTS
  TypeOK
  AnswersTellTheTruth
  PageLosesNothing
PROPERTY
  CallsHeard
CHECK_DEADLOCK FALSE
