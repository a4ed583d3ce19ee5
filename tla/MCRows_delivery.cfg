SPECIFICATION FairSpec
CONSTANTS
  MaxTotal = 4
  Sizes = {1, 3}
  RowLimits = {0, 2}
  ByteLimits = {2, 4}
  BatchLimits = {1, 3}
  PortalBatch = 2
INVARIANTS
  TypeOK
  ResultIsPrefix
  StreamIsWhole
  StreamGrammar
PROPERTY
  EveryQueryEnds
CHECK_DEADLOCK FALSE
