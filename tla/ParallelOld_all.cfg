SPECIFICATION OldFairSpec
CONSTANTS
  NumProcs = 2
  MayRaise = TRUE
  MaxCrashes = 1
  Limit = 2
  DataCount = 5
INVARIANTS
  ReturnIsExplained
PROPERTIES
  BulkSpec
  EndsOrStranded
CHECK_DEADLOCK FALSE
