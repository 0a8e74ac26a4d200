SPECIFICATION FairSpec
CONSTANTS
  ProcessCount = 2
  Limit = 2
  DataCount = 5
  HeldCounts = {1, 4, 5}
  MayFail = TRUE
  MayVanish = TRUE
INVARIANTS
  TypeOK
  AtMostOnce
  FlowControl
  CompleteOnSuccess
PROPERTIES
  BulkSpec
  EndsOrStranded
CHECK_DEADLOCK FALSE
