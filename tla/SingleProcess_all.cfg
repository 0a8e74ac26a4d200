SPECIFICATION FairSpec
CONSTANTS
  MaxSize = 5
  Limits = {None, 0, 1, 2, 3}
  None = None
  MayFail = TRUE
INVARIANTS
  LandedIsPrefix
  CompleteOnSuccess
PROPERTIES
  BulkSpec
  Ends
CHECK_DEADLOCK FALSE
