SPECIFICATION FairSpec
CONSTANTS
  MaxIntegrations = 2
  MaxCalls = 2
  Faults = {"raise", "unpicklable", "timeout", "manager", "callback", "database"}
INVARIANTS
  Sequenced
  SuccessIsReal
  CleanMeansCommitted
  ErrorIsExplained
PROPERTIES
  Returns
CHECK_DEADLOCK FALSE
