SPECIFICATION Spec
CONSTANTS
  NumProcs = 2
  MayRaise = FALSE
  MaxCrashes = 0
INVARIANT EveryResultReported
CHECK_DEADLOCK FALSE
