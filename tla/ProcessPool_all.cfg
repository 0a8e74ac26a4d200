SPECIFICATION FairSpec
CONSTANTS
  NumProcs = 3
  MayRaise = TRUE
  MaxCrashes = 3
INVARIANTS
  ResultsAccounted
  QuietOnReturn
PROPERTIES
  ReturnsOrStranded
CHECK_DEADLOCK FALSE
