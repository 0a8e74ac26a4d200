SPECIFICATION Spec
CONSTANTS
  Kinds = {"plain", "twice", "autocommit", "silent"}
  Operations = {"execute_many", "execute"}
  RowCount = 2
  RetryCount = 3
  MayFail = TRUE
INVARIANTS
  CopiesExplained
  WrittenOnReturn
  RaisedIsExplained
CHECK_DEADLOCK FALSE
