SPECIFICATION TransferSpec
CONSTANTS
  Sizes = {0, 2, 3}
  Limit = 2
  MaxChanges = 1
  StatementsRaise = TRUE
  None = None
INVARIANTS
  PagesFaithful
  ValuesInPlace
  QuietCreation
CHECK_DEADLOCK FALSE
