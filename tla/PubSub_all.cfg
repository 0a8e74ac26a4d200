SPECIFICATION FairSpec
CONSTANTS
  Event = {e1}
  Callback = {c1, c2}
  MaxMessages = 4
  MaxChanges = 3
  MayRaise = TRUE
  MayHang = TRUE
INVARIANTS
  Drained
PROPERTIES
  EveryoneServed
  DeliverySpec
  EveryoneEnds
CHECK_DEADLOCK FALSE
