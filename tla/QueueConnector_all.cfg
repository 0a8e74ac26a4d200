SPECIFICATION ConnectorSpec
CONSTANTS
  Limit = 2
  ProcessCount = 2
  MaxEntries = 5
  MaxOdd = 1
  MaxReads = 2
  MaxFaults = 1
  Clients = {c1, c2}
  MaxCalls = 2
  None = None
INVARIANTS PagesFaithful LossBounded WindowHolds TargetHolds
PROPERTIES Ends
CHECK_DEADLOCK FALSE
