SPECIFICATION TimelineSpec
CONSTANTS
  Null = Null
  Failed = Failed
  Pending = Pending
  Undefined = Undefined
  ProcPids = {1}
  TxPids = {2}
  States = {"idle"}
  Kinds = {"cmd"}
  Values = {"a", "b"}
  Limit = 1
  MaxRows = 2
  MaxClicks = 5
  MaxRequests = 2
INVARIANTS
  TimelineTypeOK
  ShowsOpenAgent
PROPERTIES
  LoadingEnds
  RecordIsCurrent
