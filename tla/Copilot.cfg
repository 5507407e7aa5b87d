SPECIFICATION CopilotSpec
CONSTANTS
  Sessions <- SomeSessions
  Cwds <- SomeCwds
  CwdOf <- SomeCwdOf
  Requests = {"r1"}
  NoRequest = "request"
  Calls = {"c1", "c2"}
  TailSize = 3
  MaxEvents = 6
CHECK_DEADLOCK FALSE
INVARIANTS
  CopilotTypeOK
  NothingMadeUp
  ExactSinceQuiet
  PicksOwnSession
