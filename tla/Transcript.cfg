SPECIFICATION Spec
CONSTANTS
  ToolUses = {"t1"}
  MaxLines = 3
  MaxCuts = 1
  IdleAge = 0
  AliveAge = 1
  DropAge = 1
INVARIANTS
  TypeOK
  ReadsAsWhole
PROPERTIES
  WaitingIsReal
  SessionStaysShown
