SPECIFICATION Spec
CONSTANTS
  NumFiles = 2
  Pids = {1, 2}
  Delays = {2, 3}
  MaxLines = 3
  MaxCuts = 1
INVARIANTS
  TypeOK
  SubagentsHang
PROPERTIES
  NewsIsShown
  SubagentsAppear
  NeverVanishes
