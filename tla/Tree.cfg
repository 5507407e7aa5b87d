SPECIFICATION FairSpec
CONSTANTS
  NoTool = "none"
  Pids <- SomePids
  Home <- SomeHome
  Tool <- SomeTool
  Cwd <- SomeCwd
  Shells = {}
  Folded = {3}
  Excluded = {}
  Sessions <- OneSession
  Interval = 1
  MaxScan = 1
  MaxTorn = 3
INVARIANTS
  TypeOK
  RowsFormTrees
PROPERTIES
  MissedOnceStays
  GoneProcessesLeave
