SPECIFICATION Spec
CONSTANTS
  Interval = 1
  Idle = 1
  Wait = 2
  Think = 2
  Quiet = 2
  Stuck = 3
  Suspends = TRUE
  Recurring = {"execve"}
  MaxActs = 2
INVARIANT TypeOK
PROPERTIES
  ShownHasReason
  PromptNoticed
  HangNoticed
