SPECIFICATION Spec
CONSTANTS
  Interval = 1
  Idle = 1
  Wait = 2
  Think = 2
  Quiet = 2
  Stuck = 3
  Suspends = FALSE
  Recurring = {}
  MaxActs = 3
PROPERTY WorkingIsNotStuck
