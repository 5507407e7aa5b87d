SPECIFICATION FairSpec
CONSTANTS
  Agents = {a}
  TxAgents = {a}
  NoAgent = none
  Cooldown = 2
  WaitSeconds = 1
  RetainSeconds = 2
  Observations <- SomeObservations
  MaxRuns = 2
  MaxTime = 3
INVARIANTS
  TypeOK
  CooldownSpacing
  NoOrphanStateAlert
  NotifierKeepsUp
PROPERTIES
  WaitAlertEarned
  ExitedAgentsHeal
