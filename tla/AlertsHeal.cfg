SPECIFICATION Spec
CONSTANTS
  Agents = {a}
  TxAgents = {a}
  NoAgent = none
  Cooldown = 2
  WaitSeconds = 1
  RetainSeconds = 2
  Observations <- SomeObservations
  MaxRuns = 1
  MaxTime = 3
INVARIANT TranscriptAgentHeals
