SPECIFICATION FairSpec
CONSTANTS
  w1 = w1
  w2 = w2
  Jobs = {j1, j2}
  Workers = {w1, w2}
  None = None
  WorkerConcurrency <- MCEven
  BatchSize = 2
  ReapEvery = 2
  MaxClaims = 1
  Reliable = {w1}
PROPERTIES
  StopDrains
  DueIsClaimed
CHECK_DEADLOCK FALSE
