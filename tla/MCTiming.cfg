SPECIFICATION Spec
CONSTANTS
  None = None
  JobInterval = 4
  CronPeriod = 2
  MaxRetries = 2
  Backoff = 2
  Cap = 3
  Lease = 15
  Second = 2
  ReapEvery = 2
  Cycle = 1
  Delay = 1
  Misses = 1
  ReapMisses = 1
  Skew = 1
  MaxTime = 29
INVARIANTS
  TypeOK
  DeadIsReaped
  MissedAreSkipped
  KeepsCadence
  RetriesBackOff
PROPERTY HealthyKeepsLease
CHECK_DEADLOCK FALSE
