SPECIFICATION SchedulerSpec
CONSTANTS
  j1 = j1
  j2 = j2
  Jobs = {j1}
  Workers = {w1, w2}
  Futures = {f1, f2}
  Requests = {r1, r2}
  Operations = {"pause", "resume", "cancel", "replay"}
  None = None
  Recurring <- MCRecurring
  MaxRetries <- MCMaxRetries
  WorkerConcurrency = 2
  DeadLetterEnabled = TRUE
  Stragglers = {f1, f2}
  Reliable = {}
SYMMETRY MCSymmetry
INVARIANTS
  SchedulerTypeOK
  RunningHasLease
  CompletedHasSuccess
PROPERTIES
  EngineRespectsUser
CHECK_DEADLOCK FALSE
