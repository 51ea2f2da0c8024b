SPECIFICATION SchedulerSpec
CONSTANTS
  j1 = j1
  j2 = j2
  Jobs = {j1}
  Workers = {w1}
  Futures = {f1, f2}
  Requests = {r1}
  Operations = {"resume"}
  None = None
  Recurring <- MCRecurring
  MaxRetries <- MCMaxRetries
  WorkerConcurrency = 2
  DeadLetterEnabled = TRUE
  Stragglers = {f1, f2}
  Reliable = {}
INVARIANTS
  QueuedIsNotDropped
CHECK_DEADLOCK FALSE
