SPECIFICATION RunningFairSpec
CONSTANTS
  j1 = j1
  j2 = j2
  Jobs = {j1}
  Workers = {w1, w2}
  Futures = {f1}
  Requests = {r1}
  Operations = {"cancel"}
  None = None
  Recurring <- MCRecurring
  MaxRetries <- MCMaxRetries
  WorkerConcurrency = 2
  DeadLetterEnabled = TRUE
  Stragglers = {f1}
  Reliable = {w2}
PROPERTIES
  HeldRowCloses
CHECK_DEADLOCK FALSE
