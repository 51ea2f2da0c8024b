SPECIFICATION Spec
CONSTANTS
  j1 = j1
  j2 = j2
  Jobs = {j1}
  Workers = {w1, w2}
  Futures = {f1, f2}
  None = None
  Recurring <- MCRecurring
  MaxRetries <- MCMaxRetries
  WorkerConcurrency = 1
  DeadLetterEnabled = TRUE
  Stragglers = {f1, f2}
  Reliable = {}
PROPERTY StaleWriteRejected
CHECK_DEADLOCK FALSE
