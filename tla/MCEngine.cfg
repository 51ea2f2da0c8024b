SPECIFICATION Spec
CONSTANTS
  j1 = j1
  j2 = j2
  Jobs = {j2}
  Workers = {w1, w2}
  Futures = {f1, f2, f3}
  None = None
  Recurring <- MCRecurring
  MaxRetries <- MCMaxRetries
  WorkerConcurrency = 2
  DeadLetterEnabled = TRUE
  Stragglers = {f1, f2, f3}
  Reliable = {}
SYMMETRY MCSymmetry
INVARIANTS
  TypeOK
  LeaseShape
  QueueShape
  DuplicateNeedsExpiry
  AttemptsAccounted
  OpenRowReachable
PROPERTIES
  StatusMovesAllowed
  VersionFences
  LateResultDiscarded
  LostStaysLost
  ImplementsLeaseQueue
CHECK_DEADLOCK FALSE
