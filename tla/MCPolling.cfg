SPECIFICATION Spec
CONSTANTS
  w1 = w1
  w2 = w2
  Jobs = {j1, j2}
  Workers = {w1, w2}
  None = None
  WorkerConcurrency <- MCUneven
  BatchSize = 2
  ReapEvery = 1
  MaxClaims = 2
  Reliable = {w1}
INVARIANTS
  TypeOK
  WorkIsHeld
  ThreadsSuffice
  SlotsComeBack
  StoppedLeavesNothing
SYMMETRY Symmetry
PROPERTY ImplementsLeaseQueue
CHECK_DEADLOCK FALSE
