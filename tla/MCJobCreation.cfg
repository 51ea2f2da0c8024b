SPECIFICATION Spec
CONSTANTS
  Requests = {r1, r2, r3}
  Bodies <- MCBodies
  None = None
  CronPeriod = 2
  MaxTime = 1
INVARIANTS
  TypeOK
  RepeatsAgree
  LoserReadsBack
  RetryIsSafe
  ReplyIsOwn
  RowsAreRunnable
PROPERTY EveryRequestIsAnswered
CHECK_DEADLOCK FALSE
