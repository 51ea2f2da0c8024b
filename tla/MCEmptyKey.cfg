SPECIFICATION Spec
CONSTANTS
  Requests = {r1, r2}
  Bodies <- MCBodies
  None = None
  CronPeriod = 2
  MaxTime = 1
INVARIANT SameKeyIsSafe
CHECK_DEADLOCK FALSE
