SPECIFICATION Spec
CONSTANTS
  Proc = {p1, p2, p3}
  NDev = 3
  MaxDev = 2
  MaxObj = 2
INVARIANTS TypeOK MutexIsInitialised DevicesExist ExclusiveUntilGivenBack
CHECK_DEADLOCK FALSE
