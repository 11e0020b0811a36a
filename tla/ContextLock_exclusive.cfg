SPECIFICATION Spec
CONSTANTS
  Proc = {p1, p2, p3}
  NDev = 2
  MaxDev = 1
  MaxObj = 1
INVARIANTS ExclusiveDevices
CHECK_DEADLOCK FALSE
