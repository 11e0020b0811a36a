\* events of blocking reads are not waited for, releases come after waits
SPECIFICATION FairSpec
CONSTANTS
  t1 = t1
  t2 = t2
  Thread = {t1, t2}
  MaxEvent = 2
  Offered <- Shared
  Listable = {"read", "mapB", "unmap"}
  EarlyRelease = FALSE
  MaxRetained = 1
  MaxFaults = 1
  MaxList = 2
INVARIANTS TypeOK
PROPERTIES OnlyAstrayBreaks WaitDelivers CallReturns
CHECK_DEADLOCK FALSE
