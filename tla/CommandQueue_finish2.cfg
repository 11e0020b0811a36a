\* two threads finish the same queue
SPECIFICATION FairSpec
CONSTANTS
  c1 = c1
  c2 = c2
  Clients = {c1, c2}
  Creator = c1
  Events = {e1, e2}
  Ops <- FinishOps
  QuiescentRelease = TRUE
  Sched = Sched
  Null = Null
CHECK_DEADLOCK FALSE
PROPERTY FinishReturns
