\* one finisher and one waiter make every call between them
SPECIFICATION FairSpec
CONSTANTS
  c1 = c1
  c2 = c2
  Clients = {c1, c2}
  Creator = c1
  Events = {e1, e2, e3}
  Ops <- OneWaiterOps
  QuiescentRelease = TRUE
  Sched = Sched
  Null = Null
CHECK_DEADLOCK FALSE
INVARIANTS TypeOK NothingLost RanInOrder PointersAgree NoLostWakeup
PROPERTIES FinishIsBarrier DWaitMissesOnlyOne WaitAndJoinReturn ImplementsService ImplementsFairService
