SPECIFICATION Spec
CONSTANTS
  ListMax = 2
  MaxEvents = 5
  Libraries = {"coprthr", "other"}
INVARIANTS TypeOK NewestIsLast FreedByClWaitEv
PROPERTIES ClWaitCoversAll
CHECK_DEADLOCK FALSE
