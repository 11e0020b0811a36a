SPECIFICATION Spec
CONSTANTS
  Thread = {t1, t2}
  Device = {cpu, acc}
  Handle = {h1, h2}
  NSlot = 2
  MaxQueue = 2
  MaxEvent = 2
  Null = Null
INVARIANTS TypeOK DescriptorsStand OneScheduler NothingMissing
CHECK_DEADLOCK FALSE
SYMMETRY Symmetry
ACTION_CONSTRAINT NoThirdCall
