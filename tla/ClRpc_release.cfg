\* events released while their command may be pending
SPECIFICATION Spec
CONSTANTS
  t1 = t1
  t2 = t2
  Thread = {t1}
  MaxEvent = 2
  Offered <- Transfers
  Listable = {"read"}
  EarlyRelease = TRUE
  MaxRetained = 0
  MaxFaults = 0
  MaxList = 2
PROPERTY OnlyAstrayBreaks
CHECK_DEADLOCK FALSE
