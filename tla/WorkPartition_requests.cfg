SPECIFICATION Spec
CONSTANTS
  Engines <- SmallEngines
  Requests <- AllRequests
INVARIANTS TypeOK Tiles Balanced EveryItemOnce
CHECK_DEADLOCK FALSE
