SPECIFICATION FairSpec
CONSTANTS
  MaxItems = 4
  MaxBarriers = 3
  MaxBlocks = 2
INVARIANTS TypeOK BarrierSeparates SegmentsInOrder BlockRunsWhole
PROPERTIES LaunchEnds
CHECK_DEADLOCK FALSE
