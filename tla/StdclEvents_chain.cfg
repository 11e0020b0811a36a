SPECIFICATION Spec
CONSTANTS
  ListMax = 2
  MaxEvents = 3
  Libraries = {"coprthr"}
PROPERTIES ForkedKernelsRun
CHECK_DEADLOCK FALSE
