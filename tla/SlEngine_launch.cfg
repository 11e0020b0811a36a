SPECIFICATION FairSpec
CONSTANTS
  sched = sched
  even = even
  chain = chain
  long = long
  pair = pair
  Null = Null
  NEngines = 2
  Launchers <- OneLauncher
  Jobs <- AllJobs
  Chained <- ChainJobs
  Span <- AllSpans
  Work <- AllWork
  LocalArgs <- AllLocalArgs
  LocalMem = 2
  MaxBlocks = 1
INVARIANTS TypeOK LaunchRunsOnce NoEngineOutlivesLaunch OnlyARefusalLeaks
PROPERTIES LaunchReturns
CHECK_DEADLOCK FALSE
