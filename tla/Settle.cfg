SPECIFICATION FairSpec
CONSTANTS
  j1 = j1
  j2 = j2
  j3 = j3
  w1 = w1
  w2 = w2
  Dispatcher = dispatcher
  Jobs <- MCThreeJobs
  Workers <- MCOneWorker
  BigJob = j3
  BigBytes = 4
  Bytes <- MCBytes
  Priority <- MCPriority
  MaxBatch = 2
  FixedBudget = 1
  TotalMem = 4
  SafetyMargin = 1
  GpuAbsent <- MCGpuPresent
  SetupMayThrow = FALSE
  SpuriousWakeups = FALSE
  MaxBucket = 0
  MaxStarts = 1
  MaxStops = 0
PROPERTIES
  EveryJobSettles
