SPECIFICATION FairSpec
CONSTANTS
  j1 = j1
  j2 = j2
  j3 = j3
  w1 = w1
  w2 = w2
  Dispatcher = dispatcher
  Jobs <- MCTwoJobs
  Workers <- MCOneWorker
  BigJob = j2
  BigBytes = 2
  Bytes <- MCBytes
  Priority <- MCPriority
  MaxBatch = 2
  FixedBudget = 0
  TotalMem = 1
  SafetyMargin = 1
  GpuAbsent <- MCGpuPresent
  SetupMayThrow = FALSE
  SpuriousWakeups = FALSE
  MaxBucket = 0
  MaxStarts = 1
  MaxStops = 0
PROPERTIES
  OversizedJobsSettle
CHECK_DEADLOCK FALSE
