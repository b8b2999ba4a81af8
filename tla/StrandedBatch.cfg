SPECIFICATION Spec
CONSTANTS
  j1 = j1
  j2 = j2
  j3 = j3
  w1 = w1
  w2 = w2
  Dispatcher = dispatcher
  Jobs <- MCOneJob
  Workers <- MCOneWorker
  BigJob = j1
  BigBytes = 1
  Bytes <- MCBytes
  Priority <- MCPriority
  MaxBatch = 1
  FixedBudget = 2
  TotalMem = 4
  SafetyMargin = 1
  GpuAbsent <- MCGpuPresent
  SetupMayThrow = FALSE
  SpuriousWakeups = FALSE
  MaxBucket = 0
  MaxStarts = 1
  MaxStops = 1
INVARIANTS
  InFlightBatchesComplete
CHECK_DEADLOCK FALSE
