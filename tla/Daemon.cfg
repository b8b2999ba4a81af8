SPECIFICATION DaemonFairSpec
CONSTANTS
  j1 = j1
  j2 = j2
  w1 = w1
  Dispatcher = dispatcher
  Jobs <- MCJobs
  Workers <- MCWorkers
  BigJob = j2
  BigBytes = 1
  Bytes <- MCBytes
  Priority <- MCPriority
  MaxBatch = 1
  FixedBudget = 1
  TotalMem = 4
  SafetyMargin = 1
  GpuAbsent <- MCGpuPresent
  SetupMayThrow = FALSE
  SpuriousWakeups = FALSE
  MaxBucket = 0
  MaxStarts = 1
  MaxStops = 1
  Modes <- MCModes
  BindMayFail = TRUE
INVARIANTS
  ExitsDrained
  PageHasRecords
  StopIsExclusive
PROPERTIES
  GaugeCountsTakenJobs
  DaemonStops
  StopReturnsIfWoken
CHECK_DEADLOCK FALSE
