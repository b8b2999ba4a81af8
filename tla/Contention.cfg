SPECIFICATION Spec
CONSTANTS
  j1 = j1
  j2 = j2
  j3 = j3
  w1 = w1
  w2 = w2
  Dispatcher = dispatcher
  Jobs <- MCThreeJobs
  Workers <- MCTwoWorkers
  BigJob = j3
  BigBytes = 2
  Bytes <- MCBytes
  Priority <- MCPriority
  MaxBatch = 2
  FixedBudget = 0
  TotalMem = 4
  SafetyMargin = 1
  GpuAbsent <- MCGpuPresent
  SetupMayThrow = TRUE
  SpuriousWakeups = FALSE
  MaxBucket = 0
  MaxStarts = 1
  MaxStops = 0
SYMMETRY MCWorkerSymmetry
INVARIANTS
  TypeOK
  JobsConserved
  ReservationExact
  NoOvercommit
  NobodySleepsThroughWork
