SPECIFICATION Spec
CONSTANTS
  j1 = j1
  j2 = j2
  j3 = j3
  w1 = w1
  w2 = w2
  Dispatcher = dispatcher
  Jobs <- MCThreeJobs
  Workers <- MCOneWorker
  BigJob = j3
  BigBytes = 1
  Bytes <- MCBytes
  Priority <- MCPriority
  MaxBatch = 1
  FixedBudget = 3
  TotalMem = 4
  SafetyMargin = 1
  GpuAbsent <- MCGpuMayVanish
  SetupMayThrow = FALSE
  SpuriousWakeups = TRUE
  MaxBucket = 0
  MaxStarts = 2
  MaxStops = 1
SYMMETRY MCJobSymmetry
INVARIANTS
  LookaheadBounded
  DrainTestSound
PROPERTIES
  ImplementsService
