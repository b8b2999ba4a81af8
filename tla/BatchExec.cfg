\* Two jobs and two workers share the device with another process.
CONSTANTS
  j1 = j1
  j3 = j3
  w1 = w1
  w2 = w2
  Jobs <- MCJobs
  Workers <- MCWorkers
  Shape <- MCShape
  Bytes <- MCBytes
  Priority <- MCPriority
  MaxBatch = 2
  TotalMem = 10
  SafetyMargin = 2
  MaxRetries = 1
  Faults = TRUE
  ChunkBytes = 2
  Chunks = 2
SPECIFICATION FairSpec
INVARIANTS
  HeldWithinReservation
  OomNeedsTenant
  OkJobsHaveResults
PROPERTIES
  EveryBatchEnds
  JobsSettleAfterTenant
CHECK_DEADLOCK FALSE
