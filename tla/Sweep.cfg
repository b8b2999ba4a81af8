SPECIFICATION Spec
CONSTANTS
  j1 = j1
  j2 = j2
  j3 = j3
  j4 = j4
  Jobs <- MCJobs
  Bytes <- MCBytes
  Priority <- MCPriority
  MaxBatch = 3
  MaxBucket = 1
  MaxBudget = 7
INVARIANTS
  SweepBounded
  ComputesPacks
  SameAgeIsOptimal
  YoungerNeverDisplaces
