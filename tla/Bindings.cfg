\* Two threads submit, start and stop, a third reads; two calls each.
CONSTANTS
  t1 = t1
  t2 = t2
  t3 = t3
  Nobody = nobody
  PyThreads <- MCThreads
  Instances <- MCInstances
  GpuPresent <- MCGpuPresent
  Calls <- MCCalls
  MaxCalls = 2
SPECIFICATION FairSpec
INVARIANTS
  MisuseNeedsRace
  RunningIsReachable
  NoSamplerOutlives
PROPERTIES
  EveryCallReturns
CHECK_DEADLOCK FALSE
