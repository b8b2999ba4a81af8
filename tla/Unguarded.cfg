\* The guard of g_sched that the comment in py_module.cpp promises.
CONSTANTS
  t1 = t1
  t2 = t2
  t3 = t3
  Nobody = nobody
  PyThreads <- MCThreads
  Instances <- MCInstances
  GpuPresent <- MCGpuPresent
  Calls <- MCCalls
  MaxCalls = 2
SPECIFICATION Spec
INVARIANTS
  NeverMisused
CHECK_DEADLOCK FALSE
