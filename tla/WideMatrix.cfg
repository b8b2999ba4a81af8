\* An int holds up to 5: a matrix of 3 x 3 has elements it cannot index.
CONSTANTS
  Block = 2
  NaiveBlock = 3
  MaxDim = 3
  MaxCount = 1
  IntLimit = 6
SPECIFICATION Spec
INVARIANTS
  StoresTheProduct
CHECK_DEADLOCK FALSE
