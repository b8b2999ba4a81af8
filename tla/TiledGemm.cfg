\* Blocks of four threads on every shape up to 5 x 5 x 5, two batch elements:
\* the last tile overhangs in each dimension, fits exactly, or is the only one.
\* An int holds up to 15: matrices of 16 elements just fit, larger ones do not,
\* nor do places in the second matrix of a batch of such matrices.
CONSTANTS
  Block = 2
  NaiveBlock = 3
  MaxDim = 5
  MaxCount = 2
  IntLimit = 16
SPECIFICATION FairSpec
INVARIANTS
  AccessesInMatrix
  TilesComplete
  TiledIsReference
  KernelsAgree
PROPERTIES
  KernelEnds
CHECK_DEADLOCK FALSE
