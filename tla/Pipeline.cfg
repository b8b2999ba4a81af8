\* Every host program, up to three jobs a round, events reused over two rounds.
CONSTANTS
  Streams <- MCStreams
  Events <- MCEvents
  Locations <- MCLocations
  Configs <- MCConfigs
  MaxJobs = 3
  MaxRounds = 2
SPECIFICATION FairSpec
INVARIANTS
  ReadsAreReady
  DeliveredIsRight
  QuietWhenFreed
  TimersComplete
  ControlCaseSerial
PROPERTIES
  ResultsArriveInOrder
  EveryRoundEnds
CHECK_DEADLOCK FALSE
