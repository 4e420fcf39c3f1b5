SPECIFICATION Safety
CONSTANTS
  NrOfTargets = 2
  NrOfThreads = 2
  HardTimeLimit = 3
  SimTimeLimit = 2
  LastResort = 5
  SuctionCup = FALSE
  ForceSimulateAll = FALSE
  Limited = TRUE
  Physics <- MCEverything
  ParkedCollides = TRUE
  FileStatuses <- MCSomeSkipped
  LoadSizes = {2}
  MaxLoads = 2
  MaxPauses = 1
  AllowResume = FALSE
INVARIANT TypeOK
INVARIANT NoTargetLost
INVARIANT NrNeverOvercounts
PROPERTY DecidedIsFinal
PROPERTY ImplementsPool
\* A client stops when it has no more tasks to load.
CHECK_DEADLOCK FALSE
