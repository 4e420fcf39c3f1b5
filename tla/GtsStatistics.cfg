SPECIFICATION Safety
CONSTANTS
  NrOfTargets = 3
  NrOfThreads = 1
  HardTimeLimit = 3
  SimTimeLimit = 2
  LastResort = 5
  SuctionCup = FALSE
  ForceSimulateAll = FALSE
  Limited = FALSE
  Physics <- MCPlain
  ParkedCollides = FALSE
  FileStatuses <- MCFileStatuses
  LoadSizes = {0, 3}
  MaxLoads = 2
  MaxPauses = 0
  AllowResume = FALSE
INVARIANT StatsMatchResults
\* A client stops when it has no more tasks to load.
CHECK_DEADLOCK FALSE
