SPECIFICATION Safety
CONSTANTS
  NrOfTargets = 2
  NrOfThreads = 2
  HardTimeLimit = 3
  SimTimeLimit = 5
  LastResort = 5
  SuctionCup = FALSE
  ForceSimulateAll = FALSE
  Limited = FALSE
  Physics <- MCFew
  ParkedCollides = FALSE
  FileStatuses <- MCUnmarked
  LoadSizes = {2}
  MaxLoads = 1
  MaxPauses = 0
  AllowResume = FALSE
INVARIANT AllCountedAtEnd
\* A client stops when it has no more tasks to load.
CHECK_DEADLOCK FALSE
