SPECIFICATION Spec
CONSTANTS
  NrOfTargets = 2
  NrOfThreads = 2
  HardTimeLimit = 3
  SimTimeLimit = 5
  LastResort = 5
  SuctionCup = TRUE
  ForceSimulateAll = TRUE
  Limited = FALSE
  Physics <- MCFew
  ParkedCollides = FALSE
  FileStatuses <- MCUnmarked
  LoadSizes = {2}
  MaxLoads = 1
  MaxPauses = 1
  AllowResume = TRUE
INVARIANT ExclusiveGrasp
INVARIANT AllDecided
INVARIANT StatsNeverOvercount
PROPERTY RunsDown
PROPERTY SimulationEnds
PROPERTY PauseCompletes
\* A client stops when it has no more tasks to load.
CHECK_DEADLOCK FALSE
