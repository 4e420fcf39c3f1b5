SPECIFICATION Spec
CONSTANTS
  p1 = p1
  p2 = p2
  p3 = p3
  q1 = q1
  q2 = q2
  Poses <- FewPoses
  Perturbed <- NewTargets
  Near <- MCNear
  NGrasps = 2
  MaxFailures = 1
  Sources <- PlannerAndFile
  FilterLists <- ClearingAndPerturbing
  IndexLists <- AllIndices
  MaxRounds = 2
INVARIANTS TypeOK OwnVerdicts PlannedGraspsOnly CoverageLosesNoRegion FaultOnlyAtFirst
PROPERTIES RoundRunsDown EvaluationEnds
\* The process ends after its last evaluation, and when it faults.
CHECK_DEADLOCK FALSE
