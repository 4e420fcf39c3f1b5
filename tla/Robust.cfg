SPECIFICATION Spec
CONSTANTS
  g1 = g1
  g2 = g2
  g3 = g3
  Grippers <- MCGrippers
  OldGrippers <- MCOldGrippers
  NoGripper = NoGripper
  NTries = 2
  MaxCalls = 3
  MaxKills = 2
INVARIANTS TypeOK OwnResult NoResultAfterInterrupt TriedToTheLimit
PROPERTY EvaluationEnds
\* The manager stops when there are no more grippers to evaluate.
CHECK_DEADLOCK FALSE
