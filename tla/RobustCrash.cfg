SPECIFICATION Safety
CONSTANTS
  g1 = g1
  g2 = g2
  g3 = g3
  Grippers <- MCGrippers
  OldGrippers <- MCOldGrippers
  NoGripper = NoGripper
  NTries = 2
  MaxCalls = 1
  MaxKills = 0
INVARIANT RetriedAfterCrash
CHECK_DEADLOCK FALSE
