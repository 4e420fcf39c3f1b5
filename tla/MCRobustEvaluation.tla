------------------------- MODULE MCRobustEvaluation -------------------------
(* Three grippers, one of them of a class the manager does not evaluate.   *)
EXTENDS RobustEvaluation

CONSTANTS g1, g2, g3

MCGrippers == {g1, g2, g3}
MCOldGrippers == {g1, g2}
=============================================================================
