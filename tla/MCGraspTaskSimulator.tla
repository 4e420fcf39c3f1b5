------------------------ MODULE MCGraspTaskSimulator ------------------------
(* The physics the model-checking runs of GraspTaskSimulator choose from.  *)
EXTENDS GraspTaskSimulator

Moves == {"stay", "go", "lost", "slip"}

\* No collision during a grasp, and no slip: one verdict for a grasp, as it is counted.
MCPlain == [wall : BOOLEAN, err : BOOLEAN, col : {FALSE},
            move : Moves \ {"slip"}, over : {FALSE}]

\* A grasp goes on, goes right, or goes wrong in one way.
MCFew == [wall : {FALSE}, err : {FALSE}, col : {FALSE},
          move : {"stay", "go", "lost"}, over : {FALSE}]

\* Everything a callback can tell apart: an error or a collision ends the grasp before
\* its phases look at the move, and a limit matters to a grasp that goes right.
MCEverything ==
  {o \in Observation : /\ o.err \/ o.col => o.move = "go" /\ ~o.over
                       /\ o.over => o.move = "go"}

MCSomeSkipped == {"UnInitialized", "Skip"}
MCFileStatuses == {"UnInitialized", "Success", "Skip"}
MCUnmarked == {"UnInitialized"}
=============================================================================
