------------------------ MODULE MCEvaluationProcess ------------------------
(* The tools' configurations, on a few targets.                            *)
EXTENDS EvaluationProcess

CONSTANTS p1, p2, p3, q1, q2

FewPoses == {p1, p2, p3}
NewTargets == {q1, q2}

Chain(s) == s \cup {<<b, a>> : <<a, b>> \in s}
MCNear == Chain({<<p1, p2>>, <<p2, p3>>, <<q1, q2>>})

\* optimize_gripper and generate_grippers, with and without --filters perturb.
ClearingAndPerturbing == {<<"clear">>, <<"clear", "perturb">>}

PlannerAndFile == {"planner", "file"}

\* The default of the option indices, and one with an index no calculator computes.
DefaultIndices == {<<"success", "alignment", "coverage", "wrench", "stress", "volume">>}
SomeIndices == {<<"coverage", "success">>, <<"significance", "robustness">>}
AllIndices == DefaultIndices \cup SomeIndices
=============================================================================
