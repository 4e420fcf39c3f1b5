------------------------------- MODULE Search -------------------------------
(***************************************************************************)
(* What every optimizer promises of "minimize" (Optimizer.hpp): it         *)
(* evaluates the objective at points of its own choosing and returns one   *)
(* of them that no other beats.  How the points are chosen, and how often  *)
(* the objective is asked, is left open; a search that is ended by an      *)
(* exception returns nothing.                                              *)
(***************************************************************************)
EXTENDS Integers, Sequences

CONSTANTS Scalar,   \* the values the objective takes
          NaN       \* the value that is not a number

VARIABLES values,   \* the value of every point, in the order of evaluation
          returned  \* the number of the point that is returned, 0 for none

searchVars == <<values, returned>>

(* Comparison of doubles: false if one of the two is a NaN.                *)
Less(a, b) == a # NaN /\ b # NaN /\ a < b

(* Point i may be returned: among numbers it is one of the least.          *)
Unbeaten(vs, i) == (\A j \in 1..Len(vs) : vs[j] # NaN)
                     => \A j \in 1..Len(vs) : ~Less(vs[j], vs[i])

SearchInit == values = <<>> /\ returned = 0

Ask == \E v \in Scalar : values' = Append(values, v)

Return == \E i \in 1..Len(values') : Unbeaten(values', i) /\ returned' = i

(* The last question and the choice of the result may be one step.         *)
SearchNext == /\ returned = 0
              /\ Ask \/ UNCHANGED values
              /\ Return \/ UNCHANGED returned

SearchSpec == SearchInit /\ [][SearchNext]_searchVars
=============================================================================
