---------------------------- MODULE Optimization ----------------------------
(***************************************************************************)
(* A search for the parameters of a gripper: OptimizationManager.optimize  *)
(* with its chain of decorators around the objective function, the         *)
(* optimizers it may be given, and what optimize_gripper does with the     *)
(* result.                                                                 *)
(*                                                                         *)
(* A point is named by the number of its evaluation.  Where the points     *)
(* are is geometry (steps, reflections, random directions, trust regions)  *)
(* and stays out; what the objective says of a point is chosen anew at     *)
(* every evaluation, since grasps are planned at random.  Whether the      *)
(* step size or the simplex is small enough to stop is chosen as well.     *)
(***************************************************************************)
EXTENDS Integers, Sequences

CONSTANTS
    Optimizers,       \* which optimizers a run may use
    Dim,              \* parameters that are optimized
    MaxEvaluations,   \* maxNOfEvaluations of the configuration
    Quality,          \* the combined qualities a gripper may have
    NaN               \* the quality that is not a number

ASSUME OptimizersAssumption ==
    Optimizers \subseteq {"coord", "powell", "simu", "simplex", "bobyqa", "rbf"}
ASSUME DimAssumption == Dim \in Nat \ {0}
ASSUME MaxAssumption == MaxEvaluations \in Nat
ASSUME QualityAssumption == Quality \subseteq Int \cup {NaN} /\ NaN \notin Int

VARIABLES
    optimizer, dir, constrained,   \* the arguments of the search
    pc,         \* where the one thread is
    evals,      \* every evaluation: what the objective was asked and said
    log,        \* _log of the manager
    best,       \* the point to return: m, current_guess, best_state, resultQ
    current,    \* current_state of the annealing
    vertices,   \* the simplex
    next,       \* the vertex, or the node of rbfopt, that comes next
    saved       \* the point in the result file, 0 without a file

vars == <<optimizer, dir, constrained, pc, evals, log, best, current,
          vertices, next, saved>>
settings == <<optimizer, dir, constrained>>

----------------------------------------------------------------------------
(* The decorators, from the inside out.                                    *)

(* RevertedFunction                                                        *)
Reverted(q) == IF q = NaN THEN NaN ELSE -q

(* A slip: the direction is taken for the other one.                       *)
OtherDirection(e) == IF ~e.met THEN 0
                     ELSE IF dir = "minimize" THEN Reverted(e.q) ELSE e.q

(* ConstrainedFunction: 0.0 outside of the box, whatever the direction.    *)
Objective(e) == IF ~e.met THEN 0
                ELSE IF dir = "maximize" THEN Reverted(e.q) ELSE e.q

(* An evaluation: whether the point met the constraint and so reached the  *)
(* gripper, the quality the gripper got, and what the optimizer is told.   *)
Value == {0} \cup Quality \cup {Reverted(q) : q \in Quality}
Evaluation == [met : BOOLEAN, q : Quality \cup {NaN}, value : Value]

(* Comparison of doubles: false if one of the two is a NaN.                *)
Less(a, b) == a # NaN /\ b # NaN /\ a < b

ValueOf(es, i) == es[i].value

(* Point i has a smaller value than point j.                               *)
Beats(es, i, j) == Less(ValueOf(es, i), ValueOf(es, j))

(* BoxConstraint: nothing is known of a gripper outside of the box, and    *)
(* without constraints every point is evaluated.                           *)
Answers == {e \in Evaluation : /\ constrained \/ e.met
                               /\ IF e.met THEN e.q \in Quality ELSE e.q = NaN
                               /\ e.value = Objective(e)}

(* One evaluation that returns: the gripper is built, evaluated and its    *)
(* qualities combined; CallbackFunction, innermost, logs the points that   *)
(* reach it with their quality as it is.                                   *)
Evaluate(e) ==
    /\ evals' = Append(evals, e)
    /\ log' = IF e.met THEN Append(log, [point |-> Len(evals) + 1, q |-> e.q])
              ELSE log

Ended == {"saved", "lost", "aborted"}

(* Neither the optimizers nor optimize_gripper catch anything: what a      *)
(* builder, a simulation, a calculator, a library or the saving of a file  *)
(* throws ends the program, and nothing is saved.                          *)
Throws ==
    /\ pc \notin Ended
    /\ pc' = IF pc = "mapped" THEN "lost" ELSE "aborted"
    /\ UNCHANGED <<settings, evals, log, best, current, vertices, next, saved>>

----------------------------------------------------------------------------
(* The initial guess comes first; the simplex makes vertices of it, and    *)
(* rbfopt does not look at it.                                             *)
AskGuess ==
    /\ pc = "guess"
    /\ optimizer \notin {"simplex", "rbf"}
    /\ \E e \in Answers : Evaluate(e)
    /\ best' = 1
    /\ current' = 1
    /\ pc' = CASE optimizer \in {"coord", "powell"} -> "minus"
               [] optimizer = "simu" -> "neighbour"
               [] OTHER -> "model"
    /\ UNCHANGED <<settings, vertices, next, saved>>

(* A turn of the coordinate descent and of Powell's method: a step back    *)
(* along the direction, a step forth, and the better one is kept.          *)
TryMinus ==
    /\ pc = "minus"
    /\ \E e \in Answers : Evaluate(e)
    /\ pc' = "plus"
    /\ UNCHANGED <<settings, best, current, vertices, next, saved>>

(* The better one of two points, the first if they are equal.              *)
Better(es, i, j) == IF Beats(es, j, i) THEN j ELSE i

(* A slip: the limit counts turns instead of evaluations.                  *)
TryPlusCountsTurns ==
    /\ pc = "plus"
    /\ \E e \in Answers :
         /\ Evaluate(e)
         /\ LET n == Len(evals)
                es == Append(evals, e)
            IN  best' = Better(es, Better(es, best, n), n + 1)
    /\ \E small \in BOOLEAN :
         pc' = IF small \/ Len(evals) > 2 * MaxEvaluations THEN "mapped"
               ELSE "minus"
    /\ UNCHANGED <<settings, current, vertices, next, saved>>

TryPlus ==
    /\ pc = "plus"
    /\ \E e \in Answers :
         /\ Evaluate(e)
         /\ LET n == Len(evals)
                es == Append(evals, e)
            IN  best' = Better(es, Better(es, best, n), n + 1)
    /\ \E small \in BOOLEAN :
         pc' = IF small \/ Len(evals) + 1 > MaxEvaluations THEN "mapped"
               ELSE "minus"
    /\ UNCHANGED <<settings, current, vertices, next, saved>>

CoordinateDescent == optimizer = "coord" /\ (TryMinus \/ TryPlus)

(* Powell's method differs in the directions only.                         *)
Powell == optimizer = "powell" /\ (TryMinus \/ TryPlus)

----------------------------------------------------------------------------
(* Simulated annealing: a smaller value is always taken, an equal or       *)
(* larger one with a probability; a NaN never is.  The temperature falls   *)
(* to zero after MaxEvaluations turns, one turn later than the limit.      *)
MayAccept(es, i, j) == IF Beats(es, i, j) THEN {TRUE}
                       ELSE IF ValueOf(es, i) = NaN \/ ValueOf(es, j) = NaN THEN {FALSE}
                       ELSE IF ValueOf(es, i) = ValueOf(es, j) THEN {TRUE}
                       ELSE BOOLEAN

(* A slip: the state of the annealing is returned, not the best one.       *)
AnnealForgetsBest ==
    /\ pc = "neighbour"
    /\ \E e \in Answers :
         /\ Evaluate(e)
         /\ LET n == Len(evals) + 1
                es == Append(evals, e)
            IN  \E accept \in MayAccept(es, n, current) :
                  /\ current' = IF accept THEN n ELSE current
                  /\ best' = current'
    /\ pc' = IF Len(evals) + 1 < MaxEvaluations THEN "neighbour" ELSE "mapped"
    /\ UNCHANGED <<settings, vertices, next, saved>>

Anneal ==
    /\ pc = "neighbour"
    /\ \E e \in Answers :
         /\ Evaluate(e)
         /\ LET n == Len(evals) + 1
                es == Append(evals, e)
            IN  \E accept \in MayAccept(es, n, current) :
                  /\ current' = IF accept THEN n ELSE current
                  /\ best' = Better(es, best, current')
    /\ pc' = IF Len(evals) + 1 < MaxEvaluations THEN "neighbour" ELSE "mapped"
    /\ UNCHANGED <<settings, vertices, next, saved>>

----------------------------------------------------------------------------
(* The simplex.                                                            *)

(* The vertices are sorted: the first one is the best.                     *)
Worst == vertices[Dim + 1]
SecondWorst == vertices[Dim]

Shuffles == {p \in [1..Dim + 1 -> 1..Dim + 1] :
               \A i \in 1..Dim + 1 : \E j \in 1..Dim + 1 : p[j] = i}

(* std::sort with vertexComp: equal values in any order; with a NaN the    *)
(* comparison is no strict weak ordering, and any order may come out.      *)
Sorts(es, vs) ==
    LET inOrder(t) ==
          (\A i \in 1..Dim + 1 : ValueOf(es, vs[i]) # NaN)
            => \A i, j \in 1..Dim + 1 : i < j => ~Beats(es, t[j], t[i])
    IN  {t \in {[i \in 1..Dim + 1 |-> vs[p[i]]] : p \in Shuffles} : inOrder(t)}

BuildSimplex ==
    /\ pc = "guess"
    /\ optimizer = "simplex"
    /\ LET n == Len(evals) + 1
       IN  \E e \in Answers :
             /\ Evaluate(e)
             /\ IF n <= Dim
                THEN /\ vertices' = [vertices EXCEPT ![n] = n]
                     /\ pc' = "guess"
                ELSE /\ vertices' \in Sorts(Append(evals, e),
                                            [vertices EXCEPT ![n] = n])
                     /\ pc' = "reflect"
    /\ UNCHANGED <<settings, best, current, next, saved>>

(* A slip: the result is taken before the vertices are sorted.             *)
ResultBeforeSort(es, vs) ==
    /\ vertices' \in Sorts(es, vs)
    /\ best' = vs[1]
    /\ \E small \in BOOLEAN :
         pc' = IF small \/ Len(es) >= MaxEvaluations THEN "mapped" ELSE "reflect"

(* The end of a turn: the vertices vs are sorted and the first of them is  *)
(* the result so far.                                                      *)
EndTurn(es, vs) ==
    /\ vertices' \in Sorts(es, vs)
    /\ best' = vertices'[1]
    /\ \E small \in BOOLEAN :
         pc' = IF small \/ Len(es) >= MaxEvaluations THEN "mapped" ELSE "reflect"

ReplaceWorst(n) == [vertices EXCEPT ![Dim + 1] = n]

Reflect ==
    /\ pc = "reflect"
    /\ \E e \in Answers :
         /\ Evaluate(e)
         /\ LET es == Append(evals, e)
                n == Len(es)
            IN  \/ /\ Beats(es, n, vertices[1])
                   /\ pc' = "expand"
                   /\ UNCHANGED <<best, vertices>>
                \/ /\ ~Beats(es, n, vertices[1])
                   /\ Beats(es, n, SecondWorst)
                   /\ EndTurn(es, ReplaceWorst(n))
                \/ /\ ~Beats(es, n, vertices[1])
                   /\ ~Beats(es, n, SecondWorst)
                   /\ pc' = "contract"
                   /\ UNCHANGED <<best, vertices>>
    /\ UNCHANGED <<settings, current, next, saved>>

(* The reflected point is the one evaluated last.                          *)
Expand ==
    /\ pc = "expand"
    /\ \E e \in Answers :
         /\ Evaluate(e)
         /\ LET n == Len(evals) + 1
                es == Append(evals, e)
            IN  EndTurn(es, ReplaceWorst(IF Beats(es, n, n - 1) THEN n ELSE n - 1))
    /\ UNCHANGED <<settings, current, next, saved>>

Contract ==
    /\ pc = "contract"
    /\ \E e \in Answers :
         /\ Evaluate(e)
         /\ LET es == Append(evals, e)
                n == Len(es)
            IN  IF Beats(es, n, Worst)
                THEN EndTurn(es, ReplaceWorst(n)) /\ UNCHANGED next
                ELSE /\ pc' = "reduce"
                     /\ next' = 2
                     /\ UNCHANGED <<best, vertices>>
    /\ UNCHANGED <<settings, current, saved>>

(* A slip: the reduction does not get past the last vertex.                *)
ReduceNeverEnds ==
    /\ pc = "reduce"
    /\ next <= Dim
    /\ \E e \in Answers : Evaluate(e)
    /\ vertices' = [vertices EXCEPT ![next] = Len(evals) + 1]
    /\ next' = next + 1
    /\ UNCHANGED <<settings, pc, best, current, saved>>

(* Every vertex but the best one is moved and evaluated.                   *)
Reduce ==
    /\ pc = "reduce"
    /\ \E e \in Answers :
         /\ Evaluate(e)
         /\ LET es == Append(evals, e)
                vs == [vertices EXCEPT ![next] = Len(es)]
            IN  IF next = Dim + 1
                THEN EndTurn(es, vs) /\ UNCHANGED next
                ELSE /\ vertices' = vs
                     /\ next' = next + 1
                     /\ UNCHANGED <<best, pc>>
    /\ UNCHANGED <<settings, current, saved>>

----------------------------------------------------------------------------
(* The two optimizers of libraries ask, and return the best of all points. *)
LibraryAsks ==
    /\ pc = "model"
    /\ Len(evals) < MaxEvaluations
    /\ \E e \in Answers : Evaluate(e)
    /\ UNCHANGED <<settings, pc, best, current, vertices, next, saved>>

(* A slip: the last point is returned, not the best one.                   *)
LastIsReturned ==
    /\ pc = "model"
    /\ best' = Len(evals)
    /\ pc' = "mapped"
    /\ UNCHANGED <<settings, evals, log, current, vertices, next, saved>>

LibraryReturns ==
    /\ pc = "model"
    /\ \E i \in 1..Len(evals) :
         /\ (\A j \in 1..Len(evals) : ValueOf(evals, j) # NaN)
              => \A j \in 1..Len(evals) : ~Beats(evals, j, i)
         /\ best' = i
    /\ pc' = "mapped"
    /\ UNCHANGED <<settings, evals, log, current, vertices, next, saved>>

(* dlib's BOBYQA needs 2 * Dim + 1 interpolation points before it can      *)
(* return.  It throws when it would need more evaluations than it may use, *)
(* or when its numbers degenerate.                                         *)
Bobyqa ==
    /\ optimizer = "bobyqa"
    /\ \/ LibraryAsks
       \/ Len(evals) >= 2 * Dim + 1 /\ LibraryReturns
       \/ pc = "model" /\ Len(evals) >= MaxEvaluations /\ Throws

(* A slip: one node too many.                                              *)
OneNodeMore ==
    /\ \/ pc = "guess"
       \/ pc = "nodes"
       \/ pc = "model" /\ Len(evals) < MaxEvaluations
    /\ \E e \in Answers : Evaluate(e)
    /\ LET node == IF pc = "nodes" THEN next ELSE 1
       IN  /\ next' = IF node <= Dim + 1 THEN node + 1 ELSE next
           /\ pc' = IF node <= Dim + 1 THEN "nodes" ELSE "model"
    /\ UNCHANGED <<settings, best, current, vertices, saved>>

(* rbfopt starts from Dim + 1 nodes, whatever its limits are, and starts   *)
(* over from new ones when it keeps discarding points.                     *)
RbfNodes ==
    /\ \/ pc = "guess"
       \/ pc = "nodes"
       \/ pc = "model" /\ Len(evals) < MaxEvaluations
    /\ \E e \in Answers : Evaluate(e)
    /\ LET node == IF pc = "nodes" THEN next ELSE 1
       IN  /\ next' = IF node <= Dim THEN node + 1 ELSE next
           /\ pc' = IF node <= Dim THEN "nodes" ELSE "model"
    /\ UNCHANGED <<settings, best, current, vertices, saved>>

Rbf == optimizer = "rbf" /\ (RbfNodes \/ LibraryAsks \/ LibraryReturns)

----------------------------------------------------------------------------
(* A slip: only a search that logged something is saved.                   *)
SaveLogged ==
    /\ pc = "mapped"
    /\ Len(log) > 0
    /\ saved' = best
    /\ pc' = "saved"
    /\ UNCHANGED <<settings, evals, log, best, current, vertices, next>>

(* main of optimize_gripper builds the gripper of the result, evaluates it *)
(* once more, outside of the decorators, and saves it.                     *)
SaveResult ==
    /\ pc = "mapped"
    /\ saved' = best
    /\ pc' = "saved"
    /\ UNCHANGED <<settings, evals, log, best, current, vertices, next>>

Init ==
    /\ optimizer \in Optimizers
    /\ dir \in {"maximize", "minimize"}
    /\ constrained \in BOOLEAN
    /\ pc = "guess"
    /\ evals = <<>>
    /\ log = <<>>
    /\ best = 0
    /\ current = 0
    /\ vertices = [i \in 1..Dim + 1 |-> 0]
    /\ next = 2
    /\ saved = 0

Proceed == \/ AskGuess \/ CoordinateDescent \/ Powell \/ Anneal
           \/ BuildSimplex \/ Reflect \/ Expand \/ Contract \/ Reduce
           \/ Bobyqa \/ Rbf
           \/ SaveResult

Next == Proceed \/ Throws

(* One thread in loops that end; that an evaluation ends is Termination of *)
(* EvaluationProcess.  Exceptions are never promised, but for BOBYQA's.    *)
Fairness == WF_vars(Proceed)

Spec == Init /\ [][Next]_vars /\ Fairness

----------------------------------------------------------------------------
(* What is returned, kept or saved is the number of a point that was       *)
(* evaluated, and the simplex has only such vertices.                      *)
TypeOK ==
    /\ optimizer \in Optimizers
    /\ dir \in {"maximize", "minimize"}
    /\ constrained \in BOOLEAN
    /\ pc \in {"guess", "minus", "plus", "neighbour", "reflect", "expand",
              "contract", "reduce", "model", "nodes",
              "mapped"} \cup Ended
    /\ evals \in Seq(Evaluation)
    /\ log \in Seq([point : Nat, q : Quality \cup {NaN}])
    /\ best \in 0..Len(evals)
    /\ current \in 0..Len(evals)
    /\ vertices \in [1..Dim + 1 -> 0..Len(evals)]
    /\ next \in 2..Dim + 1
    /\ saved \in 0..Len(evals)

Found == pc \in {"mapped", "saved", "lost"}

Points == 1..Len(evals)

IsNumber(i) == ValueOf(evals, i) # NaN

(* These three compare every point with the best one so far.               *)
Tracking == {"coord", "powell", "simu"}

(* The point that is returned is a number and no point that was evaluated  *)
(* beats it.  The simplex and the libraries promise it if all values are   *)
(* numbers; the others if the value of the initial guess is one: from a    *)
(* NaN they never move.                                                    *)
BestIsReturned ==
    /\ Found
    /\ \/ \A i \in Points : IsNumber(i)
       \/ optimizer \in Tracking /\ IsNumber(1)
    => /\ best \in Points
         /\ IsNumber(best)
         /\ \A i \in Points : ~Beats(evals, i, best)

(* Quality a is better than b in the direction of the search.              *)
Preferred(a, b) == IF dir = "maximize" THEN a > b ELSE a < b

(* The gripper in the result file against the log of qualities: through    *)
(* the reversal and the default value it is still a gripper of the log     *)
(* with the best quality there, unless no logged quality is better than    *)
(* the 0.0 of points outside of the box.                                   *)
SavedIsBestOfLog ==
    pc = "saved" /\ (\A i \in Points : IsNumber(i)) =>
      LET entry == {k \in 1..Len(log) : log[k].point = saved}
      IN  IF entry = {}
          THEN \A k \in 1..Len(log) : ~Preferred(log[k].q, 0)
          ELSE \A k \in 1..Len(log), m \in entry : ~Preferred(log[k].q, log[m].q)

(* The limit is looked at between turns, and the first turn is made        *)
(* whatever it is: how many evaluations a search may make.                 *)
AtLeast(n) == IF MaxEvaluations < n THEN n ELSE MaxEvaluations

Budget == CASE optimizer \in {"coord", "powell"} -> AtLeast(1) + 2
            [] optimizer = "simu" -> AtLeast(2)
            [] optimizer = "simplex" -> AtLeast(Dim + 2) + Dim + 1
            [] optimizer = "rbf" -> AtLeast(1) + Dim
            [] optimizer = "bobyqa" -> AtLeast(1)

(* No optimizer exceeds its limit by more than one turn.                   *)
WithinBudget == Len(evals) <= Budget

(* Every search ends.                                                      *)
Termination == <>(pc \in Ended)

(* The search as the optimizers' interface describes it.                   *)
AbstractSearch ==
    INSTANCE Search WITH
        Scalar <- Value,
        values <- [i \in Points |-> ValueOf(evals, i)],
        returned <- IF Found THEN best ELSE 0

(* Every optimizer behind the decorators is such a search.                 *)
ImplementsSearch == AbstractSearch!SearchSpec
=============================================================================
