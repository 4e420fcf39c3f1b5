----------------------- MODULE EvaluationProcessProofs -----------------------
(***************************************************************************)
(* For any number of evaluations, targets and indices: what the results    *)
(* carry over from one evaluation to the next does no harm when the filter *)
(* chain begins with ClearStatusFilter, as it does in optimize_gripper and *)
(* generate_grippers.                                                      *)
(***************************************************************************)
EXTENDS EvaluationProcess, FiniteSetTheorems, TLAPS

ClearsFirst == \A f \in FilterLists : 1 \in DOMAIN f /\ f[1] = "clear"

(* The part of the type invariant that the others rest on.                 *)
ResultsOK ==
  /\ config \in [source : Sources, filters : FilterLists, indices : IndexLists]
  /\ round \in Nat /\ step \in Nat \ {0}
  /\ drawn \subseteq Targets /\ grasps \subseteq Targets
  /\ status \in [Targets -> Status] /\ judged \in [Targets -> Nat]

(* How far the results of the grasps passed on have come.                  *)
Fresh(p) == status[p] \in {"Skip", "UnInitialized"}
Given(p) == status[p] \in Verdicts \cup {"Filtered"} /\ judged[p] = round

Phase ==
  /\ (at = "filter" /\ step > 1) \/ at = "load" => \A p \in grasps : Fresh(p)
  /\ at = "run" => \A p \in grasps : Fresh(p) \/ Given(p)
  /\ at \in {"calculate", "extract"} => \A p \in grasps : status[p] = "Skip" \/ Given(p)

(* The source keeps its grasps from the first time it has them.            *)
KeepInv ==
  /\ at \in {"filter", "load", "run", "calculate", "extract"} \/ lastQuality # 0 => planned
  /\ at \in {"plan", "fault"} => ~planned

(* The indices of an evaluation start from none.                           *)
NoIndexYet ==
  at \in {"register", "source", "plan", "filter", "load", "run"} => "coverage" \notin DOMAIN quality

IInv == ResultsOK /\ Phase /\ KeepInv /\ NoIndexYet /\ CoverageLosesNoRegion

-----------------------------------------------------------------------------
(* The second pass of the coverage filter: what is left of targets without *)
(* neighbours is all of them.                                              *)
LEMMA SecondPass ==
  ASSUME NEW N, NEW K \in Remainders(N), NEW L \in Remainders(K)
  PROVE  L = K
BY DEF Remainders

(* The filter of the coverage index marks targets that held and have a     *)
(* neighbour that still holds.                                             *)
LEMMA FilterMarks ==
  ASSUME ResultsOK, CoverageFilter,
         \A p \in grasps : status[p] \notin {"ObjectSlipped", "UnInitialized"}
  PROVE  \E K \in Remainders(Held) :
           status' = [p \in Targets |-> IF p \in Held \ K THEN "Filtered" ELSE status[p]]
<1>1. PICK K \in Remainders(Held) :
        \E L \in Remainders(WithStatus(grasps, Nodes) \ (Held \ K)) :
          status' = [p \in Targets |->
                       IF p \in (Held \ K) \cup ((WithStatus(grasps, Nodes) \ (Held \ K)) \ L)
                       THEN "Filtered" ELSE status[p]]
  BY DEF CoverageFilter
<1>2. WithStatus(grasps, Nodes) = Held
  BY DEF WithStatus, Nodes, Held
<1>3. K \subseteq Held
  BY DEF Remainders
<1>4. WithStatus(grasps, Nodes) \ (Held \ K) = K
  BY <1>2, <1>3
<1>5. PICK L \in Remainders(K) :
        status' = [p \in Targets |-> IF p \in (Held \ K) \cup (K \ L)
                                     THEN "Filtered" ELSE status[p]]
  BY <1>1, <1>4
<1>6. L = K
  BY SecondPass
<1>7. QED
  BY <1>5, <1>6

LEMMA InitIInv == Init => IInv
BY DEF Init, IInv, ResultsOK, Phase, KeepInv, NoIndexYet, CoverageLosesNoRegion, Status

(* What the steps before the simulation and after the calculators do.      *)
LEMMA FrameStep ==
  ASSUME ClearsFirst, IInv,
         \/ VectorToGripper \/ BuilderThrows \/ Throws \/ SourceThrows \/ RegisterGripper
         \/ SourceHas \/ PlanGrasps \/ Filtered \/ LoadTasks \/ SimulationEnds
         \/ SetQuality \/ Extract \/ UNCHANGED vars
  PROVE  IInv'
<1> USE DEF IInv, ResultsOK, plan, results, last
<1>1. ResultsOK'
  BY EvaluationAssumption DEF VectorToGripper, BuilderThrows, Throws, SourceThrows,
     RegisterGripper, SourceHas, PlanGrasps, Filtered, LoadTasks, SimulationEnds, SetQuality,
     Extract, vars, Targets
<1>2. Phase'
  <2> USE DEF Phase, Fresh, Given
  <2>1. CASE Filtered
    BY <2>1 DEF Filtered, ClearsFirst
  <2>2. CASE SimulationEnds
    BY <2>2 DEF SimulationEnds, WithStatus
  <2>3. CASE VectorToGripper \/ BuilderThrows
    BY <2>3 DEF VectorToGripper, BuilderThrows
  <2>4. CASE \/ Throws \/ SourceThrows \/ RegisterGripper \/ SourceHas \/ PlanGrasps
             \/ LoadTasks \/ SetQuality \/ Extract \/ UNCHANGED vars
    BY <2>4 DEF Throws, SourceThrows, RegisterGripper, SourceHas, PlanGrasps, LoadTasks,
       SetQuality, Extract, vars
  <2>5. QED
    BY <2>1, <2>2, <2>3, <2>4
<1>3. KeepInv'
  BY DEF KeepInv, VectorToGripper, BuilderThrows, Throws, SourceThrows,
     RegisterGripper, SourceHas, PlanGrasps, Filtered, LoadTasks, SimulationEnds, SetQuality,
     Extract, vars
<1>4. NoIndexYet' /\ CoverageLosesNoRegion'
  <2>1. CASE VectorToGripper \/ BuilderThrows
    <3>1. "coverage" \notin DOMAIN quality'
      BY <2>1 DEF VectorToGripper, BuilderThrows
    <3>2. QED
      BY <3>1 DEF NoIndexYet, CoverageLosesNoRegion
  <2>2. CASE SourceHas
    BY <2>2 DEF SourceHas, NoIndexYet, CoverageLosesNoRegion
  <2>3. CASE \/ Throws \/ SourceThrows \/ RegisterGripper \/ PlanGrasps \/ Filtered
             \/ LoadTasks \/ SimulationEnds \/ SetQuality \/ Extract \/ UNCHANGED vars
    <3>1. /\ UNCHANGED <<grasps, status, quality>>
          /\ at' \in {"calculate", "extract"} => at \in {"run", "calculate", "extract"}
          /\ NoIndexYet'
      BY <2>3 DEF NoIndexYet, Throws, SourceThrows, RegisterGripper, PlanGrasps, Filtered,
         LoadTasks, SimulationEnds, SetQuality, Extract, vars
    <3>2. Held' = Held
      BY <3>1 DEF Held, WithStatus
    <3>3. QED
      BY <3>1, <3>2 DEF NoIndexYet, CoverageLosesNoRegion
  <2>4. QED
    BY <2>1, <2>2, <2>3
<1>5. QED
  BY <1>1, <1>2, <1>3, <1>4

(* What the steps do that write to results.                                *)
LEMMA ResultStep ==
  ASSUME ClearsFirst, IInv,
         \/ \E P \in SUBSET Poses : LoadGrasps(P)
         \/ \E p \in Poses : DrawFree(p) \/ DrawColliding(p)
         \/ GiveUp \/ PlanDone \/ ClearStatus \/ Perturb
         \/ \E p \in Targets : Simulate(p)
  PROVE  IInv'
<1> USE DEF IInv, ResultsOK, plan, results, last
<1>1. ASSUME NEW P \in SUBSET Poses, LoadGrasps(P) PROVE IInv'
  BY <1>1 DEF LoadGrasps, Targets, Phase, KeepInv, NoIndexYet, CoverageLosesNoRegion
<1>2. ASSUME NEW p \in Poses, DrawFree(p) \/ DrawColliding(p) PROVE IInv'
  BY <1>2 DEF DrawFree, DrawColliding, AddTarget, Targets, Status, Phase, KeepInv,
     NoIndexYet, CoverageLosesNoRegion
<1>3. CASE GiveUp \/ PlanDone
  BY <1>3 DEF GiveUp, PlanDone, Keep, Phase, KeepInv, NoIndexYet, CoverageLosesNoRegion
<1>4. CASE ClearStatus
  BY <1>4 DEF ClearStatus, Cleared, Status, Phase, Fresh, KeepInv, NoIndexYet, CoverageLosesNoRegion
<1>5. CASE Perturb
  BY <1>5 DEF Perturb, Targets, Status, Phase, Fresh, KeepInv, NoIndexYet, CoverageLosesNoRegion
<1>6. ASSUME NEW p \in Targets, Simulate(p) PROVE IInv'
  BY <1>6 DEF Simulate, Verdicts, Status, Phase, Fresh, Given, KeepInv, NoIndexYet, CoverageLosesNoRegion
<1>7. QED
  BY <1>1, <1>2, <1>3, <1>4, <1>5, <1>6

(* A calculator leaves verdicts of this evaluation, and the regions held.  *)
LEMMA CalculateStep ==
  ASSUME IInv, NEW k \in Known, Calculate(k)
  PROVE  IInv'
<1> USE DEF IInv, ResultsOK, plan, last
<1>1. /\ at = "calculate" /\ at' = "calculate"
      /\ UNCHANGED <<config, round, plan, grasps, judged, last>>
      /\ step' = step + 1
  BY DEF Calculate
<1>2. KeepInv' /\ NoIndexYet'
  BY <1>1 DEF KeepInv, NoIndexYet
<1>3. CASE k = "coverage"
  <2>1. /\ CoverageFilter
        /\ quality' = [j \in DOMAIN quality \cup {k} |->
                         IF j = k THEN [counted |-> Counted(k), outOf |-> OutOf(k)]
                         ELSE quality[j]]
    BY <1>3 DEF Calculate
  <2>2. \A p \in grasps : status[p] \notin {"ObjectSlipped", "UnInitialized"}
    BY <1>1 DEF Phase, Given, Verdicts
  <2>3. PICK K \in Remainders(Held) :
          status' = [p \in Targets |-> IF p \in Held \ K THEN "Filtered" ELSE status[p]]
    BY <2>1, <2>2, FilterMarks
  <2>4. ResultsOK'
    BY <1>1, <2>3 DEF Status
  <2>5. Phase'
    BY <1>1, <2>3 DEF Phase, Fresh, Given, Held, WithStatus
  <2>6. Held' = K
    BY <1>1, <2>3 DEF Held, WithStatus, Remainders
  <2>7. quality'["coverage"].counted = Held
    BY <1>3, <2>1 DEF Counted
  <2>8. CoverageLosesNoRegion'
    BY <2>6, <2>7 DEF CoverageLosesNoRegion, Remainders
  <2>9. QED
    BY <1>2, <2>4, <2>5, <2>8
<1>4. CASE k # "coverage"
  <2>1. /\ UNCHANGED status
        /\ "coverage" \in DOMAIN quality' => "coverage" \in DOMAIN quality
        /\ "coverage" \in DOMAIN quality' => quality'["coverage"] = quality["coverage"]
    BY <1>4 DEF Calculate
  <2>2. Held' = Held
    BY <1>1, <2>1 DEF Held, WithStatus
  <2>3. CoverageLosesNoRegion'
    BY <1>1, <2>1, <2>2 DEF CoverageLosesNoRegion
  <2>4. ResultsOK' /\ Phase'
    BY <1>1, <2>1 DEF Phase, Fresh, Given
  <2>5. QED
    BY <1>2, <2>3, <2>4
<1>5. QED
  BY <1>3, <1>4

(* The inductive invariant holds in every reachable state.                 *)
THEOREM Invariant ==
  ASSUME ClearsFirst
  PROVE  Safety => []IInv
<1>1. Init => IInv
  BY InitIInv
<1>2. IInv /\ [Next]_vars => IInv'
  BY FrameStep, ResultStep, CalculateStep DEF Next, Proceed, Source
<1>3. QED
  BY <1>1, <1>2, PTL DEF Safety

(* The indices of a gripper are computed from simulations of that gripper, *)
(* whatever the evaluations before it left in the shared results.          *)
THEOREM VerdictsAreOwn ==
  ASSUME ClearsFirst
  PROVE  Safety => []OwnVerdicts
<1>1. IInv => OwnVerdicts
  BY DEF IInv, Phase, Given, OwnVerdicts
<1>2. QED
  BY <1>1, Invariant, PTL

(* The coverage filter leaves a neighbour of every grasp it takes away, in *)
(* whatever order the search tree visits them.                             *)
THEOREM RegionsAreKept ==
  ASSUME ClearsFirst
  PROVE  Safety => []CoverageLosesNoRegion
<1>1. IInv => CoverageLosesNoRegion
  BY DEF IInv
<1>2. QED
  BY <1>1, Invariant, PTL

(* Once a gripper has been evaluated the grasps are there for ever.        *)
THEOREM FaultsOnlyAtFirst ==
  ASSUME ClearsFirst
  PROVE  Safety => []FaultOnlyAtFirst
<1>1. IInv => FaultOnlyAtFirst
  BY DEF IInv, KeepInv, FaultOnlyAtFirst
<1>2. QED
  BY <1>1, Invariant, PTL

-----------------------------------------------------------------------------
(* What the planner asked for, whatever the filters do with it: no filter, *)
(* simulation or calculator makes a pose that collided one that did not,   *)
(* or the other way round.                                                 *)

Free == {p \in drawn : status[p] # "Skip"}

PlanInv ==
  /\ planned => at # "plan"
  /\ config.source = "planner" /\ (at = "plan" \/ planned) => Cardinality(Free) = successes
  /\ config.source = "planner" /\ planned /\ successes < NGrasps => failures > MaxFailures

LEMMA DrawnIsFinite ==
  ASSUME TypeOK PROVE IsFiniteSet(drawn) /\ IsFiniteSet(Free)
BY EvaluationAssumption, FS_Subset DEF TypeOK, Free

(* The steps that neither draw a pose nor change whether one collided.     *)
LEMMA FreeKept ==
  ASSUME PlanInv, planned' => at' # "plan",
         UNCHANGED <<config, planned, drawn, successes, failures>>,
         at' = "plan" => at = "plan",
         \A p \in drawn : status'[p] = "Skip" <=> status[p] = "Skip"
  PROVE  PlanInv'
<1>1. Free' = Free
  BY DEF Free
<1>2. QED
  BY <1>1 DEF PlanInv

LEMMA InitTyped == Init => TypeOK /\ PlanInv
<1> SUFFICES ASSUME Init PROVE TypeOK /\ PlanInv
  OBVIOUS
<1>1. \A k \in DOMAIN quality : FALSE
  BY DEF Init
<1>2. TypeOK
  <2>1. /\ status \in [Targets -> Status] /\ judged \in [Targets -> Nat]
        /\ config \in [source : Sources, filters : FilterLists, indices : IndexLists]
    BY DEF Init, Status
  <2>2. /\ successes \in 0 .. NGrasps /\ failures \in 0 .. MaxFailures + 1
        /\ drawn \subseteq Poses /\ grasps \subseteq Targets
    BY EvaluationAssumption DEF Init
  <2>3. planned \in BOOLEAN
    BY DEF Init
  <2>4. /\ round \in Nat /\ step \in Nat \ {0} /\ at = "idle"
        /\ lastGripper \in Nat /\ lastQuality \in Nat /\ outcome = "none"
    BY DEF Init
  <2>5. QED
    BY <1>1, <2>1, <2>2, <2>3, <2>4 DEF TypeOK
<1>3. PlanInv
  BY DEF Init, PlanInv
<1>4. QED
  BY <1>2, <1>3

(* The steps that leave the results alone, and the planner's grasps.       *)
LEMMA FrameTyped ==
  ASSUME TypeOK, PlanInv,
         \/ VectorToGripper \/ BuilderThrows \/ Throws \/ SourceThrows \/ RegisterGripper
         \/ SourceHas \/ Filtered \/ LoadTasks \/ SimulationEnds
         \/ SetQuality \/ Extract \/ UNCHANGED vars
  PROVE  TypeOK' /\ PlanInv'
<1> USE DEF plan, results, last
<1>1. /\ UNCHANGED <<config, planned, drawn, successes, failures, status, judged>>
      /\ at' = "plan" => at = "plan"
  BY DEF VectorToGripper, BuilderThrows, Throws, SourceThrows, RegisterGripper, SourceHas,
     Filtered, LoadTasks, SimulationEnds, SetQuality, Extract, vars
<1>2. PlanInv'
  BY <1>1, FreeKept DEF PlanInv
<1>3. /\ grasps' \in {grasps, drawn} /\ step' \in {step, 1}
      /\ round' \in {round, round + 1}
      /\ lastGripper' \in {lastGripper, round + 1} /\ lastQuality' \in {lastQuality, round}
      /\ outcome' \in {outcome, "none", "threw", "returned"}
      /\ at' \in {at, "register", "idle", "source", "filter", "fault", "load", "run",
                  "calculate", "extract"}
      /\ quality' \in {quality, <<>>}
  BY DEF VectorToGripper, BuilderThrows, Throws, SourceThrows, RegisterGripper, SourceHas,
     Filtered, LoadTasks, SimulationEnds, SetQuality, Extract, vars
<1>4. \A k \in DOMAIN quality' : k \in Known /\ quality'[k] \in Index
  <2>1. CASE quality' = quality
    BY <2>1 DEF TypeOK
  <2>2. CASE quality' = <<>>
    BY <2>2
  <2>3. QED
    BY <1>3, <2>1, <2>2
<1>5. TypeOK'
  BY <1>1, <1>3, <1>4 DEF TypeOK, Targets
<1>6. QED
  BY <1>2, <1>5

(* The planner: it counts the poses that do not collide.                   *)
LEMMA PlannerTyped ==
  ASSUME TypeOK, PlanInv,
         \/ PlanGrasps \/ GiveUp \/ PlanDone
         \/ \E p \in Poses : DrawFree(p) \/ DrawColliding(p)
  PROVE  TypeOK' /\ PlanInv'
<1> USE EvaluationAssumption DEF plan, results, last
<1>1. CASE PlanGrasps
  <2>1. TypeOK'
    BY <1>1 DEF PlanGrasps, TypeOK
  <2>2. Free' = {} /\ successes' = 0 /\ ~planned'
    BY <1>1 DEF PlanGrasps, Free
  <2>3. QED
    BY <2>1, <2>2, FS_EmptySet DEF PlanInv
<1>2. CASE GiveUp \/ PlanDone
  <2>0. /\ UNCHANGED <<config, round, drawn, successes, results, quality, last, outcome>>
        /\ failures' \in {failures, MaxFailures + 1}
        /\ planned' = TRUE /\ at' = "filter" /\ grasps' = drawn /\ step' = 1
    BY <1>2 DEF GiveUp, PlanDone, Keep, TypeOK
  <2>1. TypeOK'
    BY <2>0 DEF TypeOK, Targets
  <2>2. /\ Free' = Free /\ UNCHANGED <<config, successes>> /\ at = "plan" /\ at' = "filter"
        /\ successes < NGrasps => failures' > MaxFailures
    BY <1>2 DEF GiveUp, PlanDone, Keep, Free, TypeOK
  <2>3. QED
    BY <2>1, <2>2 DEF PlanInv
<1>3. ASSUME NEW p \in Poses, DrawFree(p) PROVE TypeOK' /\ PlanInv'
  <2>1. /\ at = "plan" /\ at' = at /\ ~planned /\ ~planned' /\ p \notin drawn
        /\ config' = config
        /\ successes' = successes + 1 /\ drawn' = drawn \cup {p}
        /\ status' = [status EXCEPT ![p] = "UnInitialized"]
    BY <1>3 DEF DrawFree, AddTarget, PlanInv
  <2>2. TypeOK'
    BY <1>3 DEF DrawFree, AddTarget, TypeOK, Targets, Status
  <2>3. Free' = Free \cup {p} /\ p \notin Free
    BY <2>1 DEF Free, TypeOK, Targets
  <2>4. Cardinality(Free') = Cardinality(Free) + 1
    BY <2>3, DrawnIsFinite, FS_AddElement
  <2>5. QED
    BY <2>1, <2>2, <2>4 DEF PlanInv
<1>4. ASSUME NEW p \in Poses, DrawColliding(p) PROVE TypeOK' /\ PlanInv'
  <2>1. /\ at = "plan" /\ at' = at /\ ~planned /\ ~planned' /\ p \notin drawn
        /\ UNCHANGED <<config, successes>> /\ drawn' = drawn \cup {p}
        /\ status' = [status EXCEPT ![p] = "Skip"]
    BY <1>4 DEF DrawColliding, AddTarget, PlanInv
  <2>2. TypeOK'
    BY <1>4 DEF DrawColliding, AddTarget, TypeOK, Targets, Status
  <2>3. Free' = Free
    BY <2>1 DEF Free, TypeOK, Targets
  <2>4. QED
    BY <2>1, <2>2, <2>3 DEF PlanInv
<1>5. QED
  BY <1>1, <1>2, <1>3, <1>4

(* The file, the filters, the simulation and the calculators.              *)
LEMMA ResultTyped ==
  ASSUME TypeOK, PlanInv,
         \/ \E P \in SUBSET Poses : LoadGrasps(P)
         \/ ClearStatus \/ Perturb
         \/ \E p \in Targets : Simulate(p)
         \/ \E k \in Known : Calculate(k)
  PROVE  TypeOK' /\ PlanInv'
<1> USE EvaluationAssumption DEF plan, results, last
<1>1. ASSUME NEW P \in SUBSET Poses, LoadGrasps(P) PROVE TypeOK' /\ PlanInv'
  <2>1. TypeOK'
    <3>1. PICK s \in [P -> Status] :
            status' = [p \in Targets |-> IF p \in P THEN s[p] ELSE status[p]]
      BY <1>1 DEF LoadGrasps
    <3>2. status' \in [Targets -> Status]
      BY <3>1 DEF TypeOK
    <3>3. judged' \in [Targets -> Nat]
      BY <1>1 DEF LoadGrasps, TypeOK
    <3>4. /\ planned' = TRUE /\ drawn' = P /\ at' = "filter" /\ grasps' = P /\ step' = 1
          /\ UNCHANGED <<config, round, successes, failures, quality, lastGripper,
                         lastQuality, outcome>>
      BY <1>1 DEF LoadGrasps
    <3>5. QED
      BY <3>2, <3>3, <3>4 DEF TypeOK, Targets
  <2>2. config'.source = "file" /\ at' = "filter"
    BY <1>1 DEF LoadGrasps
  <2>3. QED
    BY <2>1, <2>2 DEF PlanInv
<1>2. CASE ClearStatus
  <2>1. TypeOK'
    BY <1>2 DEF ClearStatus, TypeOK, Status
  <2>2. /\ UNCHANGED <<config, at, planned, drawn, successes, failures>>
        /\ \A p \in drawn : status'[p] = "Skip" <=> status[p] = "Skip"
    BY <1>2 DEF ClearStatus, Cleared, TypeOK, Targets
  <2>3. QED
    BY <2>1, <2>2, FreeKept DEF PlanInv
<1>3. CASE Perturb
  <2>1. TypeOK'
    BY <1>3 DEF Perturb, TypeOK, Status, Targets
  <2>2. /\ UNCHANGED <<config, at, planned, drawn, successes, failures>>
        /\ \A p \in drawn : status'[p] = "Skip" <=> status[p] = "Skip"
    BY <1>3 DEF Perturb, TypeOK, Targets
  <2>3. QED
    BY <2>1, <2>2, FreeKept DEF PlanInv
<1>4. ASSUME NEW p \in Targets, Simulate(p) PROVE TypeOK' /\ PlanInv'
  <2>1. TypeOK'
    BY <1>4 DEF Simulate, TypeOK, Status, Verdicts
  <2>2. /\ UNCHANGED <<config, at, planned, drawn, successes, failures>>
        /\ \A q \in drawn : status'[q] = "Skip" <=> status[q] = "Skip"
    BY <1>4 DEF Simulate, TypeOK, Targets, Verdicts
  <2>3. QED
    BY <2>1, <2>2, FreeKept DEF PlanInv
<1>5. ASSUME NEW k \in Known, Calculate(k) PROVE TypeOK' /\ PlanInv'
  <2>1. /\ UNCHANGED <<config, at, round, planned, drawn, successes, failures, grasps, judged,
                       lastGripper, lastQuality, outcome>>
        /\ step' = step + 1
    BY <1>5 DEF Calculate
  <2>2. /\ status' \in [Targets -> Status]
        /\ \A q \in drawn : status'[q] = "Skip" <=> status[q] = "Skip"
    <3>1. CASE UNCHANGED status
      BY <3>1 DEF TypeOK
    <3>2. CASE CoverageFilter
      <4>1. PICK M \in SUBSET WithStatus(grasps, Nodes \cup {"Success", "Interference"}) :
              status' = [p \in Targets |-> IF p \in M THEN "Filtered" ELSE status[p]]
        BY <3>2 DEF CoverageFilter, Remainders, Held, WithStatus
      <4>2. QED
        BY <4>1 DEF TypeOK, Status, Targets, WithStatus, Nodes
    <3>3. QED
      BY <1>5, <3>1, <3>2 DEF Calculate
  <2>3. \A j \in DOMAIN quality' : j \in Known /\ quality'[j] \in Index
    <3>1. Counted(k) \in SUBSET Targets /\ OutOf(k) \in SUBSET Targets
      BY DEF Counted, OutOf, Held, WithStatus, TypeOK
    <3>2. [counted |-> Counted(k), outOf |-> OutOf(k)] \in Index
      BY <3>1 DEF Index
    <3>3. quality' = [j \in DOMAIN quality \cup {k} |->
                        IF j = k THEN [counted |-> Counted(k), outOf |-> OutOf(k)] ELSE quality[j]]
      BY <1>5 DEF Calculate
    <3>4. QED
      BY <3>2, <3>3 DEF TypeOK
  <2>4. TypeOK'
    BY <2>1, <2>2, <2>3 DEF TypeOK
  <2>5. QED
    BY <2>1, <2>2, <2>4, FreeKept DEF PlanInv
<1>6. QED
  BY <1>1, <1>2, <1>3, <1>4, <1>5

LEMMA TypedInvariant == Safety => [](TypeOK /\ PlanInv)
<1>1. Init => TypeOK /\ PlanInv
  BY InitTyped
<1>2. (TypeOK /\ PlanInv) /\ [Next]_vars => (TypeOK /\ PlanInv)'
  BY FrameTyped, PlannerTyped, ResultTyped DEF Next, Proceed, Source
<1>3. QED
  BY <1>1, <1>2, PTL DEF Safety

(* An evaluation never leaves its types, whatever filters and indices it   *)
(* is given: the planner's counters stay within their limits, and only     *)
(* known indices are computed.                                             *)
THEOREM TypeCorrect == Safety => []TypeOK
BY TypedInvariant, PTL

(* For every number of grasps and of collisions, and any filter chain: as  *)
(* many poses are free to be simulated as were asked for, also after they  *)
(* were cleared and filtered again and again, and fewer only if the        *)
(* planner gave up.                                                        *)
THEOREM PlannedAreSimulated == Safety => []PlannedGraspsOnly
<1>1. TypeOK /\ PlanInv => PlannedGraspsOnly
  <2>1. Free = drawn \ WithStatus(drawn, {"Skip"})
    BY DEF Free, WithStatus
  <2>2. QED
    BY <2>1, EvaluationAssumption DEF PlannedGraspsOnly, PlanInv, TypeOK
<1>2. QED
  BY <1>1, TypedInvariant, PTL

-----------------------------------------------------------------------------
(* Why an evaluation cannot go round for ever.                             *)

TakenOff == Pending' \subseteq Pending /\ Pending' # Pending

(* The phases left, place by place.                                        *)
LEMMA PhasesLeftAt ==
  /\ at = "register" => PhasesLeft = 8
  /\ at = "source" => PhasesLeft = 7
  /\ at = "plan" => PhasesLeft = 6
  /\ at = "filter" => PhasesLeft = 5
  /\ at = "load" => PhasesLeft = 4
  /\ at = "run" => PhasesLeft = 3
  /\ at = "calculate" => PhasesLeft = 2
  /\ at = "extract" => PhasesLeft = 1
  /\ at = "idle" => PhasesLeft = 0
  /\ at = "fault" => PhasesLeft = 0
<1>1. at = "register" => PhasesLeft = 8
  BY DEF PhasesLeft
<1>2. at = "source" => PhasesLeft = 7
  BY DEF PhasesLeft
<1>3. at = "plan" => PhasesLeft = 6
  BY DEF PhasesLeft
<1>4. at = "filter" => PhasesLeft = 5
  BY DEF PhasesLeft
<1>5. at = "load" => PhasesLeft = 4
  BY DEF PhasesLeft
<1>6. at = "run" => PhasesLeft = 3
  BY DEF PhasesLeft
<1>7. at = "calculate" => PhasesLeft = 2
  BY DEF PhasesLeft
<1>8. at = "extract" => PhasesLeft = 1
  BY DEF PhasesLeft
<1>9. at = "idle" => PhasesLeft = 0
  BY DEF PhasesLeft
<1>10. at = "fault" => PhasesLeft = 0
  BY DEF PhasesLeft
<1>11. QED
  BY <1>1, <1>2, <1>3, <1>4, <1>5, <1>6, <1>7, <1>8, <1>9, <1>10

LEMMA PhasesLeftAtNext ==
  /\ at' = "register" => PhasesLeft' = 8
  /\ at' = "source" => PhasesLeft' = 7
  /\ at' = "plan" => PhasesLeft' = 6
  /\ at' = "filter" => PhasesLeft' = 5
  /\ at' = "load" => PhasesLeft' = 4
  /\ at' = "run" => PhasesLeft' = 3
  /\ at' = "calculate" => PhasesLeft' = 2
  /\ at' = "extract" => PhasesLeft' = 1
  /\ at' = "idle" => PhasesLeft' = 0
  /\ at' = "fault" => PhasesLeft' = 0
<1>1. at' = "register" => PhasesLeft' = 8
  BY DEF PhasesLeft
<1>2. at' = "source" => PhasesLeft' = 7
  BY DEF PhasesLeft
<1>3. at' = "plan" => PhasesLeft' = 6
  BY DEF PhasesLeft
<1>4. at' = "filter" => PhasesLeft' = 5
  BY DEF PhasesLeft
<1>5. at' = "load" => PhasesLeft' = 4
  BY DEF PhasesLeft
<1>6. at' = "run" => PhasesLeft' = 3
  BY DEF PhasesLeft
<1>7. at' = "calculate" => PhasesLeft' = 2
  BY DEF PhasesLeft
<1>8. at' = "extract" => PhasesLeft' = 1
  BY DEF PhasesLeft
<1>9. at' = "idle" => PhasesLeft' = 0
  BY DEF PhasesLeft
<1>10. at' = "fault" => PhasesLeft' = 0
  BY DEF PhasesLeft
<1>11. QED
  BY <1>1, <1>2, <1>3, <1>4, <1>5, <1>6, <1>7, <1>8, <1>9, <1>10

(* The steps into a later phase.                                           *)
LEMMA LaterPhase ==
  ASSUME \/ Throws \/ SourceThrows \/ RegisterGripper \/ SourceHas \/ PlanGrasps
         \/ GiveUp \/ PlanDone \/ Filtered \/ LoadTasks \/ SimulationEnds
         \/ SetQuality \/ Extract \/ \E P \in SUBSET Poses : LoadGrasps(P)
  PROVE  PhasesLeft' < PhasesLeft
<1>1. \/ at \in {"register", "load", "calculate", "extract"} /\ at' = "idle"
      \/ at \in {"source", "plan"} /\ at' = "fault"
      \/ at = "register" /\ at' = "source"
      \/ at = "source" /\ at' \in {"filter", "plan"}
      \/ at = "plan" /\ at' = "filter"
      \/ at = "filter" /\ at' = "load"
      \/ at = "load" /\ at' = "run"
      \/ at = "run" /\ at' = "calculate"
      \/ at = "calculate" /\ at' = "extract"
  BY DEF Throws, SourceThrows, RegisterGripper, SourceHas, PlanGrasps, GiveUp, PlanDone, Keep,
     Filtered, LoadTasks, SimulationEnds, SetQuality, Extract, LoadGrasps
<1>2. QED
  BY <1>1, PhasesLeftAt, PhasesLeftAtNext

(* A pose drawn, free or not, takes the counts it reaches off.             *)
LEMMA DrawTakesOff ==
  ASSUME TypeOK, NEW p \in Poses, DrawFree(p) \/ DrawColliding(p)
  PROVE  at' = at /\ TakenOff
<1> USE EvaluationAssumption
<1> DEFINE Counts == (0 .. NGrasps) \X (0 .. MaxFailures + 1)
           Beyond(c, m, n) == c[1] > m \/ (c[1] = m /\ c[2] > n)
<1>1. /\ at = "plan" /\ at' = "plan"
      /\ successes \in 0 .. NGrasps /\ failures \in 0 .. MaxFailures + 1
      /\ successes < NGrasps
  BY DEF DrawFree, DrawColliding, TypeOK
<1>2. Pending = {c \in Counts : Beyond(c, successes, failures)}
  BY <1>1 DEF Pending
<1>3. Pending' = {c \in Counts : Beyond(c, successes', failures')}
  BY <1>1 DEF Pending
<1>4. CASE DrawFree(p)
  <2>1. successes' = successes + 1 /\ failures' = 0
    BY <1>4 DEF DrawFree
  <2>2. \A c \in Counts : Beyond(c, successes', failures') => Beyond(c, successes, failures)
    BY <1>1, <2>1
  <2>3. /\ <<successes + 1, 0>> \in Counts
        /\ Beyond(<<successes + 1, 0>>, successes, failures)
        /\ ~Beyond(<<successes + 1, 0>>, successes', failures')
    BY <1>1, <2>1
  <2>4. QED
    BY <1>1, <1>2, <1>3, <2>2, <2>3 DEF TakenOff
<1>5. CASE DrawColliding(p)
  <2>1. successes' = successes /\ failures' = failures + 1 /\ failures < MaxFailures
    BY <1>5 DEF DrawColliding
  <2>2. \A c \in Counts : Beyond(c, successes', failures') => Beyond(c, successes, failures)
    BY <1>1, <2>1
  <2>3. /\ <<successes, failures + 1>> \in Counts
        /\ Beyond(<<successes, failures + 1>>, successes, failures)
        /\ ~Beyond(<<successes, failures + 1>>, successes', failures')
    BY <1>1, <2>1
  <2>4. QED
    BY <1>1, <1>2, <1>3, <2>2, <2>3 DEF TakenOff
<1>6. QED
  BY <1>4, <1>5

(* A filter that has run is not run again, whatever it did to the results. *)
LEMMA FilterTakesOff ==
  ASSUME TypeOK, ClearStatus \/ Perturb
  PROVE  at' = at /\ TakenOff
<1>1. /\ at = "filter" /\ at' = "filter" /\ config' = config
      /\ step \in DOMAIN config.filters /\ step' = step + 1 /\ step \in Nat \ {0}
  BY DEF ClearStatus, Perturb, TypeOK
<1>2. Pending = DOMAIN config.filters \ (1 .. step - 1)
  BY <1>1 DEF Pending
<1>3. Pending' = DOMAIN config.filters \ (1 .. step)
  BY <1>1 DEF Pending
<1>4. QED
  BY <1>1, <1>2, <1>3 DEF TakenOff

(* A target that was simulated has a status, and no other lost its own.    *)
LEMMA SimulateTakesOff ==
  ASSUME TypeOK, NEW p \in Targets, Simulate(p)
  PROVE  at' = at /\ TakenOff
<1>1. /\ at = "run" /\ at' = "run" /\ grasps' = grasps /\ p \in grasps
      /\ status[p] = "UnInitialized"
  BY DEF Simulate
<1>2. /\ status'[p] # "UnInitialized"
      /\ \A q \in grasps : status'[q] = "UnInitialized" => status[q] = "UnInitialized"
  BY <1>1 DEF Simulate, Verdicts, TypeOK, Targets
<1>3. Pending = WithStatus(grasps, {"UnInitialized"})
  BY <1>1 DEF Pending
<1>4. Pending' = {q \in grasps : status'[q] \in {"UnInitialized"}}
  BY <1>1 DEF Pending, WithStatus
<1>5. QED
  BY <1>1, <1>2, <1>3, <1>4 DEF TakenOff, WithStatus

(* A calculator that has run is not run again.                             *)
LEMMA CalculateTakesOff ==
  ASSUME TypeOK, NEW k \in Known, Calculate(k)
  PROVE  at' = at /\ TakenOff
<1>1. /\ at = "calculate" /\ at' = "calculate" /\ config' = config
      /\ step \in DOMAIN Calculators /\ step' = step + 1 /\ step \in Nat \ {0}
  BY DEF Calculate, TypeOK
<1>2. Calculators' = Calculators
  BY <1>1 DEF Calculators
<1>3. Pending = DOMAIN Calculators \ (1 .. step - 1)
  BY <1>1 DEF Pending
<1>4. Pending' = DOMAIN Calculators \ (1 .. step)
  BY <1>1, <1>2 DEF Pending
<1>5. QED
  BY <1>1, <1>3, <1>4 DEF TakenOff

(* What a phase has to do is finite, so that it cannot be taken off for    *)
(* ever.  (Of the calculators it is plain: a part of a list.)              *)
LEMMA PendingIsFinite ==
  ASSUME TypeOK, at # "calculate"
  PROVE  IsFiniteSet(Pending)
<1> USE EvaluationAssumption
<1>1. CASE at = "plan"
  <2>1. IsFiniteSet(0 .. NGrasps) /\ IsFiniteSet(0 .. MaxFailures + 1)
    BY FS_Interval
  <2>2. IsFiniteSet((0 .. NGrasps) \X (0 .. MaxFailures + 1))
    BY <2>1, FS_Product
  <2>3. Pending \subseteq (0 .. NGrasps) \X (0 .. MaxFailures + 1)
    BY <1>1 DEF Pending
  <2>4. QED
    BY <2>2, <2>3, FS_Subset
<1>2. CASE at = "filter"
  <2>1. config.filters \in Seq({"clear", "perturb"})
    BY DEF TypeOK
  <2>2. DOMAIN config.filters = 1 .. Len(config.filters) /\ Len(config.filters) \in Nat
    BY <2>1
  <2>3. IsFiniteSet(DOMAIN config.filters)
    BY <2>2, FS_Interval
  <2>4. Pending \subseteq DOMAIN config.filters
    BY <1>2 DEF Pending
  <2>5. QED
    BY <2>3, <2>4, FS_Subset
<1>3. CASE at = "run"
  <2>1. IsFiniteSet(Targets)
    BY FS_Union DEF Targets
  <2>2. Pending \subseteq Targets
    BY <1>3 DEF Pending, WithStatus, TypeOK
  <2>3. QED
    BY <2>1, <2>2, FS_Subset
<1>4. CASE at \notin {"plan", "filter", "run", "calculate"}
  <2>1. Pending = {}
    BY <1>4 DEF Pending
  <2>2. QED
    BY <2>1, FS_EmptySet
<1>5. QED
  BY <1>1, <1>2, <1>3, <1>4

(* With every list of filters and indices, every number of grasps and of   *)
(* collisions, and whatever throws: each step of an evaluation takes it to *)
(* a later phase or leaves its phase with less to do.                      *)
THEOREM RoundsRunDown == Safety => RoundRunsDown
<1>1. ASSUME TypeOK, [Next]_vars
      PROVE  [Proceed \/ Throws \/ SourceThrows =>
                \/ PhasesLeft' < PhasesLeft
                \/ PhasesLeft' = PhasesLeft /\ Pending' \subseteq Pending
                   /\ Pending' # Pending]_vars
  <2>1. at' = at => PhasesLeft' = PhasesLeft
    BY DEF PhasesLeft
  <2>2. QED
    BY <1>1, <2>1, LaterPhase, DrawTakesOff, FilterTakesOff, SimulateTakesOff,
       CalculateTakesOff DEF Proceed, Source, TakenOff
<1>2. QED
  BY <1>1, TypeCorrect, PTL DEF Safety, RoundRunsDown
=============================================================================
