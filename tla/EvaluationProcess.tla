-------------------------- MODULE EvaluationProcess --------------------------
(***************************************************************************)
(* GripperObjectiveFunction over StandardGripperEvaluationProcessManager:  *)
(* build a gripper, get grasps for it, simulate them, compute the quality  *)
(* indices.  One evaluation follows the other in one process.              *)
(*                                                                         *)
(* What makes it hard is what outlives an evaluation.  The grasp source    *)
(* plans or loads once and keeps the grasps; every filter and task passes  *)
(* on pointers to the same results, and so the simulator, the filters and  *)
(* the calculators all write to the statuses the next evaluation starts    *)
(* from.  The simulation itself is the pool of targets of GraspPool: each  *)
(* target without a status is given one.                                   *)
(***************************************************************************)
EXTENDS Naturals, FiniteSets, Sequences

CONSTANTS
  Poses,         \* the poses a planner may sample, or the file may hold
  Perturbed,     \* the targets RobustnessGraspFilter makes
  Near,          \* pairs of targets that are in each other's filtering box
  NGrasps,       \* _numberOfGraspsToPlan
  MaxFailures,   \* 10000: how many poses in a row may collide
  Sources,       \* the sources tools configure: "planner", "file"
  FilterLists,   \* the filter chains they configure
  IndexLists,    \* the lists of indices they are asked for
  MaxRounds      \* bound: number of evaluations

Targets == Poses \cup Perturbed

ASSUME EvaluationAssumption ==
  /\ Poses \cap Perturbed = {} /\ IsFiniteSet(Poses) /\ IsFiniteSet(Perturbed)
  /\ Near \subseteq Targets \X Targets
  /\ \A p, q \in Targets : <<p, q>> \in Near => <<q, p>> \in Near
  /\ \A p \in Targets : <<p, p>> \notin Near
  /\ NGrasps \in Nat /\ MaxFailures \in Nat
  /\ FilterLists \subseteq Seq({"clear", "perturb"})
  /\ IndexLists \subseteq Seq(STRING)

\* testStatus.  Fail stands for every other failure of a grasp.
Status == {"UnInitialized", "Skip", "Success", "Interference", "ObjectSlipped",
           "SimulationFailure", "Fail", "Filtered"}

\* Mutant: slippages are not counted as successes.
VerdictsWithSlippage == {"Success", "Interference", "ObjectSlipped", "SimulationFailure", "Fail"}

\* What the simulator leaves: evaluateGrasp has made slippages successes.
Verdicts == {"Success", "Interference", "SimulationFailure", "Fail"}

VARIABLES
  config,        \* the command line: source, filters, indices
  at,            \* what the process does
  round,         \* which evaluation this is; the gripper it builds has this number
  planned,       \* does the source have its grasps (_grasps)?
  drawn,         \* the targets of the source's grasps
  successes, failures,   \* counters of planGrasps
  grasps,        \* the targets of the grasps passed on
  status,        \* status[p]: testStatus of the result of p, shared by all tasks
  judged,        \* judged[p]: the gripper that was simulated when p got its status
  step,          \* which filter, then which calculator, is next
  quality,       \* the indices computed
  lastGripper, lastQuality,   \* the gripper and whose quality the objective function keeps
  outcome        \* how the last evaluation ended

plan == <<planned, drawn, successes, failures>>
results == <<status, judged>>
last == <<lastGripper, lastQuality>>
vars == <<config, at, round, plan, grasps, results, step, quality, last, outcome>>

WithStatus(P, S) == {p \in P : status[p] \in S}
-----------------------------------------------------------------------------
(* GripperObjectiveFunction::evaluate.                                     *)

VectorToGripper ==
  /\ at = "idle" /\ round < MaxRounds
  /\ round' = round + 1
  /\ lastGripper' = round + 1
  /\ at' = "register"
  /\ outcome' = "none"
  /\ quality' = <<>>
  /\ UNCHANGED <<config, plan, grasps, results, step, lastQuality>>

BuilderThrows ==
  /\ at = "idle" /\ round < MaxRounds
  /\ round' = round + 1
  /\ outcome' = "threw"
  /\ quality' = <<>>
  /\ UNCHANGED <<config, at, plan, grasps, results, step, last>>

\* registerGripper, the simulator and the calculators may throw; the caller goes on.
Throws ==
  /\ at \in {"register", "load", "calculate"}
  /\ at' = "idle"
  /\ outcome' = "threw"
  /\ UNCHANGED <<config, round, plan, grasps, results, step, quality, last>>

RegisterGripper ==
  /\ at = "register"
  /\ at' = "source"
  /\ UNCHANGED <<config, round, plan, grasps, results, step, quality, last, outcome>>
-----------------------------------------------------------------------------
(* generateGrasps.                                                         *)

\* GraspPlanner::getGrasps and GraspDatabase::getGrasps keep what they have.
SourceHas ==
  /\ at = "source" /\ planned
  /\ at' = "filter"
  /\ grasps' = drawn
  /\ step' = 1
  /\ UNCHANGED <<config, round, plan, results, quality, last, outcome>>

\* A file holds targets with any status.
LoadGrasps(P) ==
  /\ at = "source" /\ ~planned /\ config.source = "file"
  /\ status' \in {[p \in Targets |-> IF p \in P THEN s[p] ELSE status[p]] : s \in [P -> Status]}
  /\ judged' = [p \in Targets |-> IF p \in P THEN 0 ELSE judged[p]]
  /\ planned' = TRUE /\ drawn' = P
  /\ at' = "filter" /\ grasps' = P /\ step' = 1
  /\ UNCHANGED <<config, round, successes, failures, quality, last, outcome>>

PlanGrasps ==
  /\ at = "source" /\ ~planned /\ config.source = "planner"
  /\ at' = "plan"
  /\ drawn' = {} /\ successes' = 0 /\ failures' = 0
  /\ UNCHANGED <<config, round, planned, grasps, results, step, quality, last, outcome>>

AddTarget(p, s) ==
  /\ drawn' = drawn \cup {p}
  /\ status' = [status EXCEPT ![p] = s]
  /\ judged' = [judged EXCEPT ![p] = 0]

\* Mutant: one grasp more than was asked for.
OneMoreFree(p) ==
  /\ at = "plan" /\ successes <= NGrasps
  /\ p \notin drawn
  /\ successes' = successes + 1 /\ failures' = 0
  /\ AddTarget(p, "UnInitialized")
  /\ UNCHANGED <<config, at, round, planned, grasps, step, quality, last, outcome>>

DrawFree(p) ==
  /\ at = "plan" /\ successes < NGrasps
  /\ p \notin drawn
  /\ successes' = successes + 1 /\ failures' = 0
  /\ AddTarget(p, "UnInitialized")
  /\ UNCHANGED <<config, at, round, planned, grasps, step, quality, last, outcome>>

\* Mutant: failures are not counted.
CollidingForgotten(p) ==
  /\ at = "plan" /\ successes < NGrasps
  /\ p \notin drawn
  /\ failures < MaxFailures
  /\ AddTarget(p, "Skip")
  /\ UNCHANGED <<config, at, round, planned, successes, failures, grasps, step, quality,
                 last, outcome>>

DrawColliding(p) ==
  /\ at = "plan" /\ successes < NGrasps
  /\ p \notin drawn
  /\ failures < MaxFailures
  /\ failures' = failures + 1
  /\ AddTarget(p, "Skip")
  /\ UNCHANGED <<config, at, round, planned, successes, grasps, step, quality, last, outcome>>

\* Mutant: the grasps are not kept.
NotKept ==
  /\ planned' = FALSE
  /\ at' = "filter" /\ grasps' = drawn /\ step' = 1

Keep ==
  /\ planned' = TRUE
  /\ at' = "filter" /\ grasps' = drawn /\ step' = 1

\* One more collision in a row: something is rotten.
GiveUp ==
  /\ at = "plan" /\ successes < NGrasps
  /\ failures = MaxFailures
  /\ failures' = failures + 1
  /\ Keep
  /\ UNCHANGED <<config, round, drawn, successes, results, quality, last, outcome>>

PlanDone ==
  /\ at = "plan" /\ successes = NGrasps
  /\ Keep
  /\ UNCHANGED <<config, round, drawn, successes, failures, results, quality, last, outcome>>

\* sample() or the loader throws; the grasps are then no grasps, which the simulator loads.
SourceThrows ==
  /\ \/ at = "source" /\ ~planned /\ config.source = "file"
     \/ at = "plan" /\ successes < NGrasps
  /\ at' = "fault"
  /\ UNCHANGED <<config, round, plan, grasps, results, step, quality, last, outcome>>
-----------------------------------------------------------------------------
(* FilteredGraspSource: the filters, one after the other.                  *)

\* Mutant: the poses that collided are cleared as well.
AllCleared(p) == p \in grasps

\* Mutant: targets that the coverage filter took out stay out.
FilteredKept(p) == p \in grasps /\ status[p] \notin {"Skip", "Filtered"}

Cleared(p) == p \in grasps /\ status[p] # "Skip"

ClearStatus ==
  /\ at = "filter" /\ step \in DOMAIN config.filters /\ config.filters[step] = "clear"
  /\ status' = [p \in Targets |-> IF Cleared(p) THEN "UnInitialized" ELSE status[p]]
  /\ judged' = [p \in Targets |-> IF Cleared(p) THEN 0 ELSE judged[p]]
  /\ step' = step + 1
  /\ UNCHANGED <<config, at, round, plan, grasps, quality, last, outcome>>

\* The perturbed targets are new ones, with results of their own.
Perturb ==
  /\ at = "filter" /\ step \in DOMAIN config.filters /\ config.filters[step] = "perturb"
  /\ grasps' = IF grasps = {} THEN {} ELSE Perturbed
  /\ status' = [p \in Targets |-> IF p \in grasps' THEN "UnInitialized" ELSE status[p]]
  /\ judged' = [p \in Targets |-> IF p \in grasps' THEN 0 ELSE judged[p]]
  /\ step' = step + 1
  /\ UNCHANGED <<config, at, round, plan, quality, last, outcome>>

Filtered ==
  /\ at = "filter" /\ step \notin DOMAIN config.filters
  /\ at' = "load"
  /\ UNCHANGED <<config, round, plan, grasps, results, step, quality, last, outcome>>
-----------------------------------------------------------------------------
(* simulateGrasps.                                                         *)

LoadTasks ==
  /\ at = "load"
  /\ at' = "run"
  /\ UNCHANGED <<config, round, plan, grasps, results, step, quality, last, outcome>>

\* Targets that have a status are passed over.
Simulate(p) ==
  /\ at = "run" /\ p \in grasps /\ status[p] = "UnInitialized"
  /\ \E v \in Verdicts : status' = [status EXCEPT ![p] = v]
  /\ judged' = [judged EXCEPT ![p] = round]
  /\ UNCHANGED <<config, at, round, plan, grasps, step, quality, last, outcome>>

SimulationEnds ==
  /\ at = "run" /\ WithStatus(grasps, {"UnInitialized"}) = {}
  /\ at' = "calculate" /\ step' = 1
  /\ UNCHANGED <<config, round, plan, grasps, results, quality, last, outcome>>
-----------------------------------------------------------------------------
(* doEvaluation: the calculators, in the order of the command line.        *)

Known == {"success", "coverage", "alignment", "stress", "volume", "wrench", "significance"}

KnownIn(L) == SelectSeq(L, LAMBDA k : k \in Known)

Calculators == KnownIn(config.indices)

Held == WithStatus(grasps, {"Success", "Interference"})

\* The targets whose share, or average, index k is.
Counted(k) ==
  CASE k = "success" -> WithStatus(grasps, {"Success"})
    [] k \in {"coverage", "significance", "alignment", "wrench"} -> Held
    [] OTHER -> {}

\* The targets it is a share, or average, of.
OutOf(k) ==
  CASE k = "success" ->
         grasps \ WithStatus(grasps, {"Filtered", "SimulationFailure", "Skip"})
    [] k = "coverage" -> grasps
    [] k = "significance" -> grasps \ WithStatus(grasps, {"Skip"})
    [] k \in {"alignment", "wrench"} -> Held
    [] OTHER -> {}

\* KDGraspFilter visits the nodes and filters out the neighbours of every node it finds
\* not filtered: in some order, some largest set of nodes without neighbours remains.
Remainders(N) ==
  {K \in SUBSET N : /\ \A p, q \in K : <<p, q>> \notin Near
                    /\ \A p \in N \ K : \E q \in K : <<p, q>> \in Near}

Nodes == {"Success", "Interference", "ObjectSlipped", "UnInitialized"}

\* CoverageIndexCalculator filters the targets held and then all of them.  The filter marks
\* the results, which the copies share.
CoverageFilter ==
  \E K \in Remainders(Held) :
    LET lost == Held \ K
        N    == WithStatus(grasps, Nodes) \ lost
    IN  \E L \in Remainders(N) :
          status' = [p \in Targets |-> IF p \in lost \cup (N \ L) THEN "Filtered" ELSE status[p]]

Calculate(k) ==
  /\ at = "calculate" /\ step \in DOMAIN Calculators /\ Calculators[step] = k
  /\ quality' = [j \in DOMAIN quality \cup {k} |->
                   IF j = k THEN [counted |-> Counted(k), outOf |-> OutOf(k)] ELSE quality[j]]
  /\ IF k = "coverage" THEN CoverageFilter ELSE UNCHANGED status
  /\ step' = step + 1
  /\ UNCHANGED <<config, at, round, plan, grasps, judged, last, outcome>>

\* _lastQuality and the quality of the gripper.
SetQuality ==
  /\ at = "calculate" /\ step \notin DOMAIN Calculators
  /\ at' = "extract"
  /\ lastQuality' = round
  /\ UNCHANGED <<config, round, plan, grasps, results, step, quality, lastGripper, outcome>>

\* IndexGripperQualityExtractor asks for every index on the command line.
Missing == \E i \in DOMAIN config.indices : config.indices[i] \notin DOMAIN quality

Extract ==
  /\ at = "extract"
  /\ at' = "idle"
  /\ outcome' = IF Missing THEN "threw" ELSE "returned"
  /\ UNCHANGED <<config, round, plan, grasps, results, step, quality, last>>
-----------------------------------------------------------------------------
Init ==
  /\ config \in [source : Sources, filters : FilterLists, indices : IndexLists]
  /\ at = "idle" /\ round = 0
  /\ planned = FALSE /\ drawn = {} /\ successes = 0 /\ failures = 0
  /\ grasps = {}
  /\ status = [p \in Targets |-> "UnInitialized"]
  /\ judged = [p \in Targets |-> 0]
  /\ step = 1 /\ quality = <<>>
  /\ lastGripper = 0 /\ lastQuality = 0
  /\ outcome = "none"

Source == \/ SourceHas \/ PlanGrasps \/ GiveUp \/ PlanDone
          \/ \E P \in SUBSET Poses : LoadGrasps(P)
          \/ \E p \in Poses : DrawFree(p) \/ DrawColliding(p)

Proceed == \/ RegisterGripper \/ Source
           \/ ClearStatus \/ Perturb \/ Filtered
           \/ LoadTasks \/ SimulationEnds \/ \E p \in Targets : Simulate(p)
           \/ SetQuality \/ Extract \/ \E k \in Known : Calculate(k)

Next == VectorToGripper \/ BuilderThrows \/ Throws \/ SourceThrows \/ Proceed

Safety == Init /\ [][Next]_vars

\* The process runs on: one thread, in loops that end, and a simulation that ends.
Spec == Safety /\ WF_vars(Proceed)
-----------------------------------------------------------------------------
Index == [counted : SUBSET Targets, outOf : SUBSET Targets]

(* The variables hold what the evaluation's objects can hold.             *)
TypeOK ==
  /\ config \in [source : Sources, filters : FilterLists, indices : IndexLists]
  /\ at \in {"idle", "register", "source", "plan", "filter", "load", "run", "calculate",
            "extract", "fault"}
  /\ round \in Nat /\ step \in Nat \ {0}
  /\ planned \in BOOLEAN /\ drawn \subseteq Poses
  /\ successes \in 0 .. NGrasps /\ failures \in 0 .. MaxFailures + 1
  /\ grasps \subseteq Targets
  /\ status \in [Targets -> Status] /\ judged \in [Targets -> Nat]
  /\ \A k \in DOMAIN quality : k \in Known /\ quality[k] \in Index
  /\ lastGripper \in Nat /\ lastQuality \in Nat
  /\ outcome \in {"none", "threw", "returned"}

(* The indices of a gripper are computed from simulations of that gripper: *)
(* no status is left of the evaluation before, which had the same results, *)
(* also when that one ended in an exception half-way.                      *)
OwnVerdicts ==
  at = "calculate" => \A p \in grasps : status[p] = "Skip" \/ judged[p] = round

(* The coverage filter thins out the grasps that held, which the indices   *)
(* computed after it see, but loses none of the regions they cover: the    *)
(* second of its passes finds nothing but what the first one left.         *)
CoverageLosesNoRegion ==
  "coverage" \in DOMAIN quality /\ at \in {"calculate", "extract"} =>
    \A p \in quality["coverage"].counted :
      p \in Held \/ \E q \in Held : <<p, q>> \in Near

(* However often the grasps are cleared, no more are simulated than were   *)
(* asked for: the poses that collided when they were planned stay out, and *)
(* there are fewer only if the planner gave up.                            *)
PlannedGraspsOnly ==
  planned /\ config.source = "planner" =>
    LET n == Cardinality(drawn \ WithStatus(drawn, {"Skip"}))
    IN  n <= NGrasps /\ (n < NGrasps => failures > MaxFailures)

(* generateGrasps turns an exception into grasps that are not there, and   *)
(* the simulator then dereferences them; but no gripper has been evaluated *)
(* by then, since the source keeps the grasps it once made.                *)
FaultOnlyAtFirst == at = "fault" => lastQuality = 0

\* The phases an evaluation has left after the one it is in.
PhasesLeft ==
  CASE at = "register" -> 8  [] at = "source" -> 7  [] at = "plan" -> 6
    [] at = "filter" -> 5    [] at = "load" -> 4    [] at = "run" -> 3
    [] at = "calculate" -> 2 [] at = "extract" -> 1 [] at \in {"idle", "fault"} -> 0

\* What the loop of a phase has still to do: the counts that planGrasps can still reach,
\* the filters, the targets without a status, the calculators.
Pending ==
  CASE at = "plan" -> {c \in (0 .. NGrasps) \X (0 .. MaxFailures + 1) :
                         \/ c[1] > successes
                         \/ c[1] = successes /\ c[2] > failures}
    [] at = "filter" -> DOMAIN config.filters \ (1 .. step - 1)
    [] at = "run" -> WithStatus(grasps, {"UnInitialized"})
    [] at = "calculate" -> DOMAIN Calculators \ (1 .. step - 1)
    [] OTHER -> {}

(* No loop of an evaluation goes round for nothing: every step takes it to *)
(* a later phase, or takes something off what its phase has to do, also    *)
(* when the planner meets nothing but collisions and when a filter or an   *)
(* index changes the results that the loops look at.                       *)
RoundRunsDown ==
  [][Proceed \/ Throws \/ SourceThrows =>
       \/ PhasesLeft' < PhasesLeft
       \/ PhasesLeft' = PhasesLeft /\ Pending' \subseteq Pending /\ Pending' # Pending]_vars

(* Every evaluation ends, or the process with it.                          *)
EvaluationEnds == at = "register" ~> at \in {"idle", "fault"}
=============================================================================
