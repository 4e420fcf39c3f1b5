# gripperz: a TLA+ verification project

gripperz designs grippers: it builds a gripper from parameters, simulates a set
of grasps with it on several physics threads, computes quality indices from the
results and searches the parameter space for the gripper with the best index.
This directory holds TLA+ models of the program under `src/src`, the TLC
configurations that check them on small instances, and TLAPS proofs of what
holds on every instance.

## The system

| part | state it keeps | operations | how it meets the others |
|---|---|---|---|
| grasp simulation (`simulation/`) | queue of targets, per-thread `SimState`, statistics, one result per target | `load`, `startSimulation`, `pauseSimulation`, `resumeSimulation`, `isRunning`, `stepCB` | called by the evaluation process and by the plugins; writes the results that grasp sources own |
| grasp sources and filters (`grasps/`) | the grasps last made or loaded (`_grasps`), filter chains | `getGrasps`, `filter`, planner loop | results are shared by pointer with the simulator and with later evaluations |
| quality indices (`evaluation/calculators/`) | none of their own, but the coverage calculator marks the shared results | `evaluate` of the index calculators | reads the statuses the simulator wrote |
| evaluation process (`process/Standard*`, `evaluation/GripperObjectiveFunction`) | last gripper and quality, task context | `evaluate`, `evaluateGripper` | drives source, simulator and evaluator in turn |
| robust evaluation (`process/Robust*`, `old/gripper_evaluate.cpp`) | two files with fixed names | run, retry and read back an external program | the program is an evaluation process of its own |
| optimization (`optimization/`, `math/`) | best point, counters of evaluations | `optimize` of each optimizer, `OptimizationManager` | calls the objective function through decorators |
| parametrization (`parametrization/`) | maps from names to values, shared by pointer | `setParameter`, `clone`, translators | maps the optimizer's vector to a gripper (`models/`) |
| models and geometry (`models/`, `geometry/`) | a gripper's class, parametrization and quality; one mesh generator for all clones | `clone`, `applyModifications`, `createMesh`, loaders | changes the one work cell in which the grasps are simulated |
| shards (`shards/`) | objects stored by tag | `add`, `getShard` | used by its tests only |
| cluster scripts (`src/cluster`, `src/scripts`) | one result file per sample, a csv file | submit jobs, collect results | run `evaluate_gripper` on many machines |
| loaders, context, utilities | none | XML to objects and back | start-up only |
| tools and plugins (`tools/`, `old/`, `plugins/`) | command line or Qt widgets | start, stop, save | clients of everything above |

What is hard, part by part, and what makes the part correct:

* **Grasp simulation.** The only real threads of the program. Every physics
  thread calls `stepCB` after each step; only the pop of the next target is
  locked. One callback runs a dozen checks in a row, many of which end the grasp.
  A control thread starts, stops and resumes them. Correct: a target is taken by
  one thread, gets one result, is never dropped, and the session ends.
* **Evaluation process.** Sequential, but the results of the grasps outlive an
  evaluation: the source keeps its grasps, and simulator, filters and calculators
  write through the same pointers. Correct: the indices of a gripper come from
  simulations of that gripper, after exceptions too.
* **Robust evaluation.** Processes that crash at any moment, files that are left
  over, interrupts. Correct: the quality that is returned is the asked gripper's
  own, and every evaluation ends.
* **Optimization.** Nested decorators with a sign reversal and a default value
  outside the constraints; evaluation limits that are checked between steps.
  Correct: the point returned is the best one evaluated, within the limit.
* **Cluster scripts.** Jobs that end in any order or not at all, files of earlier
  samplings with the same names. Correct: a landscape is made of its own samples.
* **Grippers from vectors.** Clones that share a mesh generator, one work cell that
  every gripper is mounted in after the other, classes that are told apart by casts.
  Correct: a saved gripper reproduces the work cell its quality was simulated in, and
  the log rebuilds the gripper, up to its digits.

## Modules

| module | contents |
|---|---|
| `GraspTaskSimulator` | control thread, physics threads, queue, statistics |
| `GraspPool` | abstract: a pool of targets, each taken once and decided by one callback |
| `MCGraspTaskSimulator` | the observations of physics the runs choose from |
| `GraspTaskSimulatorProofs`, `GraspCountProofs`, `GraspPoolRefinement` | invariants; the unprotected counter; the simulator implements the pool |
| `RobustEvaluation`, `MCRobustEvaluation`, `RobustEvaluationProofs` | manager, program, orphan and the results file |
| `EvaluationProcess`, `MCEvaluationProcess`, `EvaluationProcessProofs` | objective function, process manager, grasp sources, filters, calculators |
| `Search` | abstract: asks for values and returns a point that no other beats |
| `Optimization`, `MCOptimization`, `OptimizationProofs` | `OptimizationManager`, its decorators, six optimizers, the end of `optimize_gripper`; implements `Search` |
| `GripperDesign`, `MCGripperDesign`, `GripperDesignProofs` | parametrizations, clones, the shared generator, the work cell, the files of the three tools |
| `Landscape`, `LandscapeProofs` | samplings, jobs, result files, the collector |

How they compose: `GripperDesign` and `Optimization` are the two halves of
`optimize_gripper`. The first says what happens to objects in an evaluation and
leaves the search open (`AskOrEnd`); the second says which evaluation is returned
and leaves the gripper open (`Answers`). An evaluation in either is a run of
`EvaluationProcess`, whose simulation is a session of `GraspTaskSimulator`. A job of
`Landscape` is a run of `evaluate_gripper`.

### GraspTaskSimulator

`caller` is what the control thread is doing; `StartThread(t)`, `StopThread(t)`,
`JoinThread(t)` and `ResumeThread(t)` are the turns of its loops over the
threads, so that thread 1 may run, and end, before thread 2 exists. `pc[t]` is
where thread `t` is in its callback. `Step(t, o)` is a physics step with its
callback down to the `NEW_GRASP` branch. `Stages` is the callback's chain of
checks in the order of the code, each a function of the work record that the one
before it left, so that two of them can end the same grasp. A callback writes
`status` once, at its end, with the last verdict of the chain; every verdict on the
way is kept in order in `todo[t]`, the counts it owes, and `DecidedIsFinal` is about
those: the callback finds the target undecided and gives one verdict, or one and a
collision, which is the check at line 426 that does not look whether the grasp is
over. The loop of the
`NEW_GRASP` branch is `SkipTarget`, `RejectTarget`, `BeginGrasp` and
`OutOfTargets`, each with the locked pop.

* What the physics shows a callback is an observation `o`: wall clock, error,
  collision, whether the phase can be left and how, and whether a lifted object is
  over a limit. Everything geometric is behind it.
* Simulated time is a coarse tick per callback, capped one above the hard limit.
* `_stat[s]++` and `_nrOfExperiments++` on plain ints are a load and a store, with
  any step of another thread between them. The counters that are only logged are
  left out.
* `Load` is the process manager's, which keeps its simulator; `LoadAnew` is the
  plugins', which make a new one for every session.
* A thread without a target runs the time and collision checks through a pointer
  never set; the model stops in `fault` there. What the write does is not modelled,
  nor are the race on the tree of the map `_simStates`, the comparison with the
  uninitialised `_task`, exceptions while engines are made, and `_timedStatePaths`.
* `resumeSimulation` is in the model (`AllowResume`), though `BasicSimulator`
  inherits protectedly and no client calls it.

`GraspPool` says what all this is for: `Fill` begins a session, `Take` moves a
target from the pool into a grasp, `Decide` gives it its result, `Reject` decides it
at its start pose, `Skip` passes over one that has a result. It has no threads, time
or counters.

### EvaluationProcess

`at` is where the one thread is: `VectorToGripper`, `RegisterGripper`, the source
(`SourceHas`, `LoadGrasps`, or the planner loop `DrawFree`, `DrawColliding`,
`GiveUp`, `PlanDone`), the filters `ClearStatus` and `Perturb`, `LoadTasks`,
`Simulate(p)`, `Calculate(k)`, `SetQuality`, `Extract`. `Throws`, `BuilderThrows`
and `SourceThrows` are the exceptions; only the last is swallowed, and then the
simulator is handed no grasps (`fault`).

* `status` is one function on targets, because clones, tasks and filters share
  results by pointer; `judged[p]` (history) is the gripper a status came from.
* The simulation is the pool: each target without a status gets one.
* An index is the set of targets it counts and the set it is a share of; the
  numbers are arithmetic on them. `Near` says which targets are in each other's
  filtering box. The KD filter keeps, in whatever order it visits the nodes, a
  largest set without neighbours.

### RobustEvaluation

The manager, the program it starts and the orphan of a killed manager are three
processes around one file. `Open` and `Save` are apart, since a crash between them
leaves a file that cannot be read. A crash, an interrupt or a kill may come at any
moment, in bounded number. Beside an orphan every save may leave a file of no use.
`tries` is what the code counts, the starts before the present one.

### Optimization

A point is the number of its evaluation; `evals` has, for each, whether it met the
box, the quality of its gripper, and the value the optimizer was told (`Objective`:
0.0 outside of the box, whatever the direction, and the reversed quality inside it
when maximizing). Where points are, and whether the step or the simplex is small
enough to stop, is chosen. Qualities are chosen at every evaluation, NaN included,
because grasps are planned at random.

* `CoordinateDescent` and `Powell` differ in directions only: `TryMinus`, `TryPlus`.
* `Anneal` tells `current` (the state) from `best`.
* The simplex is `BuildSimplex`, then turns of `Reflect`, `Expand`, `Contract`,
  `Reduce`, each with its early end; `EndTurn` sorts the vertices, takes the first
  as the result and looks at the limit. With a NaN `std::sort` has no strict weak
  ordering, and `Sorts` allows any order.
* `Bobyqa` and `Rbf` are what the wrappers and the libraries' loops do: how many
  points they ask for at the start, when they look at their limit, what they throw.
* `Throws` ends the program anywhere, as nothing in `optimize_gripper` catches.

`Search` has neither limits, decorators nor optimizers: `Ask` adds a value and
`Return` chooses a point that no other beats, if all values are numbers.

### GripperDesign

`heap` is the parametrization objects; the prototype's is 1 and the mesh
generator's at the start is 2. `Build` is `vectorToGripper` (optimize_gripper),
`Modify` the change in place of the other two tools. `MakeFingers` and `SetDevice`
are the two halves of `applyModifications`, apart so that an exception may come
between them. `scene` is the work cell, as the sets of parameters its fingers and
its device were made from. `Simulate` gives the gripper its quality, which is the
scene it was simulated in: two qualities are equal when the scenes are. `SaveStep`,
`SaveFound` and `SaveEvaluated` write files (`File`), the first with the line of the
log. The file keeps the numbers; the line has six significant digits of each, the
default of a stream (`Logged`), and what those are of a value is the parameter `Printed`.
The grasps are not part of `scene`: a planner chooses them when it is first asked, by
the collisions of the gripper mounted then (`BasicParallelGripperGraspPlanner.cpp:209`),
and `GraspPlanner.cpp:21` keeps that choice, so that the quality of a later gripper is
one over grasps that were free for the first.

Values are a small set since nothing else is computed with them. `"length"` belongs to
the fingers and to the device, as in `StandardGripper`.

### Landscape

`way` is the script: on the cluster `Submit` is a job per sample, and
`StartCollecting`, `Collect` and `CollectingEnds` are the collector, whenever the
user calls it; in sequence `Evaluate` and `EvaluationReturns` alternate. A job is
`JobOpens`, `JobSaves` and `JobEnds`, and `JobFails` anywhere: an exception, the
walltime, a deletion; a job that fails while it writes may have spoilt a result that
another had put in its file. `file` is what each result file holds, whichever sampling wrote it;
`NameOf` says which file a job writes. Two jobs that write one file leave one's result or `garbled` text.
`settled` (history) is what a collector could have read when it began.

The slice scripts are the same loops over two parameters, `scripts/gripper_landscape.py` is the same
file as `cluster/`'s.

## Runs

| run | bounds | what it shows |
|---|---|---|
| `gts_statistics` | 1 thread, 3 targets, 2 sessions, limit by the wall clock | statistics and statuses agree at the end of a session |
| `gts_threads` | 2 threads, 2 targets, stop and resume, suction cup | exclusive grasps; all decided at the end; statistics never overcount; every step brings a session nearer to its end, and it ends; stops return |
| `gts_pool` | 2 threads, 2 targets, 2 sessions, 1 stop, all limits, every observation | types; no target is dropped; results are final; counters never overcount; implements `GraspPool` |
| `gts_lost_count` | 2 threads | increments are lost |
| `robust` | 3 evaluations, 2 retries, 2 kills, 3 grippers | own results; no try is left out when there is no file; evaluations end |
| `robust_crash` | 1 evaluation, 2 retries | a crash that leaves a file is not retried |
| `robust_tries` | 1 evaluation, limit of 2 tries | the program is started a third time |
| `evaluation` | 3 poses, 2 perturbed targets, 2 evaluations, planner and file | own verdicts, planned grasps, coverage, faults; no loop goes round for nothing, and evaluations end |
| `optimization` | 6 optimizers, 2 parameters, 5 evaluations, qualities -1, 1, NaN | the returned point is unbeaten, the file has the best of the log, limits hold up to a turn, searches end, implements `Search` |
| `design` | 3 tools, 4 classes, 2 generators, 3 names of 3 values (2 print alike), 2 tries | files reproduce, the log rebuilds up to its digits, built grippers are kept, every tool ends |
| `design_sliced` | a search with a `BasicParametrizedGripper` | its clones are of the base class: parameters have no effect |
| `landscape` | 2 samples, 2 samplings, both ways | rows are of their samples, what was settled is collected, nothing is done twice, samplings and collections end |

Why the bounds are enough: two threads and two targets give every order of two
pops and two racing increments, and a queue that is empty for one thread while the
other still simulates; a second session is what stale results and stale
`SimState`s need; nothing a session leaves behind is older than the session before
it, so a third one starts from nothing new. Three targets with one thread (`gts_statistics`) give
a skipped one before, between and after simulated ones. The hard limit of three ticks is the shortest that lets a
grasp go right. For the evaluation, three poses and two planned grasps make the
planner succeed, give up, and collide in between; a chain of three neighbours is
the smallest in which the order of the KD filter matters. The second evaluation is
the one that meets what the first left. Two parameters are the fewest for which the
simplex has a vertex that is neither the best nor the worst, and five evaluations let
it build, turn and reduce once, and BOBYQA use its five points; qualities on both
sides of 0.0 are those that the value of points outside of the box separates. Two
grippers are enough for what one leaves in the generator or the work cell to reach
the next; three values are the fewest of which two print alike and two do not. Two samples are the fewest with a gap between the file of one and of the
other, two samplings the fewest with an old file. `CHECK_DEADLOCK FALSE` everywhere: a client
that has done its sessions stops.

### Fairness

* Simulator: weak fairness of the control thread's own steps (`CallerWorks`) and of
  every physics thread: the operating system schedules them, and no step but the
  join waits for another thread. Nothing is assumed of when a client loads, stops or
  resumes, or of what the physics shows: sessions end by the hard time limit alone.
* Robust evaluation: weak fairness of the manager and of the program it waits for,
  which ends by exit or crash. Crashes and interrupts are never forced to happen.
* Evaluation process: weak fairness of `Proceed`, one thread in loops that end.
  That the simulation in it ends is `SimulationEnds` of the simulator.
* Optimization: weak fairness of `Proceed`, one thread; that an evaluation ends is
  `EvaluationEnds` of the evaluation process. Exceptions are not promised, but that
  of BOBYQA at its limit, which is a step of its own.
* Gripper design: weak fairness of `Next`, one thread, in which `Throws` may be the
  step taken.
* Landscape: weak fairness of the loops of both scripts and of each job, which the
  walltime ends. That a sampling or a collection begins is left to the user, so that
  termination is stated for the ones that began.

## Proofs

All theorems hold for every value of the constants under the assumptions that the
modules name, which TLC evaluates for every run.

* `GraspTaskSimulatorProofs`. `TypeCorrect`, `GraspsAreExclusive`, `NoTargetIsLost`,
  `ResultsAreDecided`. `ExclusiveGrasp` is not inductive: that a popped target is
  nobody else's needs that the queue has no target twice, and that a thread's
  target left the queue when it was taken. `AllDecided` needs control facts as
  well: which threads the control thread has started, stopped or joined, and that
  a thread that ended of its own found the queue empty.
* `GraspCountProofs`. `CountNeverRunsAhead`, for every number of threads. A pop and
  its count are two steps, and the count itself a load and a store, so that a bound on
  the counter is not inductive. `RoomForDebtors` is: what is counted, and what a thread
  is about to write, leave room for every thread that owes a count (`Debtors`). A pop
  adds a place and a debtor, a store takes a debtor away; a lost increment makes room.
  `StatsNeverRunAhead` is the same argument for each status (`StatInv`): what `_stat`
  counts, what threads still owe it (`Debtors`) and the targets that have the status
  (`Finished`) stay in balance. `StatsAreExact`: with one thread nothing is lost, so that
  the balance is an equality, which is `StatsMatchResults`. Both assume `OneVerdict`, which
  leaves out the observations with which the code counts a target under two statuses or
  under one it does not have: a collision during the grasp (the callback decides it twice), a
  clock that runs out where clients resume (a resumed thread decides its last grasp
  again), a slip without a suction cup (counted as a slip, stored as a success) and,
  where limits are set, one that overrules a success that is already counted.
  `StatsAreExact` assumes `OneThread` too, since two lose increments (`gts_lost_count`).
* `GraspPoolRefinement`. `SimulatorImplementsPool`: initial states map to initial
  states and every step to a step of `GraspPool` or a stutter, for clients that do
  not resume; with resume a thread that had ended runs one more callback on the
  target it decided. `ResultsAreFinal` is the action property behind it, and says
  check by check what a callback may write (`StagesFew`: of all checks only the one for
  a collision adds a second verdict; `StepWrites`: the target was undecided).
* `RobustEvaluationProofs`. `TypeCorrect`, `ReturnsOwnResult`, `InterruptIsNoResult`,
  `FailuresUseTheTries`. The invariant follows who may have the file open: the
  program of the present call, or an orphan (`ChildInv`, `CallInv`); without an
  orphan the file can only be absent or of the gripper that was asked (`AloneInv`);
  and the loop is left with a file, by an interrupt or with its tries used (`LoopInv`). `EvaluationRunsOut`, below.
* `EvaluationProcessProofs`. `TypeCorrect` and `PlannedAreSimulated`, for every filter
  chain: `PlanInv` says that the poses that are free are as many as were counted, and
  no filter, clearing or simulation turns a pose that collided when it was planned
  into a free one (`FreeKept`). `VerdictsAreOwn`, `RegionsAreKept`,
  `FaultsOnlyAtFirst`, for filter chains that begin with a `ClearStatusFilter`
  (`ClearsFirst`), as `optimize_gripper` and `generate_grippers` make them; without
  it the first is false, as the statuses of the gripper before stay. `Phase` says, place by place, which
  of the present grasps may still have a status of an earlier evaluation. The
  lemma `SecondPass` is about the coverage filter: after the first pass no two
  held targets are neighbours, so that whatever the second pass takes out has a
  neighbour that stays.
* `OptimizationProofs`. `ReturnsTheBest` (`BestInv`: for every optimizer, that the
  kept points are unbeaten among those looked at; for the simplex that the sorted
  vertices cover all), `KeepsBudget` (how far past the limit each place in a turn may
  be), `SavesTheBest` (the log is the evaluations that met the box, in order, and the
  reversal turns an order around), `OptimizersAreSearches` (every step is a step of
  `Search` or leaves `values` and `returned`). They hold for every dimension, limit
  and set of qualities.
* `GripperDesignProofs`. `FilesAreReproducible` follows where the thread is: from
  `MakeFingers` to the save the generator, the scene and the quality are of the
  gripper at work (`FilesInv`). `BuiltGrippersAreKept` is an action property of the
  heap, `ProgramsRunDown` is below, `LogIsEnough` needs that what is read back is put on the same prototype
  (`ApplyReadBack`, with `LastPlaceExists` for names that are listed twice); it holds
  for every function `Printed`.
* `LandscapeProofs`. `RowsAreOfTheirSamples` needs that a file holds a sample's own
  result on the cluster, and in sequence that the file the script reads is its job's
  (`Shape`, `RowsInv`). `CollectsTheSettled` (`CollectInv`) follows each settled
  sample: its row is written, or its file is as it was, or a later sampling has
  written it again.

### Termination

That something ends is liveness under fairness and out of the prover's reach. What the
code has to get right for it is not: that no loop can go round without using something
up. Each termination property has such a measure in its module, an action property that
a theorem states for every value of the constants, and a lemma that the measure is a
natural number (or a finite set) that is zero only at the end. `RunsDown`,
`RoundRunsDown` and `WorkRunsDown` are checked by TLC as well:

| measure | action property, theorem | lemma | liveness it is for |
|---|---|---|---|
| `Remaining(t)`, behind the length of the queue | `RunsDown`, `SessionsRunDown` | `RemainingIsNumber` | `SimulationEnds` |
| `Left` of `RobustEvaluation` | `TriesRunOut`, `EvaluationRunsOut` | `LeftTyped` | `EvaluationEnds` |
| `PhasesLeft`, then `Pending` | `RoundRunsDown`, `RoundsRunDown` | `PendingIsFinite` | `EvaluationEnds` |
| `SamplerLeft`, `CollectorLeft`, `StepsLeft` | `WorkRunsDown`, `WorkIsDoneOnce` | `LeftTyped` | `ScriptsTerminate` |
| `Left` of `GripperDesign` | `ProgramRunsDown`, `ProgramsRunDown` | `LeftTyped` | `Termination` |

The measures also say what one process may not do to another: a physics thread never
throws another one back, an orphan gives the manager no try back, and neither script
of a landscape, nor a stop and a new start, begins a job a second time. For
`Optimization` the measure is the number of evaluations, and `KeepsBudget` its bound. What is
left to fairness is that steps are taken. `PendingIsFinite` leaves out the calculators,
since the provers do not know `SelectSeq`: that part of a list is finite is taken
from TLC's run. A session that is stopped is outside of `RunsDown`; that a stop returns is
`PauseCompletes`, model-checked only.

Only model-checked: liveness and `ENABLED`, and the disagreements with comments.
Every invariant and every action property of a passing run is a theorem; `StatsMatchResults`
and `StatsNeverOvercount` for the observations of `OneVerdict`, as in their runs.

## Disagreements between code and comments

Each violation run quotes the line it refutes (see `PROJECT.json`). Met while
modelling, and without a run of their own:

* The callback of a physics thread can decide a grasp twice, a collision over another
  verdict (`GraspTaskSimulator.cpp:426`; `DecidedIsFinal` allows this one case);
  `GraspTaskSimulator.hpp:256` says "Callback called after each finished grasp".
* A constant 5.0 s (`GraspTaskSimulator.cpp:381`) comes before the limit of
  `setSimTimeLimit`, "Sets the limit on internal simulation time for single grasp
  simulation." (`.hpp:158`).
* The coverage index counts targets that its filtering box left out
  (`CoverageIndexCalculator.cpp:54`), against "pos. filtering radius for coverage"
  (`tools/evaluate_gripper.cpp:123`); and its angle is in degrees and given to
  `sin()` unconverted (`:47`).
* "max number of function evaluations" (`tools/optimize_gripper.cpp:165`) is passed by
  up to a turn of the optimizer (`WithinBudget` says how far).
* The comment at `SimplexOptimizer.cpp:156` speaks of the difference of values; the
  code compares the distance of the vertices with `rho`.
* `getNrTargetsDone` counts a grasp when it begins (`GraspTaskSimulator.cpp:742`),
  its comment says "simulated until now".
* `_stat` still counts slippages, which `BasicSimulator.hpp:19` says are counted as
  successes.
* `copyGrasps` "Copies grasp set" (`grasps/Types.hpp:17`) but shares the results, so
  the coverage index changes what the indices after it on the command line count.
* `getLastGripper` is set when a gripper is built, not "evaluated"
  (`GripperObjectiveFunction.hpp:62`).

## Plan

Done, in this order: `GraspTaskSimulator` with `GraspPool`, `EvaluationProcess`,
`RobustEvaluation`, `Optimization` with `Search`, `Landscape`, `GripperDesign`.

Left:

1. The user of `plugins/simple_sim` and `plugins/GraspPlugin` over
   `GraspTaskSimulator`: start during a session, stop before the first, evaluating a
   gripper the user has changed. To prove: a session's results go to its own task.
2. `OldGripperEvaluator` and `ConstrainedGripperEvaluator`, the counting of the tools
   of `old/`, next to the calculators of `EvaluationProcess`.
3. `parametrization`'s merge and patch, when a program calls them.
4. The measure of `pauseSimulation`, as a theorem behind `PauseCompletes`.

## Not modelled

* The libraries under `src/ext` (dlib, rbfopt) make most of the lines of the
  repository. Of them only the loops and limits the optimizers meet are modelled.
* Geometry and meshes: floating point on solids, or an external program. In
  `GripperDesign` a mesh is the parameters it is made from, and may throw. Temporary
  mesh files have random numbers in their names; a collision is chance.
* Frames, bodies and devices of RobWork. An exception between the removal of the old
  fingers and the new ones leaves the work cell without, but no tool goes on with it.
* `shards/`, `merge`, `patch`, `vectorToParametrization`, `MultiParametrizationTranslator`
  and the parametrized objectives: called by tests and sandbox only.
* The plugins (Qt): one thread whose order is the user's, see the plan. Known there and
  not checked: start during a session replaces the simulator whose threads still run
  (`simple_sim.cpp:196`, `GraspPlugin.cpp:81`), stop before the first start
  (`GraspPlugin.cpp:178`), an empty task (`simple_sim.cpp:86`), and a list and a box
  in different orders (`GraspPlugin.cpp:308`).
* Numbers: the values of alignment, stress and wrench indices, 0/0 in shares
  (`SignificanceIndexCalculator.cpp:38`), a parameter range of zero width
  (`ParameterMapping.cpp:26`), sampling of surface poses.
* XML reading at start-up, command lines, `sandbox/`, tests, data.
* Two `Robust` managers in one directory with the same file name
  (`RobustGripperEvaluationProcessManager.cpp:86`) are the user's choice.
* Liveness under fairness and `ENABLED`, and what a recursive definition computes for
  every input, are out of the prover's reach and stay with TLC.
