------------------------- MODULE GraspTaskSimulator -------------------------
(***************************************************************************)
(* The grasp simulator: a control thread loads a list of grasp targets and *)
(* starts a number of physics threads.  Every thread calls stepCB after    *)
(* each physics step; stepCB drives one grasp at a time through approach,  *)
(* grasping and lifting, writes the verdict into the target's result and   *)
(* pops the next target from a queue that all the threads share.           *)
(*                                                                         *)
(* Only the pop is done under a lock.  The counters (the per-status array  *)
(* _stat and _nrOfExperiments) are plain ints that all threads increment,  *)
(* so an increment is a load and a store here, with any step of another    *)
(* thread in between.  The counters nobody but the log reads (_failed,     *)
(* _success, _slipped, _collision, _timeout, _simfailed, _skipped) are     *)
(* left out.                                                               *)
(*                                                                         *)
(* What the physics engine shows a step is an observation (see Physics).   *)
(* Simulated time is counted in coarse ticks, one per callback.            *)
(***************************************************************************)
EXTENDS Naturals, Sequences, FiniteSets, Functions

CONSTANTS
  NrOfTargets,       \* targets of the grasp task, numbered in task order
  NrOfThreads,       \* the nrThreads argument of the constructor
  HardTimeLimit,     \* the 5.0 s written in stepCB, in ticks
  SimTimeLimit,      \* _simTimeLimit (setSimTimeLimit), in ticks
  LastResort,        \* the 8 s written in the GRASPING branch, in ticks
  SuctionCup,        \* is the hand a suction cup?
  ForceSimulateAll,  \* _forceSimulateAll
  Limited,           \* does evaluateGrasp apply an interference or alignment limit?
  Physics,           \* the observations the physics engine can show
  ParkedCollides,    \* does the hand collide where startSimulation parks it?
  FileStatuses,      \* statuses the targets may have before the first load
  LoadSizes,         \* how many of the targets a load may hold
  MaxLoads,          \* bound: number of load / start sessions
  MaxPauses,         \* bound: number of pauses
  AllowResume        \* is resumeSimulation called (no client of the library does)?

Targets == 1 .. NrOfTargets

\* rwlibs::task::GraspResult::TestStatus, the values this program reads or writes.
Status == {"UnInitialized", "Success", "ObjectMissed", "ObjectDropped",
           "ObjectSlipped", "TimeOut", "SimulationFailure",
           "CollisionObjectInitially", "CollisionEnvironmentInitially",
           "CollisionDuringExecution", "Interference", "Skip", "Filtered"}

StepState == {"GRASPING", "LIFTING", "NEW_GRASP", "APPROACH"}

\* The constructor takes 1 to 19 threads and falls back to one.
Threads == 1 .. (IF NrOfThreads > 0 /\ NrOfThreads < 20 THEN NrOfThreads ELSE 1)

(***************************************************************************)
(* What one callback finds out about its simulator and its grasp:          *)
(*   wall   the wall clock of the grasp is over _wallTimeLimit             *)
(*   err    the physics simulator is in error                              *)
(*   col    the collision detector reports a collision                     *)
(*   move   "stay": the phase goes on; "go": the approach is reached, the  *)
(*          grasp is at rest, the object is lifted; "lost": the same but   *)
(*          the hand touches no object; "slip": lifted, but it slipped     *)
(*   over   a lifted object is over the interference or alignment limit    *)
(***************************************************************************)
Observation == [wall : BOOLEAN, err : BOOLEAN, col : BOOLEAN,
                move : {"stay", "go", "lost", "slip"}, over : BOOLEAN]

ASSUME ConstantsAssumption ==
  /\ NrOfTargets \in Nat /\ NrOfThreads \in Nat
  /\ HardTimeLimit \in Nat /\ SimTimeLimit \in Nat
  /\ LastResort \in Nat /\ LastResort > HardTimeLimit
  /\ SuctionCup \in BOOLEAN /\ ForceSimulateAll \in BOOLEAN
  /\ Limited \in BOOLEAN /\ ParkedCollides \in BOOLEAN
  /\ AllowResume \in BOOLEAN
  /\ Physics \subseteq Observation
  /\ FileStatuses \subseteq Status
  /\ LoadSizes \subseteq 0 .. NrOfTargets
  /\ MaxLoads \in Nat /\ MaxPauses \in Nat

NoTarget == 0
NrOfExperiments == "nrOfExperiments"
Counters == Status \cup {NrOfExperiments}
MaxTime == HardTimeLimit + 1      \* bound: ticks beyond it are not told apart

VARIABLES
  status,       \* status[g]: testStatus of the result of target g
  taskQueue,    \* _taskQueue, the top of the stack first
  total,        \* _totalNrOfExperiments
  requestStop,  \* _requestSimulationStop
  tally,        \* _stat, and _nrOfExperiments
  state,        \* state[t]: _currentState of thread t
  target,       \* target[t]: _target of thread t
  time,         \* time[t]: simulated time of thread t, reset with each grasp
  since,        \* since[t]: when the phase was entered (_approachedTime, _graspTime)
  pc,           \* pc[t]: where thread t is in its callback
  todo,         \* todo[t]: the counters the callback still has to increment
  loaded,       \* loaded[t]: the counter value thread t has read but not yet written
  running,      \* running[t]: ThreadSimulator::isRunning
  postStop,     \* postStop[t]: the thread leaves its loop after this callback
  fault,        \* a callback has dereferenced a target pointer never set
  caller,       \* what the control thread is doing, and for which thread
  loads, pauses \* sessions and pauses so far

results  == <<status>>
queue    == <<taskQueue, total>>
counters == <<tally, todo, loaded>>
grasp    == <<state, target, time, since>>
threads  == <<pc, running, postStop>>
control  == <<requestStop, caller, loads, pauses>>
vars == <<results, queue, counters, grasp, threads, control, fault>>

-----------------------------------------------------------------------------
(***************************************************************************)
(* One callback as a sequence of stages.  A stage maps the work record     *)
(* [state, status, time, since, stats] to the next one; stats collects the *)
(* entries of _stat to increment, one for each verdict that a stage writes *)
(* into the result, in the order they are written: each overwrites the one *)
(* before it.                                                              *)
(***************************************************************************)

\* evaluateGrasp of BasicSimulator, and of the two simulators with a limit.
EvaluateGrasp(s, o) ==
  LET basic == IF s = "ObjectSlipped" THEN "Success" ELSE s
  IN  IF Limited /\ basic = "Success" /\ o.over THEN "Interference" ELSE basic

\* Mutant: the callback goes on as if the grasp were not over.
VerdictGoesOn(w, s, o) ==
  [w EXCEPT !.status = EvaluateGrasp(s, o), !.stats = Append(@, s)]

\* testStatus is set, _stat is incremented, the grasp is over, graspFinished.
Verdict(w, s, o) ==
  [w EXCEPT !.state = "NEW_GRASP", !.status = EvaluateGrasp(s, o),
            !.stats = Append(@, s)]

LimitsExceeded(w, o) == o.wall /\ w.time > SimTimeLimit

CheckTimeLimits(w, o) ==
  IF LimitsExceeded(w, o) THEN Verdict(w, "TimeOut", o) ELSE w

\* Mutant: the limit does not look whether the grasp is over.
HardLimitUnguarded(w, o) ==
  IF w.time > HardTimeLimit THEN Verdict(w, "TimeOut", o) ELSE w

\* Mutant: no time limit of its own.
NoHardTimeLimit(w, o) == w

CheckHardTimeLimit(w, o) ==
  IF w.time > HardTimeLimit /\ w.state # "NEW_GRASP"
  THEN Verdict(w, "TimeOut", o) ELSE w

\* Mutant: the grasp is given up without a verdict.
ErrorForgotten(w, o) ==
  IF o.err /\ w.state # "NEW_GRASP" THEN [w EXCEPT !.state = "NEW_GRASP", !.time = 0] ELSE w

\* The simulator is reset with the home state, which restarts its clock.
CheckError(w, o) ==
  IF o.err /\ w.state # "NEW_GRASP"
  THEN [Verdict(w, "SimulationFailure", o) EXCEPT !.time = 0] ELSE w

\* This check does not look whether the grasp is over.
CheckCollision(w, o) ==
  IF o.col THEN Verdict(w, "CollisionDuringExecution", o) ELSE w

Approach(w, o) ==
  IF w.state = "APPROACH" /\ o.move # "stay"
  THEN [w EXCEPT !.state = "GRASPING", !.since = w.time] ELSE w

Grasping(w, o) ==
  IF /\ w.state = "GRASPING"
     /\ w.time > w.since
     /\ o.move # "stay" \/ w.time > LastResort
  THEN IF o.move = "lost" /\ ~SuctionCup
       THEN Verdict(w, "ObjectMissed", o)
       ELSE [w EXCEPT !.state = "LIFTING", !.since = w.time]
  ELSE w

\* A suction cup counts as lifted only while it is closed, and never slips.
Lifting(w, o) ==
  LET lifted == /\ w.state = "LIFTING" /\ w.time > w.since
                /\ o.move # "stay"
                /\ SuctionCup => o.move # "lost"
  IN  IF ~lifted THEN w
      ELSE Verdict(w, CASE o.move = "lost" -> "ObjectDropped"
                        [] o.move = "slip" /\ ~SuctionCup -> "ObjectSlipped"
                        [] OTHER -> "Success", o)

Stages(w, o) ==
  Lifting(Grasping(Approach(CheckCollision(CheckError(CheckHardTimeLimit(
    CheckTimeLimits(w, o), o), o), o), o), o), o)

-----------------------------------------------------------------------------
(* The control thread: load, startSimulation, pauseSimulation,             *)
(* resumeSimulation and the wait for isRunning() to become false.          *)

AnyRunning == \E t \in Threads : running[t]

isFinished == total = tally[NrOfExperiments] /\ ~AnyRunning

CallerAt(op, t) == ~fault /\ caller = [op |-> op, at |-> t]
CallerIn(ops)   == ~fault /\ caller.op \in ops
CallerGoes(op, t) == caller' = [op |-> op, at |-> t]

\* The next thread of the loop, or the operation that follows it.
CallerLoops(op, t, after) ==
  IF t + 1 \in Threads THEN CallerGoes(op, t + 1) ELSE CallerGoes(after, 0)

\* Mutant: the SimStates of the previous session are not replaced.
ThreadsReused == UNCHANGED <<state, target, time, since>>

\* A SimState as its constructor leaves it; _target is not initialised.
FreshThreads ==
  /\ state'  = [t \in Threads |-> "NEW_GRASP"]
  /\ target' = [t \in Threads |-> NoTarget]
  /\ time'   = [t \in Threads |-> 0]
  /\ since'  = [t \in Threads |-> 0]

\* ClearStatusFilter, through which a client may pass the task before it loads it.
Cleared(s) == IF s = "Skip" THEN s ELSE "UnInitialized"

\* Mutant: the loop over the targets runs one index too far.
TaskListFromZero(n) == [i \in 1 .. n + 1 |-> i - 1]

\* generateTaskList: the targets are pushed backwards, so the first is on top.
TaskList(n) == [i \in 1 .. n |-> i]

LoadsTasks(n) ==
  /\ loads < MaxLoads
  /\ loads' = loads + 1
  /\ taskQueue' = TaskList(n)
  /\ total' = n
  /\ CallerGoes("loaded", 0)

\* The process manager loads the first n targets into the simulator it keeps.
Load(n, clear) ==
  /\ CallerIn({"idle", "done"})
  /\ LoadsTasks(n)
  /\ status' = IF clear THEN [g \in Targets |-> Cleared(status[g])] ELSE status
  /\ UNCHANGED <<requestStop, pauses, counters, grasp, threads, fault>>

\* A plugin makes a new simulator for each session, also after a stop.
LoadAnew(n) ==
  /\ CallerIn({"done", "stopped"})
  /\ LoadsTasks(n)
  /\ requestStop' = FALSE
  /\ tally' = [c \in Counters |-> 0]
  /\ FreshThreads
  /\ UNCHANGED <<results, todo, loaded, pauses, threads, fault>>

\* startSimulation up to its loop over the threads.
StartEmpty ==
  /\ CallerIn({"loaded"})
  /\ total = 0
  /\ requestStop' = TRUE
  /\ tally' = [tally EXCEPT ![NrOfExperiments] = 0]
  /\ CallerGoes("watching", 0)
  /\ UNCHANGED <<results, queue, todo, loaded, grasp, threads, loads, pauses, fault>>

\* Mutant: the statistics of the previous session are kept.
StatisticsKept ==
  /\ CallerIn({"loaded"})
  /\ total # 0
  /\ requestStop' = FALSE
  /\ tally' = [tally EXCEPT ![NrOfExperiments] = 0]
  /\ FreshThreads
  /\ CallerGoes("starting", 1)
  /\ UNCHANGED <<results, queue, todo, loaded, threads, loads, pauses, fault>>

Start ==
  /\ CallerIn({"loaded"})
  /\ total # 0
  /\ requestStop' = FALSE
  /\ tally' = [c \in Counters |-> 0]
  /\ FreshThreads
  /\ CallerGoes("starting", 1)
  /\ UNCHANGED <<results, queue, todo, loaded, threads, loads, pauses, fault>>

\* ThreadSimulator::start.
Run(t) ==
  /\ running'  = [running EXCEPT ![t] = TRUE]
  /\ postStop' = [postStop EXCEPT ![t] = FALSE]

\* One turn of the loop of startSimulation: thread t runs before t + 1 exists.
StartThread(t) ==
  /\ CallerAt("starting", t)
  /\ Run(t)
  /\ CallerLoops("starting", t, "watching")
  /\ UNCHANGED <<results, queue, counters, grasp, pc, requestStop, loads, pauses, fault>>

\* pauseSimulation, called by the stop button while isRunning().
Pause ==
  /\ CallerIn({"watching"}) /\ AnyRunning
  /\ pauses < MaxPauses
  /\ pauses' = pauses + 1
  /\ requestStop' = TRUE
  /\ CallerGoes("stopping", 1)
  /\ UNCHANGED <<results, queue, counters, grasp, threads, loads, fault>>

\* Mutant: the thread is joined but never asked to stop.
StopNotPosted(t) ==
  /\ CallerAt("stopping", t)
  /\ CallerGoes("joining", t)
  /\ UNCHANGED <<results, queue, counters, grasp, threads,
                 requestStop, loads, pauses, fault>>

\* ThreadSimulator::stop asks a running thread to stop, then joins it.
StopThread(t) ==
  /\ CallerAt("stopping", t)
  /\ postStop' = [postStop EXCEPT ![t] = running[t] \/ @]
  /\ CallerGoes("joining", t)
  /\ UNCHANGED <<results, queue, counters, grasp, pc, running,
                 requestStop, loads, pauses, fault>>

JoinThread(t) ==
  /\ CallerAt("joining", t)
  /\ ~running[t]
  /\ CallerLoops("stopping", t, "stopped")
  /\ UNCHANGED <<results, queue, counters, grasp, threads,
                 requestStop, loads, pauses, fault>>

Resume ==
  /\ AllowResume
  /\ CallerIn({"stopped"})
  /\ requestStop' = FALSE
  /\ CallerGoes("resuming", 1)
  /\ UNCHANGED <<results, queue, counters, grasp, threads, loads, pauses, fault>>

ResumeThread(t) ==
  /\ CallerAt("resuming", t)
  /\ Run(t)
  /\ CallerLoops("resuming", t, "watching")
  /\ UNCHANGED <<results, queue, counters, grasp, pc, requestStop, loads, pauses, fault>>

\* Mutant: the wait ends with the first thread that has stopped.
AwaitAnyEnd ==
  /\ CallerIn({"watching"}) /\ \E t \in Threads : ~running[t]
  /\ CallerGoes("done", 0)
  /\ UNCHANGED <<results, queue, counters, grasp, threads,
                 requestStop, loads, pauses, fault>>

\* The client sees isRunning() = false and goes on to read the results.
AwaitEnd ==
  /\ CallerIn({"watching"}) /\ ~AnyRunning
  /\ CallerGoes("done", 0)
  /\ UNCHANGED <<results, queue, counters, grasp, threads,
                 requestStop, loads, pauses, fault>>

-----------------------------------------------------------------------------
(* A physics thread.                                                       *)

Busy(t) == running[t] /\ ~fault

\* Where the callback goes once its increments are done.
AfterTally(s) == IF s = "NEW_GRASP" THEN "next" ELSE "loop"

Tick(n) == IF n < MaxTime THEN n + 1 ELSE MaxTime

\* A physics step whose callback returns at once because a stop is requested.
StepIgnored(t) ==
  /\ Busy(t) /\ pc[t] = "loop" /\ ~postStop[t]
  /\ requestStop
  /\ time' = [time EXCEPT ![t] = Tick(@)]
  /\ UNCHANGED <<results, queue, counters, state, target, since, threads, control, fault>>

\* A callback that writes a result through a target pointer never set.
StepFaults(t, o) ==
  /\ Busy(t) /\ pc[t] = "loop" /\ ~postStop[t]
  /\ ~requestStop
  /\ target[t] = NoTarget
  /\ \/ o.col /\ ParkedCollides
     \/ o.wall /\ Tick(time[t]) > SimTimeLimit
  /\ fault' = TRUE
  /\ UNCHANGED <<results, queue, counters, grasp, threads, control>>

\* The work record a callback starts from.
Before(t) == [state |-> state[t], time |-> Tick(time[t]), since |-> since[t],
              stats |-> <<>>,
              status |-> IF target[t] = NoTarget THEN "UnInitialized"
                         ELSE status[target[t]]]

\* A physics step and its callback, down to the NEW_GRASP branch.  Nobody else reads the
\* result while the callback runs; what it wrote, check by check, is left in todo.
Step(t, o) ==
  /\ Busy(t) /\ pc[t] = "loop" /\ ~postStop[t]
  /\ ~requestStop
  /\ target[t] = NoTarget =>
       ~o.col /\ ~(o.wall /\ Tick(time[t]) > SimTimeLimit)
  /\ LET w == Stages(Before(t), o)
     IN  /\ state' = [state EXCEPT ![t] = w.state]
         /\ time'  = [time EXCEPT ![t] = w.time]
         /\ since' = [since EXCEPT ![t] = w.since]
         /\ todo'  = [todo EXCEPT ![t] = w.stats]
         /\ status' = IF target[t] = NoTarget THEN status
                      ELSE [status EXCEPT ![target[t]] = w.status]
         /\ pc' = [pc EXCEPT ![t] = IF w.stats # <<>> THEN "load"
                                    ELSE AfterTally(w.state)]
  /\ UNCHANGED <<queue, tally, loaded, target, running, postStop, control, fault>>

\* counter++ on a plain int that other threads increment too: the load ...
TallyLoad(t) ==
  /\ Busy(t) /\ pc[t] = "load"
  /\ loaded' = [loaded EXCEPT ![t] = tally[Head(todo[t])]]
  /\ pc' = [pc EXCEPT ![t] = "store"]
  /\ UNCHANGED <<results, queue, tally, todo, grasp, running, postStop, control, fault>>

\* ... and the store.
TallyStore(t) ==
  /\ Busy(t) /\ pc[t] = "store"
  /\ tally' = [tally EXCEPT ![Head(todo[t])] = loaded[t] + 1]
  /\ todo' = [todo EXCEPT ![t] = Tail(@)]
  /\ loaded' = [loaded EXCEPT ![t] = 0]
  /\ pc' = [pc EXCEPT ![t] = IF Len(todo[t]) > 1 THEN "load" ELSE AfterTally(state[t])]
  /\ UNCHANGED <<results, queue, grasp, running, postStop, control, fault>>

InNewGrasp(t) == Busy(t) /\ pc[t] = "next"

Top == Head(taskQueue)

\* Mutant: the target is read outside the lock and popped by whoever comes last.
TargetNotPopped(t) ==
  /\ taskQueue # <<>>
  /\ target' = [target EXCEPT ![t] = Top]
  /\ \/ taskQueue' = Tail(taskQueue)
     \/ UNCHANGED taskQueue

\* getNextTarget, under _nextTargetLock.
GetNextTarget(t) ==
  /\ taskQueue # <<>>
  /\ target' = [target EXCEPT ![t] = Top]
  /\ taskQueue' = Tail(taskQueue)

\* Mutant: a target with a status is simulated again.
NeverProcessed(g) == FALSE

AlreadyProcessed(g) == ~ForceSimulateAll /\ status[g] # "UnInitialized"

\* The queue is empty: the thread posts its own stop and leaves the callback.
OutOfTargets(t) ==
  /\ InNewGrasp(t)
  /\ taskQueue = <<>>
  /\ postStop' = [postStop EXCEPT ![t] = TRUE]
  /\ pc' = [pc EXCEPT ![t] = "loop"]
  /\ UNCHANGED <<results, queue, counters, grasp, running, control, fault>>

\* Mutant: the target is counted once more.
CountedTwice(t, stats) ==
  /\ todo' = [todo EXCEPT ![t] = stats \o <<NrOfExperiments, NrOfExperiments>>]
  /\ pc' = [pc EXCEPT ![t] = "load"]

\* Counters still to be incremented before the loop of NEW_GRASP goes on.
Tallies(t, stats) ==
  /\ todo' = [todo EXCEPT ![t] = Append(stats, NrOfExperiments)]
  /\ pc' = [pc EXCEPT ![t] = "load"]

\* The target has a status: count it and take the next one.
SkipTarget(t) ==
  /\ InNewGrasp(t)
  /\ GetNextTarget(t)
  /\ AlreadyProcessed(Top)
  /\ Tallies(t, <<status[Top]>>)
  /\ UNCHANGED <<results, total, tally, loaded, state, time, since,
                 running, postStop, control, fault>>

\* The hand collides at the start pose, with s telling what it collides with.
RejectTarget(t, s) ==
  /\ InNewGrasp(t)
  /\ GetNextTarget(t)
  /\ ~AlreadyProcessed(Top)
  /\ status' = [status EXCEPT ![Top] = s]
  /\ Tallies(t, <<s>>)
  /\ UNCHANGED <<total, tally, loaded, state, time, since,
                 running, postStop, control, fault>>

\* The start pose is free: the simulator is reset and the approach begins.
BeginGrasp(t) ==
  /\ InNewGrasp(t)
  /\ GetNextTarget(t)
  /\ ~AlreadyProcessed(Top)
  /\ Tallies(t, <<>>)
  /\ state' = [state EXCEPT ![t] = "APPROACH"]
  /\ time'  = [time EXCEPT ![t] = 0]
  /\ UNCHANGED <<results, total, tally, loaded, since, running, postStop, control, fault>>

\* The loop of the ThreadSimulator ends after the callback that posted the stop.
ThreadExit(t) ==
  /\ Busy(t) /\ pc[t] = "loop" /\ postStop[t]
  /\ running' = [running EXCEPT ![t] = FALSE]
  /\ UNCHANGED <<results, queue, counters, grasp, pc, postStop, control, fault>>

Thread(t) ==
  \/ StepIgnored(t)
  \/ \E o \in Physics : StepFaults(t, o) \/ Step(t, o)
  \/ TallyLoad(t) \/ TallyStore(t)
  \/ OutOfTargets(t) \/ SkipTarget(t) \/ BeginGrasp(t)
  \/ \E s \in {"CollisionObjectInitially", "CollisionEnvironmentInitially"} :
       RejectTarget(t, s)
  \/ ThreadExit(t)

\* The steps of the control thread that only wait for other threads.
CallerWorks ==
  \/ \E t \in Threads :
       StartThread(t) \/ StopThread(t) \/ JoinThread(t) \/ ResumeThread(t)
  \/ StartEmpty \/ Start
  \/ AwaitEnd

Init ==
  /\ status \in [Targets -> FileStatuses]
  /\ taskQueue = <<>>
  /\ total = 0
  /\ requestStop = FALSE
  /\ tally = [c \in Counters |-> 0]
  /\ state = [t \in Threads |-> "NEW_GRASP"]
  /\ target = [t \in Threads |-> NoTarget]
  /\ time = [t \in Threads |-> 0]
  /\ since = [t \in Threads |-> 0]
  /\ pc = [t \in Threads |-> "loop"]
  /\ todo = [t \in Threads |-> <<>>]
  /\ loaded = [t \in Threads |-> 0]
  /\ running = [t \in Threads |-> FALSE]
  /\ postStop = [t \in Threads |-> FALSE]
  /\ fault = FALSE
  /\ caller = [op |-> "idle", at |-> 0]
  /\ loads = 0
  /\ pauses = 0

Next ==
  \/ \E n \in LoadSizes : LoadAnew(n) \/ \E clear \in BOOLEAN : Load(n, clear)
  \/ Pause \/ Resume
  \/ CallerWorks
  \/ \E t \in Threads : Thread(t)

Safety == Init /\ [][Next]_vars

(***************************************************************************)
(* A physics thread that is not blocked keeps stepping and the control     *)
(* thread finishes the operation it is in.  Nothing is promised about when *)
(* a client loads, pauses or resumes.                                      *)
(***************************************************************************)
Fairness == WF_vars(CallerWorks) /\ \A t \in Threads : WF_vars(Thread(t))

Spec == Safety /\ Fairness
-----------------------------------------------------------------------------
(* Properties.                                                             *)

\* The thread has a grasp in progress: its target is popped and not decided.
Holding(t) == state[t] # "NEW_GRASP"

Queued == Range(taskQueue)
Held   == {target[t] : t \in {u \in Threads : Holding(u)}}
LoadedTargets == 1 .. total

(* Every variable keeps its type. *)
TypeOK ==
  /\ status \in [Targets -> Status]
  /\ taskQueue \in Seq(Targets)
  /\ total \in 0 .. NrOfTargets
  /\ requestStop \in BOOLEAN /\ fault \in BOOLEAN
  /\ tally \in [Counters -> Nat]
  /\ state \in [Threads -> StepState]
  /\ target \in [Threads -> Targets \cup {NoTarget}]
  /\ time \in [Threads -> 0 .. MaxTime]
  /\ since \in [Threads -> 0 .. MaxTime]
  /\ pc \in [Threads -> {"loop", "load", "store", "next"}]
  /\ todo \in [Threads -> Seq(Counters)]
  /\ loaded \in [Threads -> Nat]
  /\ running \in [Threads -> BOOLEAN]
  /\ postStop \in [Threads -> BOOLEAN]
  /\ caller \in [op : {"idle", "loaded", "starting", "watching", "stopping",
                       "joining", "stopped", "resuming", "done"},
                 at : Threads \cup {0}]
  /\ loads \in Nat /\ pauses \in Nat

(* No two threads ever simulate the same target, and a target a thread     *)
(* simulates is no longer in the queue: what the lock of getNextTarget     *)
(* (GraspTaskSimulator.cpp:898) is for.                                    *)
ExclusiveGrasp ==
  \A t \in Threads : Holding(t) =>
    /\ target[t] \in Targets \ Queued
    /\ \A u \in Threads : Holding(u) /\ target[u] = target[t] => u = t

(* A target without a status is still in the queue or in the hands of a    *)
(* thread: no path through stepCB (time limit, error, collision, missed or *)
(* dropped object, rejected start pose) drops a target undecided.          *)
NoTargetLost ==
  \A g \in LoadedTargets : status[g] = "UnInitialized" => g \in Queued \cup Held

(* When the client finds isRunning() false and no stop was requested, it   *)
(* reads results that are all decided, whichever thread ended first.       *)
AllDecided ==
  CallerIn({"done"}) => \A g \in LoadedTargets : status[g] # "UnInitialized"

(* What a callback has decided is final: no other thread, no later         *)
(* callback and no second session after a stop changes it, unless a load   *)
(* clears it (GraspTaskSimulator.cpp:655 "if test status is set then we    *)
(* already processed this task").  Check by check, a callback writes into  *)
(* an undecided result only, and writes once; a collision alone is written *)
(* over a verdict of an earlier check, and counted beside it (line 426).   *)
DecidedIsFinal ==
  [][/\ loads' = loads =>
          \A g \in Targets : status[g] # "UnInitialized" => status'[g] = status[g]
     /\ \A t \in Threads : pc[t] = "loop" /\ pc'[t] = "load" =>
          /\ status[target[t]] = "UnInitialized"
          /\ \/ Len(todo'[t]) = 1
             \/ Len(todo'[t]) = 2 /\ todo'[t][2] = "CollisionDuringExecution"]_vars

(* The unprotected increments only ever lose counts: in a session that has *)
(* started (a load alone keeps the old count) the number of targets done   *)
(* never runs ahead of the number of targets popped.                       *)
NrNeverOvercounts ==
  total # 0 /\ caller.op # "loaded" => tally[NrOfExperiments] <= total - Len(taskQueue)

(* Neither do the statistics, as long as a callback decides a grasp once   *)
(* and as it counts it: no entry of _stat exceeds the number of targets    *)
(* that have its status.                                                   *)
StatsNeverOvercount ==
  total # 0 /\ caller.op # "loaded" =>
    \A s \in Status : tally[s] <= Cardinality({g \in LoadedTargets : status[g] = s})

(* At the end of a run, the per-status statistics and the statuses of the  *)
(* targets tell the same story, and every target is counted.               *)
StatsMatchResults ==
  CallerIn({"done"}) =>
    /\ tally[NrOfExperiments] = total
    /\ total # 0 =>
         \A s \in Status :
           tally[s] = Cardinality({g \in LoadedTargets : status[g] = s})

(* How far thread t is from its end or its next pop: the ticks that the    *)
(* hard time limit leaves its grasp, then what is left of the callback. A  *)
(* callback owes two counts at most, of a load and a store each.           *)
Remaining(t) ==
  CASE ~running[t]                    -> 0
    [] running[t] /\ pc[t] = "loop"   -> IF postStop[t] THEN 1 ELSE 7 + MaxTime - time[t]
    [] running[t] /\ pc[t] = "next"   -> 2
    [] running[t] /\ pc[t] \in {"load", "store"} ->
         (IF Holding(t) THEN 7 + MaxTime - time[t] ELSE 2)
           + 2 * Len(todo[t]) - (IF pc[t] = "store" THEN 1 ELSE 0)

(* Why a session that nobody stops comes to an end, in any number of       *)
(* threads: a step of a thread takes a target off the queue or brings the  *)
(* thread nearer to its end, and never throws another thread back.         *)
RunsDown ==
  [][\A t \in Threads : Thread(t) /\ ~requestStop /\ ~fault' =>
       /\ \A u \in Threads \ {t} : Remaining(u)' = Remaining(u)
       /\ \/ Len(taskQueue') < Len(taskQueue)
          \/ taskQueue' = taskQueue /\ Remaining(t)' < Remaining(t)]_vars

(* A simulation nobody stops comes to an end: each grasp is cut off by the *)
(* hard time limit and each thread posts its own stop.                     *)
SimulationEnds ==
  caller.op = "watching" ~> caller.op \in {"done", "stopping"}

(* pauseSimulation returns: joining a thread never waits for ever.         *)
PauseCompletes == caller.op = "stopping" ~> caller.op = "stopped"

-----------------------------------------------------------------------------
(* The targets of a session form a pool: what stepCB and getNextTarget do  *)
(* with them, in any number of threads, is what GraspPool promises.  A     *)
(* thread resumed after its end could write a second result, so the        *)
(* promise is for clients that do not resume.                              *)
Pool == INSTANCE GraspPool WITH
          Results <- Status \ {"UnInitialized"}, Kept <- {"Skip"},
          Redo <- ForceSimulateAll,
          result <- status, pool <- Queued, held <- Held

ImplementsPool == Pool!Spec

-----------------------------------------------------------------------------
(* What the repository says and the code does not do.                      *)

(* GraspTaskSimulator.hpp:132, of getNrTargetsDone: "the number of targets *)
(* that have been simulated until now".  At the end of a run that nobody   *)
(* stopped all have been, so all are counted; two threads can lose counts. *)
AllCountedAtEnd == CallerIn({"done"}) => tally[NrOfExperiments] = total
=============================================================================
