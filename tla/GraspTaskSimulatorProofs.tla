---------------------- MODULE GraspTaskSimulatorProofs ----------------------
(***************************************************************************)
(* Proofs about GraspTaskSimulator for every number of targets and of      *)
(* threads, every time limit, every physics and every client.              *)
(***************************************************************************)
EXTENDS GraspTaskSimulator, TLAPS

(***************************************************************************)
(* The work record of a callback, and what every stage of stepCB promises  *)
(* about it: an idle thread stays idle, a decided target stays decided, a  *)
(* grasp ends only with a verdict and has none before.                     *)
(***************************************************************************)
Work == [state : StepState, time : 0 .. MaxTime, since : 0 .. MaxTime,
         stats : Seq(Status), status : Status]

Sound(w, v) ==
  /\ v \in Work
  /\ w.state = "NEW_GRASP" => v.state = "NEW_GRASP"
  /\ w.status # "UnInitialized" => v.status # "UnInitialized"
  /\ w.state # "NEW_GRASP" /\ v.state = "NEW_GRASP" => v.status # "UnInitialized"
  /\ v.state # "NEW_GRASP" => v.status = w.status

Verdicts == Status \ {"UnInitialized"}

(* evaluateGrasp turns a verdict into a verdict.                           *)
LEMMA EvaluateGraspVerdict ==
  ASSUME NEW s \in Verdicts, NEW o
  PROVE  EvaluateGrasp(s, o) \in Verdicts
BY DEF EvaluateGrasp, Verdicts, Status

(* A verdict ends the grasp and decides the target.                        *)
LEMMA VerdictSound ==
  ASSUME NEW w \in Work, NEW s \in Verdicts, NEW o
  PROVE  /\ Verdict(w, s, o) \in Work
         /\ Verdict(w, s, o).state = "NEW_GRASP"
         /\ Verdict(w, s, o).status # "UnInitialized"
         /\ Sound(w, Verdict(w, s, o))
<1>1. EvaluateGrasp(s, o) \in Verdicts
  BY EvaluateGraspVerdict
<1>2. s \in Status
  BY DEF Verdicts
<1>3. Append(w.stats, s) \in Seq(Status)
  BY <1>2 DEF Work
<1>4. Verdict(w, s, o) \in Work
  BY <1>1, <1>3 DEF Verdict, Work, Verdicts, StepState
<1>5. /\ Verdict(w, s, o).state = "NEW_GRASP"
      /\ Verdict(w, s, o).status # "UnInitialized"
  BY <1>1 DEF Verdict, Work, Verdicts
<1>6. QED
  BY <1>4, <1>5 DEF Sound

LEMMA SoundReflexive ==
  ASSUME NEW w \in Work
  PROVE  Sound(w, w)
BY DEF Sound

LEMMA SoundTransitive ==
  ASSUME NEW u, NEW v, NEW w, Sound(u, v), Sound(v, w)
  PROVE  Sound(u, w)
BY DEF Sound

LEMMA TimeLimitsSound ==
  ASSUME NEW w \in Work, NEW o
  PROVE  /\ Sound(w, CheckTimeLimits(w, o))
         /\ Sound(w, CheckHardTimeLimit(w, o))
<1>1. "TimeOut" \in Verdicts
  BY DEF Verdicts, Status
<1>2. Sound(w, Verdict(w, "TimeOut", o)) /\ Sound(w, w)
  BY <1>1, VerdictSound, SoundReflexive
<1>3. QED
  BY <1>2 DEF CheckTimeLimits, CheckHardTimeLimit

LEMMA ErrorSound ==
  ASSUME NEW w \in Work, NEW o
  PROVE  Sound(w, CheckError(w, o))
<1>1. "SimulationFailure" \in Verdicts
  BY DEF Verdicts, Status
<1> DEFINE v == Verdict(w, "SimulationFailure", o)
<1>2. v \in Work /\ v.status # "UnInitialized" /\ Sound(w, v) /\ v.state = "NEW_GRASP"
  BY <1>1, VerdictSound
<1>3. 0 \in 0 .. MaxTime
  BY ConstantsAssumption DEF MaxTime
<1> HIDE DEF v
<1>4. Sound(w, [v EXCEPT !.time = 0])
  BY <1>2, <1>3 DEF Sound, Work
<1>5. QED
  BY <1>4, SoundReflexive DEF CheckError, v

LEMMA CollisionSound ==
  ASSUME NEW w \in Work, NEW o
  PROVE  Sound(w, CheckCollision(w, o))
<1>1. "CollisionDuringExecution" \in Verdicts
  BY DEF Verdicts, Status
<1>2. QED
  BY <1>1, VerdictSound, SoundReflexive DEF CheckCollision

LEMMA ApproachSound ==
  ASSUME NEW w \in Work, NEW o
  PROVE  Sound(w, Approach(w, o))
<1>1. Sound(w, [w EXCEPT !.state = "GRASPING", !.since = w.time]) \/ w.state = "NEW_GRASP"
  BY DEF Sound, Work, StepState
<1>2. QED
  BY <1>1, SoundReflexive DEF Approach

LEMMA GraspingSound ==
  ASSUME NEW w \in Work, NEW o
  PROVE  Sound(w, Grasping(w, o))
<1>1. "ObjectMissed" \in Verdicts
  BY DEF Verdicts, Status
<1>2. Sound(w, Verdict(w, "ObjectMissed", o))
  BY <1>1, VerdictSound
<1>3. Sound(w, [w EXCEPT !.state = "LIFTING", !.since = w.time]) \/ w.state = "NEW_GRASP"
  BY DEF Sound, Work, StepState
<1>4. QED
  BY <1>2, <1>3, SoundReflexive DEF Grasping

LEMMA LiftingSound ==
  ASSUME NEW w \in Work, NEW o
  PROVE  Sound(w, Lifting(w, o))
<1>1. {"ObjectDropped", "ObjectSlipped", "Success"} \subseteq Verdicts
  BY DEF Verdicts, Status
<1> DEFINE s == CASE o.move = "lost" -> "ObjectDropped"
                  [] o.move = "slip" /\ ~SuctionCup -> "ObjectSlipped"
                  [] OTHER -> "Success"
<1>2. s \in Verdicts
  BY <1>1
<1> HIDE DEF s
<1>3. Sound(w, Verdict(w, s, o)) /\ Sound(w, w)
  BY <1>2, VerdictSound, SoundReflexive
<1>4. QED
  BY <1>3 DEF Lifting, s

(* The whole callback is sound: no path through stepCB drops an undecided  *)
(* target or reopens a decided one.                                        *)
LEMMA StagesSound ==
  ASSUME NEW w \in Work, NEW o
  PROVE  Sound(w, Stages(w, o))
<1> DEFINE w1 == CheckTimeLimits(w, o)
           w2 == CheckHardTimeLimit(w1, o)
           w3 == CheckError(w2, o)
           w4 == CheckCollision(w3, o)
           w5 == Approach(w4, o)
           w6 == Grasping(w5, o)
           w7 == Lifting(w6, o)
<1>1. Sound(w, w1) /\ w1 \in Work
  BY TimeLimitsSound DEF Sound
<1>2. Sound(w1, w2) /\ w2 \in Work
  <2> HIDE DEF w1
  <2> QED BY <1>1, TimeLimitsSound DEF Sound
<1>3. Sound(w2, w3) /\ w3 \in Work
  <2> HIDE DEF w2
  <2> QED BY <1>2, ErrorSound DEF Sound
<1>4. Sound(w3, w4) /\ w4 \in Work
  <2> HIDE DEF w3
  <2> QED BY <1>3, CollisionSound DEF Sound
<1>5. Sound(w4, w5) /\ w5 \in Work
  <2> HIDE DEF w4
  <2> QED BY <1>4, ApproachSound DEF Sound
<1>6. Sound(w5, w6) /\ w6 \in Work
  <2> HIDE DEF w5
  <2> QED BY <1>5, GraspingSound DEF Sound
<1>7. Sound(w6, w7)
  <2> HIDE DEF w6
  <2> QED BY <1>6, LiftingSound
<1>8. Stages(w, o) = w7
  BY DEF Stages
<1> HIDE DEF w1, w2, w3, w4, w5, w6, w7
<1>9. QED
  BY <1>1, <1>2, <1>3, <1>4, <1>5, <1>6, <1>7, <1>8, SoundTransitive
-----------------------------------------------------------------------------
(***************************************************************************)
(* The inductive invariant.  ExclusiveGrasp needs that the queue holds a   *)
(* target once, and that only a thread without a grasp pops it.            *)
(* AllDecided needs that a thread which stops by itself leaves an empty    *)
(* queue and no grasp behind, for as long as the control thread watches.   *)
(***************************************************************************)
Distinct(q) == \A i, j \in 1 .. Len(q) : q[i] = q[j] => i = j

QueueDistinct == Distinct(taskQueue)

PhaseInv ==
  \A t \in Threads :
    /\ pc[t] = "next" => state[t] = "NEW_GRASP"
    /\ pc[t] \in {"load", "store"} => todo[t] # <<>>

\* The control thread has started (or resumed) t and not asked it to stop.
Watched(t) ==
  \/ caller.op = "watching"
  \/ caller.op \in {"starting", "resuming"} /\ t < caller.at

Ended(t) == ~running[t] \/ postStop[t]

ControlInv ==
  /\ caller.op \in {"idle", "loaded", "done", "stopped"} => \A t \in Threads : ~running[t]
  /\ caller.op \in {"stopping", "joining"} =>
       \A t \in Threads : t < caller.at => ~running[t]
  /\ caller.op \in {"idle", "loaded", "done"} => \A t \in Threads : ~Holding(t)
  /\ caller.op \in {"idle", "done"} => taskQueue = <<>>
  /\ caller.op = "loaded" /\ total = 0 => taskQueue = <<>>
  /\ \A t \in Threads : Watched(t) /\ Ended(t) => ~Holding(t) /\ taskQueue = <<>>

IInv == /\ TypeOK /\ PhaseInv /\ QueueDistinct /\ ExclusiveGrasp /\ NoTargetLost
        /\ ControlInv

LEMMA ThreadsAreNaturals == Threads \subseteq Nat \ {0} /\ 1 \in Threads
BY ConstantsAssumption DEF Threads

LEMMA TickTyped ==
  ASSUME NEW n \in 0 .. MaxTime
  PROVE  Tick(n) \in 0 .. MaxTime
BY ConstantsAssumption DEF Tick, MaxTime

(* A callback starts from a well-typed work record.                        *)
LEMMA BeforeIsWork ==
  ASSUME TypeOK, NEW t \in Threads
  PROVE  Before(t) \in Work
<1>1. Tick(time[t]) \in 0 .. MaxTime
  BY TickTyped DEF TypeOK
<1>2. (IF target[t] = NoTarget THEN "UnInitialized" ELSE status[target[t]]) \in Status
  BY DEF TypeOK, Status
<1>3. <<>> \in Seq(Status)
  OBVIOUS
<1>4. QED
  BY <1>1, <1>2, <1>3 DEF Before, Work, TypeOK

LEMMA TailTyped ==
  ASSUME NEW S, NEW q \in Seq(S), q # <<>>
  PROVE  /\ Head(q) \in S
         /\ Tail(q) \in Seq(S)
         /\ Len(q) > 1 => Tail(q) # <<>>
<1>1. Head(q) \in S /\ Tail(q) \in Seq(S) /\ Len(Tail(q)) = Len(q) - 1
  OBVIOUS
<1>2. Tail(q) = <<>> => Len(q) - 1 = 0
  BY <1>1
<1>3. Len(q) \in Nat
  OBVIOUS
<1>4. QED
  BY <1>1, <1>2, <1>3

LEMMA AppendTyped ==
  ASSUME NEW S, NEW q \in Seq(S), NEW e \in S
  PROVE  Append(q, e) \in Seq(S) /\ Append(q, e) # <<>>
<1>1. Append(q, e) \in Seq(S) /\ Append(q, e)[Len(q) + 1] = e
  OBVIOUS
<1>2. Len(Append(q, e)) = Len(q) + 1 /\ Len(q) \in Nat
  OBVIOUS
<1>3. Len(Append(q, e)) # 0
  BY <1>2
<1>4. Len(<<>>) = 0
  OBVIOUS
<1>5. QED
  BY <1>1, <1>3, <1>4, Zenon

(* Popping a sequence without repetitions takes exactly its head out.      *)
LEMMA TailOfDistinct ==
  ASSUME NEW S, NEW q \in Seq(S), q # <<>>, Distinct(q)
  PROVE  /\ Head(q) \in S
         /\ Tail(q) \in Seq(S)
         /\ Len(Tail(q)) = Len(q) - 1
         /\ Distinct(Tail(q))
         /\ Range(Tail(q)) = Range(q) \ {Head(q)}
<1> DEFINE r == Tail(q)
<1>1. Len(q) \in Nat \ {0} /\ Head(q) = q[1] /\ Head(q) \in S
  OBVIOUS
<1>2. /\ r \in Seq(S)
      /\ Len(r) = Len(q) - 1
      /\ \A i \in 1 .. Len(q) - 1 : r[i] = q[i + 1]
  BY <1>1
<1> HIDE DEF r
<1>3. Distinct(r)
  BY <1>1, <1>2 DEF Distinct
<1>4. Range(q) = {q[i] : i \in 1 .. Len(q)} /\ Range(r) = {r[i] : i \in 1 .. Len(r)}
  BY <1>2 DEF Range
<1>5. ASSUME NEW g \in Range(r) PROVE g \in Range(q) \ {Head(q)}
  <2>1. PICK i \in 1 .. Len(r) : g = r[i]
    BY <1>4, <1>5
  <2>2. i + 1 \in 1 .. Len(q) /\ i + 1 # 1 /\ g = q[i + 1]
    BY <2>1, <1>1, <1>2
  <2>3. QED
    BY <2>2, <1>1, <1>4 DEF Distinct
<1>6. ASSUME NEW g \in Range(q) \ {Head(q)} PROVE g \in Range(r)
  <2>1. PICK i \in 1 .. Len(q) : g = q[i]
    BY <1>4, <1>6
  <2>2. i - 1 \in 1 .. Len(r) /\ g = r[i - 1]
    BY <2>1, <1>1, <1>2, <1>6
  <2>3. QED
    BY <2>2, <1>4
<1>7. QED
  BY <1>1, <1>2, <1>3, <1>5, <1>6 DEF r

(* What popping the queue does.                                            *)
LEMMA PopTop ==
  ASSUME TypeOK, QueueDistinct, taskQueue # <<>>, taskQueue' = Tail(taskQueue)
  PROVE  /\ Top \in Targets
         /\ taskQueue' \in Seq(Targets)
         /\ Len(taskQueue') = Len(taskQueue) - 1
         /\ QueueDistinct'
         /\ Queued' = Queued \ {Top}
<1>1. taskQueue \in Seq(Targets) /\ Distinct(taskQueue)
  BY DEF TypeOK, QueueDistinct
<1>2. QED
  BY <1>1, TailOfDistinct DEF Top, Queued, QueueDistinct
-----------------------------------------------------------------------------
(* Initially.                                                              *)
LEMMA InitIInv == Init => IInv
<1> SUFFICES ASSUME Init PROVE IInv
  OBVIOUS
<1>1. TypeOK
  <2>1. [c \in Counters |-> 0] \in [Counters -> Nat]
    OBVIOUS
  <2>2. status \in [Targets -> Status] /\ 0 \in 0 .. NrOfTargets /\ 0 \in 0 .. MaxTime
    BY ConstantsAssumption DEF Init, MaxTime
  <2>3. caller \in [op : {"idle", "loaded", "starting", "watching", "stopping",
                         "joining", "stopped", "resuming", "done"},
                   at : Threads \cup {0}]
    BY DEF Init
  <2>4. /\ taskQueue \in Seq(Targets)
        /\ total \in 0 .. NrOfTargets
        /\ loads \in Nat /\ pauses \in Nat
    BY <2>2 DEF Init
  <2>5. /\ state \in [Threads -> StepState]
        /\ target \in [Threads -> Targets \cup {NoTarget}]
        /\ time \in [Threads -> 0 .. MaxTime]
        /\ since \in [Threads -> 0 .. MaxTime]
    BY <2>2 DEF Init, StepState
  <2>6. /\ pc \in [Threads -> {"loop", "load", "store", "next"}]
        /\ todo \in [Threads -> Seq(Counters)]
        /\ loaded \in [Threads -> Nat]
    BY DEF Init
  <2>7. /\ running \in [Threads -> BOOLEAN]
        /\ postStop \in [Threads -> BOOLEAN]
        /\ requestStop \in BOOLEAN /\ fault \in BOOLEAN
    BY DEF Init
  <2>8. tally \in [Counters -> Nat]
    BY <2>1 DEF Init
  <2>9. QED
    BY <2>2, <2>3, <2>4, <2>5, <2>6, <2>7, <2>8 DEF TypeOK
<1>2. PhaseInv
  BY DEF Init, PhaseInv
<1>3. QueueDistinct
  BY DEF Init, QueueDistinct, Distinct
<1>4. ExclusiveGrasp
  BY DEF Init, ExclusiveGrasp, Holding
<1>5. NoTargetLost
  BY DEF Init, NoTargetLost, LoadedTargets
<1>6. ControlInv
  BY DEF Init, ControlInv, Watched, Holding
<1>7. QED
  BY <1>1, <1>2, <1>3, <1>4, <1>5, <1>6 DEF IInv

(* The three safety invariants look at these variables only.               *)
LEMMA SafetyUnchanged ==
  ASSUME IInv, UNCHANGED <<status, taskQueue, total, state, target>>
  PROVE  QueueDistinct' /\ ExclusiveGrasp' /\ NoTargetLost'
BY DEF IInv, QueueDistinct, Distinct, ExclusiveGrasp, NoTargetLost, Queued, Held,
       LoadedTargets, Holding

LEMMA PhaseUnchanged ==
  ASSUME IInv, UNCHANGED <<state, pc, todo>>
  PROVE  PhaseInv'
BY DEF IInv, PhaseInv

LEMMA FreshTyped ==
  ASSUME FreshThreads
  PROVE  /\ state' \in [Threads -> StepState]
         /\ target' \in [Threads -> Targets \cup {NoTarget}]
         /\ time' \in [Threads -> 0 .. MaxTime]
         /\ since' \in [Threads -> 0 .. MaxTime]
         /\ \A t \in Threads : state'[t] = "NEW_GRASP"
<1>1. 0 \in 0 .. MaxTime
  BY ConstantsAssumption DEF MaxTime
<1>2. QED
  BY <1>1 DEF FreshThreads, StepState

(* A load puts every loaded target in the queue and finds no grasp.        *)
LEMMA LoadIInv ==
  ASSUME IInv, NEW n \in LoadSizes,
         LoadAnew(n) \/ \E clear \in BOOLEAN : Load(n, clear)
  PROVE  IInv'
<1> USE DEF results, queue, counters, grasp, threads
<1>1. n \in 0 .. NrOfTargets /\ n \in Nat
  BY ConstantsAssumption
<1>2. /\ loads' = loads + 1 /\ total' = n
      /\ taskQueue' = [i \in 1 .. n |-> i]
      /\ caller' = [op |-> "loaded", at |-> 0]
      /\ status' = status \/ status' = [g \in Targets |-> Cleared(status[g])]
      /\ tally' = tally \/ tally' = [c \in Counters |-> 0]
      /\ requestStop' = requestStop \/ requestStop' = FALSE
      /\ FreshThreads \/ UNCHANGED <<state, target, time, since>>
      /\ UNCHANGED <<todo, loaded, pauses, pc, running, postStop, fault>>
      /\ \A t \in Threads : ~running[t]
      /\ FreshThreads \/ \A t \in Threads : ~Holding(t)
  BY DEF Load, LoadAnew, LoadsTasks, TaskList, CallerGoes, CallerIn, IInv, ControlInv
<1>3. taskQueue' \in Seq(Targets) /\ Len(taskQueue') = n
  <2>1. 1 .. n \subseteq Targets
    BY <1>1, ConstantsAssumption DEF Targets
  <2>2. QED
    BY <1>1, <1>2, <2>1
<1>4. \A t \in Threads : state'[t] = "NEW_GRASP"
  BY <1>2, FreshTyped DEF Holding
<1>5. TypeOK'
  <2>1. status' \in [Targets -> Status]
    BY <1>2 DEF IInv, TypeOK, Cleared, Status
  <2>2. caller' \in [op : {"idle", "loaded", "starting", "watching", "stopping",
                         "joining", "stopped", "resuming", "done"},
                   at : Threads \cup {0}]
    BY <1>2
  <2>3. /\ state' \in [Threads -> StepState]
        /\ target' \in [Threads -> Targets \cup {NoTarget}]
        /\ time' \in [Threads -> 0 .. MaxTime]
        /\ since' \in [Threads -> 0 .. MaxTime]
    BY <1>2, FreshTyped DEF IInv, TypeOK
  <2>4. tally' \in [Counters -> Nat]
    BY <1>2 DEF IInv, TypeOK
  <2>5. requestStop' \in BOOLEAN
    BY <1>2, Zenon DEF IInv, TypeOK
  <2>6. loads' \in Nat
    BY <1>2 DEF IInv, TypeOK
  <2>7. total' \in 0 .. NrOfTargets
    BY <1>1, <1>2
  <2>8. QED
    BY <1>2, <1>3, <2>1, <2>2, <2>3, <2>4, <2>5, <2>6, <2>7 DEF IInv, TypeOK
<1>6. PhaseInv'
  BY <1>2, <1>4 DEF IInv, PhaseInv
<1>7. QueueDistinct'
  BY <1>1, <1>2, <1>3 DEF QueueDistinct, Distinct
<1>8. ExclusiveGrasp'
  BY <1>4 DEF ExclusiveGrasp, Holding
<1>9. NoTargetLost'
  <2>1. ASSUME NEW g \in 1 .. n PROVE g \in Range(taskQueue')
    BY <1>1, <1>2 DEF Range
  <2>2. QED
    BY <1>2, <2>1 DEF NoTargetLost, LoadedTargets, Queued
<1>10. ControlInv'
  <2>1. n = 0 => taskQueue' = <<>>
    BY <1>3
  <2>2. QED
    BY <1>2, <1>4, <2>1 DEF ControlInv, Watched, Holding
<1>11. QED
  BY <1>5, <1>6, <1>7, <1>8, <1>9, <1>10 DEF IInv

(* startSimulation makes new states for its threads.                       *)
LEMMA StartIInv ==
  ASSUME IInv, Start
  PROVE  IInv'
<1> USE DEF results, queue, counters, threads
<1>1. /\ requestStop' = FALSE
      /\ tally' = [c \in Counters |-> 0]
      /\ FreshThreads
      /\ caller' = [op |-> "starting", at |-> 1]
      /\ UNCHANGED <<status, taskQueue, total, todo, loaded, pc, running, postStop,
                     loads, pauses, fault>>
      /\ \A t \in Threads : ~Holding(t)
  BY DEF Start, CallerGoes, CallerIn, IInv, ControlInv
<1>2. 1 \in Threads /\ \A t \in Threads : ~(t < 1)
  BY ThreadsAreNaturals
<1>3. TypeOK'
  <2>1. caller' \in [op : {"idle", "loaded", "starting", "watching", "stopping",
                         "joining", "stopped", "resuming", "done"},
                   at : Threads \cup {0}]
    BY <1>1, <1>2
  <2>2. tally' \in [Counters -> Nat] /\ requestStop' \in BOOLEAN
    BY <1>1
  <2>3. QED
    BY <1>1, <2>1, <2>2, FreshTyped DEF IInv, TypeOK
<1>4. PhaseInv' /\ QueueDistinct' /\ ExclusiveGrasp'
  BY <1>1, FreshTyped DEF IInv, PhaseInv, QueueDistinct, Distinct, ExclusiveGrasp, Holding
<1>5. NoTargetLost'
  BY <1>1 DEF IInv, NoTargetLost, LoadedTargets, Queued, Held
<1>6. ControlInv'
  BY <1>1, <1>2 DEF ControlInv, Watched
<1>7. QED
  BY <1>3, <1>4, <1>5, <1>6 DEF IInv

(* The loops of the control thread reach every thread.                     *)
LEMMA LoopStep ==
  ASSUME NEW t \in Threads, NEW u \in Threads
  PROVE  IF t + 1 \in Threads THEN u < t + 1 <=> u < t \/ u = t ELSE u < t \/ u = t
BY ConstantsAssumption DEF Threads

(* The rest of the control thread leaves the grasps and the queue alone.   *)
LEMMA CallerIInv ==
  ASSUME IInv, Pause \/ Resume \/ CallerWorks, ~Start
  PROVE  IInv'
<1> USE DEF results, queue, counters, grasp, threads
<1> DEFINE Callers == [op : {"idle", "loaded", "starting", "watching", "stopping",
                             "joining", "stopped", "resuming", "done"},
                       at : Threads \cup {0}]
<1>1. UNCHANGED <<status, taskQueue, total, state, target, time, since, pc, todo, loaded>>
  BY DEF Pause, Resume, CallerWorks, StartEmpty, AwaitEnd, StartThread, StopThread,
         JoinThread, ResumeThread
<1>2. 1 \in Threads
  BY ThreadsAreNaturals
<1>3. caller' \in Callers
  BY <1>2 DEF Pause, Resume, CallerWorks, StartEmpty, AwaitEnd, StartThread, StopThread,
         JoinThread, ResumeThread, CallerGoes, CallerLoops
<1>4. tally' \in [Counters -> Nat]
  <2>1. tally' \in {tally, [tally EXCEPT ![NrOfExperiments] = 0]}
    BY DEF Pause, Resume, CallerWorks, StartEmpty, AwaitEnd, StartThread, StopThread,
           JoinThread, ResumeThread
  <2>2. tally \in [Counters -> Nat]
    BY DEF IInv, TypeOK
  <2>3. QED
    BY <2>1, <2>2
<1>5. running' \in [Threads -> BOOLEAN] /\ postStop' \in [Threads -> BOOLEAN]
  BY DEF IInv, TypeOK, Pause, Resume, CallerWorks, StartEmpty, AwaitEnd, StartThread,
         StopThread, JoinThread, ResumeThread, Run
<1>6. /\ requestStop' \in BOOLEAN /\ fault' \in BOOLEAN
      /\ loads' \in Nat /\ pauses' \in Nat
  <2>1. /\ fault' = fault /\ loads' = loads
        /\ requestStop' \in {TRUE, FALSE, requestStop}
        /\ pauses' \in {pauses, pauses + 1}
    BY DEF Pause, Resume, CallerWorks, StartEmpty, AwaitEnd, StartThread,
           StopThread, JoinThread, ResumeThread
  <2>2. requestStop \in BOOLEAN /\ fault \in BOOLEAN /\ loads \in Nat /\ pauses \in Nat
    BY DEF IInv, TypeOK
  <2>3. requestStop' \in BOOLEAN /\ fault' \in BOOLEAN
    BY <2>1, <2>2, Zenon
  <2>4. loads' \in Nat /\ pauses' \in Nat
    BY <2>1, <2>2, SMT
  <2>5. QED
    BY <2>3, <2>4
<1>7. TypeOK'
  BY <1>1, <1>3, <1>4, <1>5, <1>6 DEF IInv, TypeOK
<1>8. ControlInv'
  <2> USE DEF CallerIn, CallerAt, CallerGoes, CallerLoops
  <2>1. CASE Pause
    BY <2>1, ThreadsAreNaturals DEF Pause, ControlInv, Watched
  <2>2. CASE Resume
    BY <2>2, ThreadsAreNaturals DEF Resume, ControlInv, Watched
  <2>3. CASE StartEmpty
    BY <2>3 DEF StartEmpty, IInv, ControlInv, Holding
  <2>4. CASE AwaitEnd
    BY <1>2, <2>4 DEF AwaitEnd, AnyRunning, IInv, ControlInv, Watched, Ended, Holding
  <2>5. ASSUME NEW t \in Threads, StartThread(t) \/ ResumeThread(t)
        PROVE  ControlInv'
    <3>1. /\ caller.op \in {"starting", "resuming"} /\ caller.at = t
          /\ caller' = IF t + 1 \in Threads THEN [op |-> caller.op, at |-> t + 1]
                       ELSE [op |-> "watching", at |-> 0]
          /\ UNCHANGED <<state, taskQueue, total>>
      BY <2>5 DEF StartThread, ResumeThread
    <3>2. \A u \in Threads : Ended(u)' => Ended(u) /\ u # t
      BY <2>5 DEF StartThread, ResumeThread, Run, Ended, IInv, TypeOK
    <3>3. \A u \in Threads : Watched(u)' => Watched(u) \/ u = t
      BY <3>1, LoopStep DEF Watched
    <3>4. \A u \in Threads : Watched(u)' /\ Ended(u)' => ~Holding(u)' /\ taskQueue' = <<>>
      BY <3>1, <3>2, <3>3 DEF IInv, ControlInv, Holding
    <3>5. QED
      BY <3>1, <3>4 DEF ControlInv
  <2>6. ASSUME NEW t \in Threads, StopThread(t)
        PROVE  ControlInv'
    BY <2>6 DEF StopThread, IInv, TypeOK, ControlInv, Watched
  <2>7. ASSUME NEW t \in Threads, JoinThread(t)
        PROVE  ControlInv'
    BY <2>7, LoopStep DEF JoinThread, IInv, TypeOK, ControlInv, Watched
  <2>8. QED
    BY <2>1, <2>2, <2>3, <2>4, <2>5, <2>6, <2>7 DEF CallerWorks
<1>9. QED
  BY <1>1, <1>7, <1>8, SafetyUnchanged, PhaseUnchanged DEF IInv
-----------------------------------------------------------------------------
(* Only a running thread steps, so the control thread is in the middle of  *)
(* a session; a thread ends only on an empty queue or because it was asked *)
(* to, and takes a grasp only from a queue that is not empty.              *)
LEMMA ThreadControl ==
  ASSUME IInv, NEW t \in Threads, running[t], caller' = caller, total' = total,
         \A u \in Threads : running'[u] => running[u],
         \A u \in Threads \ {t} : /\ state'[u] = state[u]
                                 /\ running'[u] = running[u]
                                 /\ postStop'[u] = postStop[u],
         \/ /\ taskQueue' = taskQueue
            /\ Holding(t)' => Holding(t)
            /\ Ended(t)' => Ended(t) \/ (taskQueue = <<>> /\ ~Holding(t))
         \/ /\ taskQueue # <<>>
            /\ running'[t] = running[t] /\ postStop'[t] = postStop[t]
  PROVE  ControlInv'
<1>1. caller.op \notin {"idle", "loaded", "done", "stopped"}
  BY DEF IInv, ControlInv
<1>2. ASSUME NEW u \in Threads, Watched(u)', Ended(u)'
      PROVE  ~Holding(u)' /\ taskQueue' = <<>>
  BY <1>2 DEF IInv, ControlInv, Watched, Ended, Holding
<1>3. QED
  BY <1>1, <1>2 DEF IInv, ControlInv

(* A step of thread t that changes nothing the safety invariants look at.  *)
LEMMA QuietIInv ==
  ASSUME IInv, NEW t \in Threads,
         \/ StepIgnored(t) \/ \E o \in Physics : StepFaults(t, o)
         \/ TallyLoad(t) \/ TallyStore(t) \/ OutOfTargets(t) \/ ThreadExit(t)
  PROVE  IInv'
<1> USE DEF results, queue, counters, grasp, threads, control, Busy, InNewGrasp
<1>1. /\ UNCHANGED <<status, taskQueue, total, state, target, since,
                     requestStop, caller, loads, pauses>>
      /\ fault' \in {fault, TRUE}
  BY DEF StepIgnored, StepFaults, TallyLoad, TallyStore, OutOfTargets, ThreadExit
<1>2. time' \in [Threads -> 0 .. MaxTime]
  <2>1. time' \in {time, [time EXCEPT ![t] = Tick(time[t])]}
    BY DEF StepIgnored, StepFaults, TallyLoad, TallyStore, OutOfTargets, ThreadExit
  <2>2. time \in [Threads -> 0 .. MaxTime]
    BY DEF IInv, TypeOK
  <2>3. Tick(time[t]) \in 0 .. MaxTime
    BY <2>2, TickTyped
  <2>4. QED
    BY <2>1, <2>2, <2>3
<1>3. running' \in [Threads -> BOOLEAN] /\ postStop' \in [Threads -> BOOLEAN]
  BY DEF IInv, TypeOK, StepIgnored, StepFaults, TallyLoad, TallyStore,
     OutOfTargets, ThreadExit
<1>0. ControlInv'
  <2>1. running[t] /\ (Ended(t)' => Ended(t) \/ (taskQueue = <<>> /\ ~Holding(t)))
    BY DEF StepIgnored, StepFaults, TallyLoad, TallyStore, OutOfTargets, ThreadExit,
           Ended, Holding, IInv, TypeOK, PhaseInv
  <2>2. /\ \A u \in Threads : running'[u] => running[u]
        /\ \A u \in Threads \ {t} : running'[u] = running[u] /\ postStop'[u] = postStop[u]
    BY DEF StepIgnored, StepFaults, TallyLoad, TallyStore, OutOfTargets, ThreadExit,
           IInv, TypeOK
  <2>3. QED
    BY <1>1, <2>1, <2>2, ThreadControl DEF Holding
<1>4. CASE UNCHANGED <<tally, todo, loaded>> /\ pc' \in {pc, [pc EXCEPT ![t] = "loop"]}
  <2>1. pc' \in [Threads -> {"loop", "load", "store", "next"}]
    BY <1>4 DEF IInv, TypeOK
  <2>2. TypeOK'
    BY <1>1, <1>2, <1>3, <1>4, <2>1 DEF IInv, TypeOK
  <2>3. PhaseInv'
    BY <1>1, <1>4 DEF IInv, PhaseInv, TypeOK
  <2>4. QED
    BY <1>0, <1>1, <2>2, <2>3, SafetyUnchanged DEF IInv
<1>5. CASE TallyLoad(t)
  <2>1. todo[t] \in Seq(Counters) /\ todo[t] # <<>>
    BY <1>5 DEF TallyLoad, IInv, TypeOK, PhaseInv
  <2>2. Head(todo[t]) \in Counters
    BY <2>1
  <2>3. loaded' \in [Threads -> Nat]
    BY <1>5, <2>2 DEF TallyLoad, IInv, TypeOK
  <2>4. pc' \in [Threads -> {"loop", "load", "store", "next"}] /\ UNCHANGED <<tally, todo>>
    BY <1>5 DEF TallyLoad, IInv, TypeOK
  <2>5. TypeOK'
    BY <1>1, <1>2, <1>3, <2>3, <2>4 DEF IInv, TypeOK
  <2>6. PhaseInv'
    BY <1>1, <1>5, <2>1 DEF TallyLoad, IInv, PhaseInv, TypeOK
  <2>7. QED
    BY <1>0, <1>1, <2>5, <2>6, SafetyUnchanged DEF IInv
<1>6. CASE TallyStore(t)
  <2>1. todo[t] \in Seq(Counters) /\ todo[t] # <<>>
    BY <1>6 DEF TallyStore, IInv, TypeOK, PhaseInv
  <2>2. /\ Head(todo[t]) \in Counters
        /\ Tail(todo[t]) \in Seq(Counters)
        /\ Len(todo[t]) > 1 => Tail(todo[t]) # <<>>
    BY <2>1, TailTyped
  <2>3. tally' \in [Counters -> Nat] /\ loaded' \in [Threads -> Nat]
    BY <1>6, <2>2 DEF TallyStore, IInv, TypeOK
  <2>4. todo' \in [Threads -> Seq(Counters)]
    BY <1>6, <2>2 DEF TallyStore, IInv, TypeOK
  <2>5. pc' \in [Threads -> {"loop", "load", "store", "next"}]
    BY <1>6 DEF TallyStore, AfterTally, IInv, TypeOK
  <2>6. TypeOK'
    BY <1>1, <1>2, <1>3, <2>3, <2>4, <2>5 DEF IInv, TypeOK
  <2>7. PhaseInv'
    BY <1>1, <1>6, <2>2 DEF TallyStore, AfterTally, IInv, PhaseInv, TypeOK
  <2>8. QED
    BY <1>0, <1>1, <2>6, <2>7, SafetyUnchanged DEF IInv
<1>7. QED
  BY <1>4, <1>5, <1>6 DEF StepIgnored, StepFaults, OutOfTargets, ThreadExit

(* A callback: the only grasp that can end is that of t, with a verdict.   *)
LEMMA StepIInv ==
  ASSUME IInv, NEW t \in Threads, NEW o \in Physics, Step(t, o)
  PROVE  IInv'
<1> USE DEF queue, control
<1> DEFINE w == Stages(Before(t), o)
<1>1. Before(t) \in Work /\ w \in Work /\ Sound(Before(t), w)
  BY BeforeIsWork, StagesSound DEF IInv, Sound
<1>2. /\ state' = [state EXCEPT ![t] = w.state]
      /\ time' = [time EXCEPT ![t] = w.time]
      /\ since' = [since EXCEPT ![t] = w.since]
      /\ todo' = [todo EXCEPT ![t] = w.stats]
      /\ status' = IF target[t] = NoTarget THEN status
                   ELSE [status EXCEPT ![target[t]] = w.status]
      /\ pc' = [pc EXCEPT ![t] = IF w.stats # <<>> THEN "load" ELSE AfterTally(w.state)]
      /\ UNCHANGED <<taskQueue, total, tally, loaded, target, running, postStop,
                     requestStop, caller, loads, pauses, fault>>
  BY DEF Step
<1> HIDE DEF w
<1>3. /\ w.state \in StepState /\ w.time \in 0 .. MaxTime /\ w.since \in 0 .. MaxTime
      /\ w.stats \in Seq(Counters) /\ w.status \in Status
  <2>1. w.stats \in Seq(Status) /\ Status \subseteq Counters
    BY <1>1 DEF Work, Counters
  <2>2. QED
    BY <1>1, <2>1 DEF Work
<1>4. TypeOK'
  <2>1. /\ status' \in [Targets -> Status] /\ state' \in [Threads -> StepState]
        /\ time' \in [Threads -> 0 .. MaxTime] /\ since' \in [Threads -> 0 .. MaxTime]
    BY <1>2, <1>3 DEF IInv, TypeOK
  <2>2. /\ todo' \in [Threads -> Seq(Counters)]
        /\ pc' \in [Threads -> {"loop", "load", "store", "next"}]
    BY <1>2, <1>3 DEF IInv, TypeOK, AfterTally
  <2>3. QED
    BY <1>2, <2>1, <2>2 DEF IInv, TypeOK
<1>5. PhaseInv'
  BY <1>2 DEF IInv, PhaseInv, TypeOK, AfterTally
<1>6. QueueDistinct'
  BY <1>2 DEF IInv, QueueDistinct, Distinct
<1>7. \A u \in Threads : Holding(u)' => Holding(u)
  BY <1>1, <1>2 DEF Sound, Before, Holding, IInv, TypeOK
<1>8. ExclusiveGrasp'
  BY <1>2, <1>7 DEF IInv, ExclusiveGrasp, Queued
<1>9. NoTargetLost'
  <2> SUFFICES ASSUME NEW g \in LoadedTargets, status'[g] = "UnInitialized"
               PROVE  g \in Queued \cup Held'
    BY <1>2 DEF NoTargetLost, LoadedTargets, Queued
  <2>1. g \in Targets
    BY ConstantsAssumption DEF LoadedTargets, Targets, IInv, TypeOK
  <2>2. status[g] = "UnInitialized"
    BY <1>1, <1>2, <2>1 DEF Sound, Before, IInv, TypeOK
  <2>3. g \in Queued \/ \E u \in Threads : Holding(u) /\ target[u] = g
    BY <2>2 DEF IInv, NoTargetLost, Held
  <2>4. ASSUME NEW u \in Threads, Holding(u), target[u] = g
        PROVE  Holding(u)'
    <3>1. CASE u # t
      BY <1>2, <2>4, <3>1 DEF Holding, IInv, TypeOK
    <3>2. CASE u = t
      <4>1. target[t] # NoTarget
        BY <2>1, <2>4, <3>2 DEF Targets, NoTarget
      <4>2. status'[g] = w.status
        BY <1>2, <2>1, <2>4, <3>2, <4>1 DEF IInv, TypeOK
      <4>3. Before(t).state # "NEW_GRASP"
        BY <2>4, <3>2 DEF Before, Holding
      <4>4. w.state # "NEW_GRASP"
        BY <1>1, <4>2, <4>3 DEF Sound
      <4>5. QED
        BY <1>2, <3>2, <4>4 DEF Holding, IInv, TypeOK
    <3>3. QED
      BY <3>1, <3>2
  <2>5. target' = target
    BY <1>2
  <2>6. QED
    BY <2>3, <2>4, <2>5 DEF Held
<1>10. ControlInv'
  <2>2. \A u \in Threads \ {t} : state'[u] = state[u]
    BY <1>2 DEF IInv, TypeOK
  <2>3. running[t]
    BY DEF Step, Busy
  <2>4. QED
    BY <1>2, <1>7, <2>2, <2>3, ThreadControl DEF Ended
<1>11. QED
  BY <1>4, <1>5, <1>6, <1>8, <1>9, <1>10 DEF IInv
-----------------------------------------------------------------------------
(* A thread in the NEW_GRASP branch pops the target on top: nobody holds   *)
(* it, and it stays undecided only if the thread holds it from now on.     *)
LEMMA PopIInv ==
  ASSUME IInv, NEW t \in Threads, InNewGrasp(t), GetNextTarget(t),
         NEW stats \in Seq(Counters), Tallies(t, stats),
         NEW s \in Status, NEW phase \in {"NEW_GRASP", "APPROACH"},
         status' = [status EXCEPT ![Top] = s],
         state' = [state EXCEPT ![t] = phase],
         time' \in [Threads -> 0 .. MaxTime],
         s = "UnInitialized" => phase = "APPROACH",
         UNCHANGED <<total, tally, loaded, since, running, postStop, control, fault>>
  PROVE  IInv'
<1> USE DEF GetNextTarget, control
<1>1. /\ Top \in Targets
      /\ taskQueue' \in Seq(Targets)
      /\ QueueDistinct'
      /\ Queued' = Queued \ {Top}
      /\ Top \in Queued
  <2>1. taskQueue \in Seq(Targets) /\ taskQueue # <<>>
    BY DEF IInv, TypeOK
  <2>2. Top \in Queued
    BY <2>1 DEF Top, Queued, Range
  <2>3. QED
    BY <2>2, PopTop DEF IInv
<1>2. state[t] = "NEW_GRASP"
  BY DEF InNewGrasp, IInv, PhaseInv
<1>3. TypeOK'
  <2>1. /\ status' \in [Targets -> Status] /\ state' \in [Threads -> StepState]
        /\ target' \in [Threads -> Targets \cup {NoTarget}]
    BY <1>1 DEF IInv, TypeOK, StepState
  <2>2. Append(stats, NrOfExperiments) \in Seq(Counters)
    BY DEF Counters
  <2>3. /\ todo' \in [Threads -> Seq(Counters)]
        /\ pc' \in [Threads -> {"loop", "load", "store", "next"}]
    BY <2>2 DEF Tallies, IInv, TypeOK
  <2>4. QED
    BY <1>1, <2>1, <2>3 DEF IInv, TypeOK
<1>4. PhaseInv'
  <2>1. Append(stats, NrOfExperiments) # <<>>
    BY AppendTyped DEF Counters
  <2>2. QED
    BY <2>1 DEF Tallies, IInv, TypeOK, PhaseInv
<1>5. /\ Holding(t)' <=> phase = "APPROACH"
      /\ target'[t] = Top
      /\ \A u \in Threads \ {t} :
           (Holding(u)' <=> Holding(u)) /\ target'[u] = target[u]
  BY DEF Holding, IInv, TypeOK
<1>6. ExclusiveGrasp'
  <2>1. \A u \in Threads : Holding(u) => target[u] \in Targets \ Queued
    BY DEF IInv, ExclusiveGrasp
  <2>2. \A u, v \in Threads :
          Holding(u) /\ Holding(v) /\ target[u] = target[v] => u = v
    BY DEF IInv, ExclusiveGrasp
  <2>3. QED
    BY <1>1, <1>5, <2>1, <2>2 DEF ExclusiveGrasp
<1>7. NoTargetLost'
  <2> SUFFICES ASSUME NEW g \in LoadedTargets, status'[g] = "UnInitialized"
               PROVE  g \in Queued' \/ \E u \in Threads : Holding(u)' /\ target'[u] = g
    BY DEF NoTargetLost, LoadedTargets, Held
  <2>1. g \in Targets
    BY ConstantsAssumption DEF LoadedTargets, Targets, IInv, TypeOK
  <2>2. CASE g = Top
    BY <1>5, <2>2, <1>1, <2>1 DEF IInv, TypeOK
  <2>3. CASE g # Top
    <3>1. status[g] = "UnInitialized"
      BY <2>1, <2>3, <1>1 DEF IInv, TypeOK
    <3>2. g \in Queued \/ \E u \in Threads : Holding(u) /\ target[u] = g
      BY <3>1 DEF IInv, NoTargetLost, Held
    <3>3. ~Holding(t)
      BY <1>2 DEF Holding
    <3>4. QED
      BY <1>1, <1>5, <2>3, <3>2, <3>3
  <2>4. QED
    BY <2>2, <2>3
<1>8. ControlInv'
  <2>1. running[t]
    BY DEF InNewGrasp, Busy
  <2>2. \A u \in Threads \ {t} : state'[u] = state[u]
    BY DEF IInv, TypeOK
  <2>3. QED
    BY <2>1, <2>2, ThreadControl
<1>9. QED
  BY <1>1, <1>3, <1>4, <1>6, <1>7, <1>8 DEF IInv

LEMMA NewGraspIInv ==
  ASSUME IInv, NEW t \in Threads,
         \/ SkipTarget(t) \/ BeginGrasp(t)
         \/ \E s \in {"CollisionObjectInitially", "CollisionEnvironmentInitially"} :
              RejectTarget(t, s)
  PROVE  IInv'
<1> USE DEF results
<1>1. /\ status \in [Targets -> Status] /\ time \in [Threads -> 0 .. MaxTime]
      /\ state \in [Threads -> StepState]
  BY DEF IInv, TypeOK
<1>2. state[t] = "NEW_GRASP" /\ taskQueue # <<>> /\ Top \in Targets
  <2>1. InNewGrasp(t) /\ GetNextTarget(t)
    BY DEF SkipTarget, BeginGrasp, RejectTarget
  <2>2. taskQueue \in Seq(Targets) /\ taskQueue # <<>>
    BY <2>1 DEF GetNextTarget, IInv, TypeOK
  <2>3. QED
    BY <2>1, <2>2, TailTyped DEF Top, InNewGrasp, IInv, PhaseInv
<1>3. state = [state EXCEPT ![t] = "NEW_GRASP"] /\ status = [status EXCEPT ![Top] = status[Top]]
  BY <1>1, <1>2
<1>4. status[Top] \in Status
  BY <1>1, <1>2
<1>5. CASE SkipTarget(t)
  <2>1. status[Top] # "UnInitialized" /\ <<status[Top]>> \in Seq(Counters)
    BY <1>4, <1>5 DEF SkipTarget, AlreadyProcessed, Counters
  <2>2. QED
    BY <1>1, <1>3, <1>4, <1>5, <2>1, PopIInv DEF SkipTarget
<1>6. CASE BeginGrasp(t)
  <2>1. time' \in [Threads -> 0 .. MaxTime]
    BY <1>1, <1>6, ConstantsAssumption DEF BeginGrasp, MaxTime
  <2>2. <<>> \in Seq(Counters)
    OBVIOUS
  <2>3. QED
    BY <1>3, <1>4, <1>6, <2>1, <2>2, PopIInv DEF BeginGrasp
<1>7. ASSUME NEW s \in {"CollisionObjectInitially", "CollisionEnvironmentInitially"},
             RejectTarget(t, s)
      PROVE  IInv'
  <2>1. s \in Status /\ <<s>> \in Seq(Counters) /\ s # "UnInitialized"
    BY DEF Status, Counters
  <2>2. QED
    BY <1>1, <1>3, <1>7, <2>1, PopIInv DEF RejectTarget
<1>8. QED
  BY <1>5, <1>6, <1>7

(* Every step keeps the inductive invariant.                               *)
LEMMA NextIInv == IInv /\ [Next]_vars => IInv'
<1> SUFFICES ASSUME IInv, [Next]_vars PROVE IInv'
  OBVIOUS
<1>1. CASE \E n \in LoadSizes : LoadAnew(n) \/ \E clear \in BOOLEAN : Load(n, clear)
  BY <1>1, LoadIInv
<1>2. CASE Pause \/ Resume \/ CallerWorks
  BY <1>2, CallerIInv, StartIInv
<1>3. ASSUME NEW t \in Threads, Thread(t) PROVE IInv'
  BY <1>3, QuietIInv, StepIInv, NewGraspIInv DEF Thread
<1>4. CASE UNCHANGED vars
  <2>1. UNCHANGED <<status, taskQueue, total, requestStop, tally, state, target, time,
                    since, pc, todo, loaded, running, postStop, fault, caller, loads, pauses>>
    BY <1>4 DEF vars, results, queue, counters, grasp, threads, control
  <2>2. TypeOK'
    BY <2>1 DEF IInv, TypeOK
  <2>3. ControlInv'
    BY <2>1 DEF IInv, ControlInv, Watched, Ended, Holding
  <2>4. QED
    BY <2>1, <2>2, <2>3, SafetyUnchanged, PhaseUnchanged DEF IInv
<1>5. QED
  BY <1>1, <1>2, <1>3, <1>4 DEF Next
-----------------------------------------------------------------------------
(* The inductive invariant holds in every state the simulator reaches.     *)
THEOREM Invariant == Safety => []IInv
BY InitIInv, NextIInv, PTL DEF Safety

(* Every variable of the simulator keeps its type, whatever the physics    *)
(* shows the callbacks.                                                    *)
THEOREM TypeCorrect == Safety => []TypeOK
<1>1. IInv => TypeOK
  BY DEF IInv
<1>2. QED
  BY <1>1, Invariant, PTL

(* The lock around the pop is enough: no two threads simulate one target,  *)
(* for every number of threads.                                            *)
THEOREM GraspsAreExclusive == Safety => []ExclusiveGrasp
<1>1. IInv => ExclusiveGrasp
  BY DEF IInv
<1>2. QED
  BY <1>1, Invariant, PTL

(* No path through stepCB drops a target that has no result yet.           *)
THEOREM NoTargetIsLost == Safety => []NoTargetLost
<1>1. IInv => NoTargetLost
  BY DEF IInv
<1>2. QED
  BY <1>1, Invariant, PTL
(* A client that waits for isRunning() to become false, whichever thread   *)
(* ends first, reads results that are all decided.                         *)
THEOREM ResultsAreDecided == Safety => []AllDecided
<1>1. IInv => AllDecided
  <2> SUFFICES ASSUME IInv, CallerIn({"done"}), NEW g \in LoadedTargets
               PROVE  status[g] # "UnInitialized"
    BY DEF AllDecided
  <2>1. taskQueue = <<>> /\ \A t \in Threads : ~Holding(t)
    BY DEF CallerIn, IInv, ControlInv
  <2>2. Queued = {} /\ Held = {}
    BY <2>1 DEF Queued, Held, Range
  <2>3. QED
    BY <2>2 DEF IInv, NoTargetLost
<1>2. QED
  BY <1>1, Invariant, PTL
-----------------------------------------------------------------------------
(***************************************************************************)
(* Why a session ends.  A callback that leaves its grasp alive has been    *)
(* within the hard time limit and owes no count; one that ends it owes two *)
(* at most, a verdict and a collision on top of it.                        *)
(***************************************************************************)
Few(w, n) ==
  /\ Len(w.stats) <= n
  /\ w.state # "NEW_GRASP" => w.stats = <<>>
  /\ Len(w.stats) > 1 => w.stats[2] = "CollisionDuringExecution"

\* The grasp goes on, at this time, within the hard time limit.
InTime(w, n) == w.state # "NEW_GRASP" => w.time = n /\ w.time <= HardTimeLimit

(* A verdict adds one count.                                               *)
LEMMA VerdictFew ==
  ASSUME NEW w \in Work, NEW n \in {0, 1}, Few(w, n), NEW s \in Verdicts, NEW o
  PROVE  /\ n = 1 /\ s = "CollisionDuringExecution" => Few(Verdict(w, s, o), 2)
         /\ n = 0 \/ w.state # "NEW_GRASP" =>
              Few(Verdict(w, s, o), 1) /\ Few(Verdict(w, s, o), 2)
         /\ Verdict(w, s, o).state = "NEW_GRASP"
<1> DEFINE q == w.stats
           v == Verdict(w, s, o)
<1>1. v.stats = Append(q, s) /\ v.state = "NEW_GRASP"
  BY DEF Verdict, Work
<1>2. q \in Seq(Status) /\ s \in Status
  BY DEF Work, Verdicts
<1>3. Len(Append(q, s)) = Len(q) + 1 /\ Len(q) \in Nat
  BY <1>2
<1>4. n = 0 \/ w.state # "NEW_GRASP" => Len(q) = 0
  BY <1>3 DEF Few
<1>6. Len(q) <= n
  BY DEF Few
<1> HIDE DEF q, v
<1>5. Len(q) = 1 => Append(q, s)[2] = s
  <2>1. Append(q, s)[Len(q) + 1] = s
    BY <1>2
  <2>2. QED
    BY <2>1
<1>7. n = 0 \/ w.state # "NEW_GRASP" => Few(v, 1) /\ Few(v, 2)
  BY <1>1, <1>3, <1>4 DEF Few
<1>8. n = 1 /\ s = "CollisionDuringExecution" => Few(v, 2)
  <2> SUFFICES ASSUME n = 1, s = "CollisionDuringExecution" PROVE Few(v, 2)
    OBVIOUS
  <2>1. Len(v.stats) <= 2
    BY <1>1, <1>3, <1>6
  <2>2. Len(v.stats) > 1 => v.stats[2] = "CollisionDuringExecution"
    BY <1>1, <1>3, <1>5, <1>6
  <2>3. QED
    BY <1>1, <2>1, <2>2 DEF Few
<1>9. QED
  BY <1>1, <1>7, <1>8 DEF v

(* What a whole callback owes, and what it says about the time: the checks *)
(* for time and errors and the phases look whether the grasp is over, the  *)
(* check for a collision does not.                                         *)
LEMMA StagesFew ==
  ASSUME NEW w \in Work, w.stats = <<>>, NEW o
  PROVE  Few(Stages(w, o), 2) /\ InTime(Stages(w, o), w.time)
<1> DEFINE w1 == CheckTimeLimits(w, o)
           w2 == CheckHardTimeLimit(w1, o)
           w3 == CheckError(w2, o)
           w4 == CheckCollision(w3, o)
           w5 == Approach(w4, o)
           w6 == Grasping(w5, o)
           w7 == Lifting(w6, o)
<1>1. {"TimeOut", "SimulationFailure", "CollisionDuringExecution", "ObjectMissed",
       "ObjectDropped", "ObjectSlipped", "Success"} \subseteq Verdicts
  BY DEF Verdicts, Status
<1>2. \A v \in Work : /\ Few(v, 1) => Few(v, 2)
                      /\ Few(v, 2) /\ v.state # "NEW_GRASP" => Few(v, 0)
  BY DEF Few, Work
<1>3. w1 \in Work /\ Few(w1, 1) /\ (w1.state # "NEW_GRASP" => w1.time = w.time)
  <2>1. w1 \in Work
    BY TimeLimitsSound DEF Sound
  <2>2. Few(w, 0)
    BY DEF Few
  <2>3. /\ Few(Verdict(w, "TimeOut", o), 1)
        /\ Verdict(w, "TimeOut", o).state = "NEW_GRASP"
    BY <1>1, <2>2, VerdictFew
  <2>4. Few(w, 1)
    BY DEF Few
  <2>5. QED
    BY <2>1, <2>3, <2>4 DEF CheckTimeLimits
<1> HIDE DEF w1
<1>4. w2 \in Work /\ Few(w2, 1) /\ InTime(w2, w.time)
  <2>1. w2 \in Work
    BY <1>3, TimeLimitsSound DEF Sound
  <2>2. w1.state # "NEW_GRASP" => /\ Few(Verdict(w1, "TimeOut", o), 1)
                                  /\ Verdict(w1, "TimeOut", o).state = "NEW_GRASP"
    BY <1>1, <1>3, VerdictFew
  <2>3. w1.time \in Nat /\ HardTimeLimit \in Nat
    BY <1>3, ConstantsAssumption DEF Work, MaxTime
  <2>4. QED
    BY <1>3, <2>1, <2>2, <2>3 DEF CheckHardTimeLimit, InTime
<1> HIDE DEF w2
<1>5. w3 \in Work /\ Few(w3, 1) /\ InTime(w3, w.time)
  <2>1. w3 \in Work
    BY <1>4, ErrorSound DEF Sound
  <2> DEFINE v == Verdict(w2, "SimulationFailure", o)
  <2>2. w2.state # "NEW_GRASP" => v \in Work /\ Few(v, 1) /\ v.state = "NEW_GRASP"
    BY <1>1, <1>4, VerdictFew, VerdictSound
  <2>3. w2.state # "NEW_GRASP" /\ o.err => w3 = [v EXCEPT !.time = 0]
    BY DEF CheckError
  <2>4. ~(w2.state # "NEW_GRASP" /\ o.err) => w3 = w2
    BY DEF CheckError
  <2> HIDE DEF v, w3
  <2>5. w2.state # "NEW_GRASP" =>
          Few([v EXCEPT !.time = 0], 1) /\ InTime([v EXCEPT !.time = 0], w.time)
    BY <2>2 DEF Few, InTime, Work
  <2>6. QED
    BY <1>4, <2>1, <2>3, <2>4, <2>5
<1> HIDE DEF w3
<1>6. w4 \in Work /\ Few(w4, 2) /\ InTime(w4, w.time)
  <2>1. w4 \in Work
    BY <1>5, CollisionSound DEF Sound
  <2>2. /\ Few(Verdict(w3, "CollisionDuringExecution", o), 2)
        /\ Verdict(w3, "CollisionDuringExecution", o).state = "NEW_GRASP"
    BY <1>1, <1>5, VerdictFew
  <2>3. QED
    BY <1>2, <1>5, <2>1, <2>2 DEF CheckCollision, InTime
<1> HIDE DEF w4
<1>7. w5 \in Work /\ Few(w5, 2) /\ InTime(w5, w.time)
  <2>1. w5 \in Work
    BY <1>6, ApproachSound DEF Sound
  <2>2. w4.state # "NEW_GRASP" =>
          LET v == [w4 EXCEPT !.state = "GRASPING", !.since = w4.time]
          IN  Few(v, 2) /\ InTime(v, w.time)
    BY <1>6 DEF Few, InTime, Work
  <2>3. QED
    BY <1>6, <2>1, <2>2 DEF Approach
<1> HIDE DEF w5
<1>8. w6 \in Work /\ Few(w6, 2) /\ InTime(w6, w.time)
  <2>1. w6 \in Work
    BY <1>7, GraspingSound DEF Sound
  <2>2. w5.state # "NEW_GRASP" => /\ Few(Verdict(w5, "ObjectMissed", o), 2)
                                  /\ Verdict(w5, "ObjectMissed", o).state = "NEW_GRASP"
    BY <1>1, <1>2, <1>7, VerdictFew
  <2>3. w5.state # "NEW_GRASP" => /\ Few(Verdict(w5, "ObjectMissed", o), 2)
                                  /\ InTime(Verdict(w5, "ObjectMissed", o), w.time)
    BY <2>2 DEF InTime
  <2>4. w5.state # "NEW_GRASP" =>
          LET v == [w5 EXCEPT !.state = "LIFTING", !.since = w5.time]
          IN  Few(v, 2) /\ InTime(v, w.time)
    BY <1>7 DEF Few, InTime, Work
  <2>5. QED
    BY <1>7, <2>1, <2>3, <2>4 DEF Grasping
<1> HIDE DEF w6
<1>9. Few(w7, 2) /\ InTime(w7, w.time)
  <2> DEFINE s == CASE o.move = "lost" -> "ObjectDropped"
                    [] o.move = "slip" /\ ~SuctionCup -> "ObjectSlipped"
                    [] OTHER -> "Success"
  <2>1. s \in Verdicts
    BY <1>1
  <2>2. w7 = w6 \/ (w6.state = "LIFTING" /\ w7 = Verdict(w6, s, o))
    BY DEF Lifting
  <2> HIDE DEF s, w7
  <2>3. w6.state # "NEW_GRASP" => Few(Verdict(w6, s, o), 2) /\ Verdict(w6, s, o).state = "NEW_GRASP"
    BY <1>2, <1>8, <2>1, VerdictFew
  <2>4. w6.state # "NEW_GRASP" => Few(Verdict(w6, s, o), 2) /\ InTime(Verdict(w6, s, o), w.time)
    BY <2>3 DEF InTime
  <2>5. QED
    BY <1>8, <2>2, <2>4
<1>10. Stages(w, o) = w7
  BY DEF Stages, w1, w2, w3, w4, w5, w6
<1> HIDE DEF w7
<1>11. QED
  BY <1>9, <1>10

(* A callback without a grasp, a collision or a clock that has run out     *)
(* writes nothing.                                                         *)
LEMMA StagesIdle ==
  ASSUME NEW w, w.state = "NEW_GRASP", NEW o, ~LimitsExceeded(w, o), ~o.col
  PROVE  Stages(w, o) = w
<1>1. CheckError(CheckHardTimeLimit(CheckTimeLimits(w, o), o), o) = w
  BY DEF CheckTimeLimits, CheckHardTimeLimit, CheckError
<1>2. CheckCollision(w, o) = w /\ Approach(w, o) = w /\ Grasping(w, o) = w /\ Lifting(w, o) = w
  BY DEF CheckCollision, Approach, Grasping, Lifting
<1>3. QED
  BY <1>1, <1>2 DEF Stages

(* The measure is a number, and looks at one thread only.                  *)
LEMMA RemainingKept ==
  ASSUME TypeOK, NEW t \in Threads, NEW u \in Threads \ {t},
         \/ running' = running \/ \E b : running' = [running EXCEPT ![t] = b],
         \/ postStop' = postStop \/ \E b : postStop' = [postStop EXCEPT ![t] = b],
         \/ pc' = pc \/ \E b : pc' = [pc EXCEPT ![t] = b],
         \/ time' = time \/ \E b : time' = [time EXCEPT ![t] = b],
         \/ state' = state \/ \E b : state' = [state EXCEPT ![t] = b],
         \/ todo' = todo \/ \E b : todo' = [todo EXCEPT ![t] = b]
  PROVE  Remaining(u)' = Remaining(u)
<1>1. /\ running'[u] = running[u] /\ postStop'[u] = postStop[u] /\ pc'[u] = pc[u]
      /\ time'[u] = time[u] /\ state'[u] = state[u] /\ todo'[u] = todo[u]
  BY DEF TypeOK
<1>2. Holding(u)' <=> Holding(u)
  BY <1>1 DEF Holding
<1>3. QED
  BY <1>1, <1>2 DEF Remaining

\* What RunsDown asks of a step of thread t.
CloserToEnd(t) ==
  /\ \A u \in Threads \ {t} : Remaining(u)' = Remaining(u)
  /\ \/ Len(taskQueue') < Len(taskQueue)
     \/ taskQueue' = taskQueue /\ Remaining(t)' < Remaining(t)

LEMMA RemainingTyped ==
  ASSUME TypeOK, NEW t \in Threads
  PROVE  /\ MaxTime \in Nat /\ HardTimeLimit \in Nat /\ time[t] \in 0 .. MaxTime
         /\ todo[t] \in Seq(Counters) /\ Len(todo[t]) \in Nat
<1>1. time[t] \in 0 .. MaxTime /\ todo[t] \in Seq(Counters)
  BY DEF TypeOK
<1>2. QED
  BY <1>1, ConstantsAssumption DEF MaxTime

(* A callback in the middle of a grasp uses up a tick of the grasp's time; *)
(* one that ends a grasp owes little more than the next pop.               *)
LEMMA StepCloser ==
  ASSUME IInv, NEW t \in Threads, NEW o \in Physics, Step(t, o)
  PROVE  CloserToEnd(t)
<1> USE DEF queue
<1> DEFINE w == Stages(Before(t), o)
<1>1. /\ Before(t) \in Work /\ Before(t).stats = <<>> /\ Before(t).time = Tick(time[t])
      /\ Len(w.stats) \in Nat
  <2>1. Before(t) \in Work
    BY BeforeIsWork DEF IInv
  <2>2. w.stats \in Seq(Status)
    BY <2>1, StagesSound DEF Sound, Work
  <2>3. QED
    BY <2>1, <2>2 DEF Before
<1>2. Few(w, 2) /\ InTime(w, Tick(time[t]))
  BY <1>1, StagesFew
<1>3. /\ running[t] /\ pc[t] = "loop" /\ ~postStop[t]
      /\ state' = [state EXCEPT ![t] = w.state]
      /\ time'  = [time EXCEPT ![t] = w.time]
      /\ todo'  = [todo EXCEPT ![t] = w.stats]
      /\ pc' = [pc EXCEPT ![t] = IF w.stats # <<>> THEN "load" ELSE AfterTally(w.state)]
      /\ UNCHANGED <<taskQueue, running, postStop>>
  BY DEF Step, Busy
<1> HIDE DEF w
<1>4. /\ state'[t] = w.state /\ time'[t] = w.time /\ todo'[t] = w.stats
      /\ pc'[t] = IF w.stats # <<>> THEN "load" ELSE AfterTally(w.state)
  BY <1>3 DEF IInv, TypeOK
<1>5. /\ MaxTime = HardTimeLimit + 1 /\ HardTimeLimit \in Nat
      /\ time[t] \in Nat /\ time[t] <= MaxTime
  BY RemainingTyped DEF IInv, MaxTime
<1>6. Remaining(t) = 7 + MaxTime - time[t]
  BY <1>3 DEF Remaining
<1>7. CASE w.state # "NEW_GRASP"
  <2>1. pc'[t] = "loop" /\ ~postStop'[t] /\ running'[t]
    BY <1>2, <1>3, <1>4, <1>7 DEF AfterTally, Few
  <2>2. time'[t] = Tick(time[t]) /\ Tick(time[t]) <= HardTimeLimit
    BY <1>2, <1>4, <1>7 DEF InTime
  <2>3. time'[t] = time[t] + 1
    BY <1>5, <2>2 DEF Tick
  <2>4. Remaining(t)' = 7 + MaxTime - time'[t]
    BY <2>1 DEF Remaining
  <2>5. Remaining(t)' < Remaining(t)
    BY <1>5, <1>6, <2>3, <2>4
  <2>6. QED
    BY <1>3, <2>5, RemainingKept DEF CloserToEnd, IInv
<1>8. CASE w.state = "NEW_GRASP"
  <2>1. ~Holding(t)' /\ running'[t]
    BY <1>3, <1>4, <1>8 DEF Holding
  <2>2. CASE w.stats = <<>>
    <3>1. pc'[t] = "next"
      BY <1>4, <1>8, <2>2 DEF AfterTally
    <3>2. Remaining(t)' = 2
      BY <2>1, <3>1 DEF Remaining
    <3>3. Remaining(t)' < Remaining(t)
      BY <1>5, <1>6, <3>2
    <3>4. QED
      BY <1>3, <3>3, RemainingKept DEF CloserToEnd, IInv
  <2>3. CASE w.stats # <<>>
    <3>1. pc'[t] = "load"
      BY <1>4, <2>3
    <3>2. Remaining(t)' = 2 + 2 * Len(todo'[t]) - 0
      BY <2>1, <3>1 DEF Remaining
    <3>3. Len(todo'[t]) <= 2
      BY <1>2, <1>4 DEF Few
    <3>4. Remaining(t)' <= 6 /\ Remaining(t)' \in Nat
      <4>1. PICK n \in Nat : n = Len(todo'[t])
        BY <1>1, <1>4
      <4>2. n <= 2 /\ Remaining(t)' = 2 + 2 * n
        BY <3>2, <3>3, <4>1
      <4>3. QED
        BY <4>2
    <3>5. 7 <= Remaining(t) /\ Remaining(t) \in Nat
      BY <1>5, <1>6
    <3>6. Remaining(t)' < Remaining(t)
      BY <3>4, <3>5
    <3>7. QED
      BY <1>3, <3>6, RemainingKept DEF CloserToEnd, IInv
  <2>4. QED
    BY <2>2, <2>3
<1>9. QED
  BY <1>7, <1>8

(* The two halves of an increment, the last of which ends the callback.    *)
LEMMA TallyCloser ==
  ASSUME IInv, NEW t \in Threads, TallyLoad(t) \/ TallyStore(t)
  PROVE  CloserToEnd(t)
<1> USE DEF queue, grasp
<1> DEFINE base == IF Holding(t) THEN 7 + MaxTime - time[t] ELSE 2
<1>1. /\ MaxTime \in Nat /\ time[t] \in 0 .. MaxTime
      /\ todo[t] \in Seq(Counters) /\ Len(todo[t]) \in Nat
  BY RemainingTyped DEF IInv
<1>2. /\ running[t] /\ UNCHANGED <<taskQueue, running, postStop, state, time>>
      /\ pc[t] \in {"load", "store"}
  BY DEF TallyLoad, TallyStore, Busy
<1>3. base \in Int /\ base >= 2 /\ (Holding(t)' <=> Holding(t)) /\ base' = base
  BY <1>1, <1>2 DEF Holding
<1>4. Remaining(t) = base + 2 * Len(todo[t]) - (IF pc[t] = "store" THEN 1 ELSE 0)
  BY <1>2 DEF Remaining
<1>5. Remaining(t)' < Remaining(t)
  <2>1. CASE TallyLoad(t)
    <3>1. pc[t] = "load" /\ pc' = [pc EXCEPT ![t] = "store"] /\ todo' = todo
      BY <2>1 DEF TallyLoad
    <3>2. pc'[t] = "store" /\ running'[t]
      BY <1>2, <3>1 DEF IInv, TypeOK
    <3>3. Remaining(t)' = base' + 2 * Len(todo'[t]) - 1
      BY <3>2 DEF Remaining
    <3> HIDE DEF base
    <3>4. QED
      BY <1>1, <1>3, <1>4, <3>1, <3>3
  <2>2. CASE TallyStore(t)
    <3>1. /\ pc[t] = "store"
          /\ pc' = [pc EXCEPT ![t] = IF Len(todo[t]) > 1 THEN "load" ELSE AfterTally(state[t])]
          /\ todo' = [todo EXCEPT ![t] = Tail(todo[t])]
      BY <2>2 DEF TallyStore
    <3>2. /\ pc'[t] = IF Len(todo[t]) > 1 THEN "load" ELSE AfterTally(state[t])
          /\ todo'[t] = Tail(todo[t]) /\ running'[t]
      BY <1>2, <3>1 DEF IInv, TypeOK
    <3>3. todo[t] # <<>>
      BY <3>1 DEF IInv, PhaseInv
    <3>4. Len(todo[t]) >= 1 /\ Len(todo'[t]) = Len(todo[t]) - 1
      BY <1>1, <3>2, <3>3
    <3>5. CASE Len(todo[t]) > 1
      <4>1. pc'[t] = "load"
        BY <3>2, <3>5
      <4>2. Remaining(t)' = base' + 2 * Len(todo'[t]) - 0
        BY <3>2, <4>1 DEF Remaining
      <4> HIDE DEF base
      <4>3. QED
        BY <1>1, <1>3, <1>4, <3>1, <3>4, <4>2
    <3>6. CASE ~(Len(todo[t]) > 1) /\ ~Holding(t)
      <4>1. pc'[t] = "next"
        BY <3>2, <3>6 DEF AfterTally, Holding
      <4>2. Remaining(t)' = 2
        BY <3>2, <4>1 DEF Remaining
      <4>3. Remaining(t) = base + 2 * Len(todo[t]) - 1
        BY <1>4, <3>1
      <4> HIDE DEF base
      <4>4. QED
        BY <1>1, <1>3, <3>4, <4>2, <4>3
    <3>7. CASE ~(Len(todo[t]) > 1) /\ Holding(t)
      <4>1. pc'[t] = "loop"
        BY <3>2, <3>7 DEF AfterTally, Holding
      <4>2. Remaining(t)' = IF postStop'[t] THEN 1 ELSE 7 + MaxTime - time'[t]
        BY <3>2, <4>1 DEF Remaining
      <4>3. base = 7 + MaxTime - time'[t]
        BY <1>2, <3>7
      <4>4. Remaining(t) = base + 2 * Len(todo[t]) - 1
        BY <1>4, <3>1
      <4>5. Remaining(t)' = 1 \/ Remaining(t)' = base
        BY <4>2, <4>3
      <4> HIDE DEF base
      <4>6. QED
        BY <1>1, <1>3, <3>4, <4>4, <4>5
    <3>8. QED
      BY <3>5, <3>6, <3>7
  <2>3. QED
    BY <2>1, <2>2
<1>6. \/ pc' = [pc EXCEPT ![t] = "store"] /\ todo' = todo
      \/ \E b, c : pc' = [pc EXCEPT ![t] = b] /\ todo' = [todo EXCEPT ![t] = c]
  BY DEF TallyLoad, TallyStore
<1>7. QED
  BY <1>2, <1>5, <1>6, RemainingKept DEF CloserToEnd, IInv

(* The end of the queue and the end of the thread.                         *)
LEMMA EndCloser ==
  ASSUME IInv, NEW t \in Threads, OutOfTargets(t) \/ ThreadExit(t)
  PROVE  CloserToEnd(t)
<1> USE DEF queue, counters, grasp
<1>1. CASE OutOfTargets(t)
  <2>1. /\ running[t] /\ pc[t] = "next" /\ UNCHANGED <<taskQueue, running, time, state, todo>>
        /\ postStop' = [postStop EXCEPT ![t] = TRUE] /\ pc' = [pc EXCEPT ![t] = "loop"]
    BY <1>1 DEF OutOfTargets, InNewGrasp, Busy
  <2>2. postStop'[t] /\ pc'[t] = "loop" /\ running'[t]
    BY <2>1 DEF IInv, TypeOK
  <2>3. Remaining(t) = 2
    BY <2>1 DEF Remaining
  <2>4. Remaining(t)' = 1
    BY <2>2 DEF Remaining
  <2>5. \A u \in Threads \ {t} : Remaining(u)' = Remaining(u)
    BY <2>1, RemainingKept DEF IInv
  <2>6. Remaining(t)' < Remaining(t) /\ taskQueue' = taskQueue
    BY <2>1, <2>3, <2>4
  <2>7. QED
    BY <2>5, <2>6 DEF CloserToEnd
<1>2. CASE ThreadExit(t)
  <2>1. /\ running[t] /\ pc[t] = "loop" /\ postStop[t]
        /\ UNCHANGED <<taskQueue, pc, postStop, time, state, todo>>
        /\ running' = [running EXCEPT ![t] = FALSE]
    BY <1>2 DEF ThreadExit, Busy
  <2>2. ~running'[t]
    BY <2>1 DEF IInv, TypeOK
  <2>3. Remaining(t) = 1
    BY <2>1 DEF Remaining
  <2>4. Remaining(t)' = 0
    BY <2>2 DEF Remaining
  <2>5. \A u \in Threads \ {t} : Remaining(u)' = Remaining(u)
    BY <2>1, RemainingKept DEF IInv
  <2>6. Remaining(t)' < Remaining(t) /\ taskQueue' = taskQueue
    BY <2>1, <2>3, <2>4
  <2>7. QED
    BY <2>5, <2>6 DEF CloserToEnd
<1>3. QED
  BY <1>1, <1>2

(* A pop shortens the queue.                                               *)
LEMMA PopCloser ==
  ASSUME IInv, NEW t \in Threads,
         \/ SkipTarget(t) \/ BeginGrasp(t)
         \/ \E s \in {"CollisionObjectInitially", "CollisionEnvironmentInitially"} :
              RejectTarget(t, s)
  PROVE  CloserToEnd(t)
<1>1. taskQueue # <<>> /\ taskQueue' = Tail(taskQueue)
  BY DEF SkipTarget, BeginGrasp, RejectTarget, GetNextTarget
<1>2. Len(taskQueue') = Len(taskQueue) - 1 /\ Len(taskQueue) \in Nat
  BY <1>1, PopTop DEF IInv, TypeOK
<1>3. /\ UNCHANGED <<running, postStop>>
      /\ \E b : pc' = [pc EXCEPT ![t] = b]
      /\ \E b : todo' = [todo EXCEPT ![t] = b]
      /\ time' = time \/ \E b : time' = [time EXCEPT ![t] = b]
      /\ state' = state \/ \E b : state' = [state EXCEPT ![t] = b]
  BY DEF SkipTarget, BeginGrasp, RejectTarget, Tallies
<1>4. \A u \in Threads \ {t} : Remaining(u)' = Remaining(u)
  BY <1>3, RemainingKept DEF IInv
<1>5. QED
  BY <1>2, <1>4 DEF CloserToEnd

(* What remains is a number, and is nothing only for a thread that has     *)
(* ended: neither it nor the queue can go down for ever.                   *)
LEMMA RemainingIsNumber ==
  ASSUME TypeOK, NEW t \in Threads
  PROVE  Remaining(t) \in Nat /\ (Remaining(t) = 0 => ~running[t])
<1>1. /\ MaxTime \in Nat /\ time[t] \in 0 .. MaxTime /\ Len(todo[t]) \in Nat
      /\ running[t] \in BOOLEAN /\ postStop[t] \in BOOLEAN
      /\ pc[t] \in {"loop", "load", "store", "next"}
  BY RemainingTyped DEF TypeOK
<1>2. CASE ~running[t]
  BY <1>2 DEF Remaining
<1>3. CASE running[t] /\ pc[t] = "loop"
  <2>1. Remaining(t) = IF postStop[t] THEN 1 ELSE 7 + MaxTime - time[t]
    BY <1>3 DEF Remaining
  <2>2. QED
    BY <1>1, <2>1
<1>4. CASE running[t] /\ pc[t] = "next"
  <2>1. Remaining(t) = 2
    BY <1>4 DEF Remaining
  <2>2. QED
    BY <2>1
<1>5. CASE running[t] /\ pc[t] = "load"
  <2>1. Remaining(t) = (IF Holding(t) THEN 7 + MaxTime - time[t] ELSE 2) + 2 * Len(todo[t]) - 0
    BY <1>5 DEF Remaining
  <2>2. QED
    BY <1>1, <2>1
<1>6. CASE running[t] /\ pc[t] = "store"
  <2>1. Remaining(t) = (IF Holding(t) THEN 7 + MaxTime - time[t] ELSE 2) + 2 * Len(todo[t]) - 1
    BY <1>6 DEF Remaining
  <2>2. QED
    BY <1>1, <2>1
<1>7. QED
  BY <1>1, <1>2, <1>3, <1>4, <1>5, <1>6

(* Whatever the physics shows: each step of each thread takes a target off *)
(* the queue or brings that thread nearer to its end, and no thread is     *)
(* ever thrown back by another.  A session that nobody stops can therefore *)
(* not go on for ever, for any number of targets and of threads.           *)
THEOREM SessionsRunDown == Safety => RunsDown
<1>1. IInv /\ [Next]_vars =>
        [\A t \in Threads : Thread(t) /\ ~requestStop /\ ~fault' =>
           /\ \A u \in Threads \ {t} : Remaining(u)' = Remaining(u)
           /\ \/ Len(taskQueue') < Len(taskQueue)
              \/ taskQueue' = taskQueue /\ Remaining(t)' < Remaining(t)]_vars
  <2> SUFFICES ASSUME IInv, NEW t \in Threads, Thread(t), ~requestStop, ~fault'
               PROVE  CloserToEnd(t)
    BY DEF CloserToEnd
  <2>1. ~StepIgnored(t) /\ ~\E o \in Physics : StepFaults(t, o)
    BY DEF StepIgnored, StepFaults
  <2>2. QED
    BY <2>1, StepCloser, TallyCloser, EndCloser, PopCloser DEF Thread
<1>2. QED
  BY <1>1, Invariant, PTL DEF Safety, RunsDown
=============================================================================
