-------------------------- MODULE GraspPoolRefinement --------------------------
(***************************************************************************)
(* For clients that never resume a stopped simulation, the simulator       *)
(* implements GraspPool, and with it a target is decided by one callback.  *)
(***************************************************************************)
EXTENDS GraspTaskSimulatorProofs

(***************************************************************************)
(* Only a thread that holds a target, or one that never had any, runs a    *)
(* callback: a thread without a grasp goes straight on to the next target  *)
(* or out of its loop.  So a callback never writes through a target left   *)
(* over from an earlier grasp.                                             *)
(***************************************************************************)
StepInv ==
  /\ caller.op # "resuming"
  /\ caller.op = "starting" =>
       \A t \in Threads : t >= caller.at => ~running[t] /\ target[t] = NoTarget
  /\ \A t \in Threads :
       running[t] /\ pc[t] = "loop" /\ ~postStop[t] => Holding(t) \/ target[t] = NoTarget

RInv == IInv /\ StepInv

LEMMA InitStepInv == Init => StepInv
BY DEF Init, StepInv

LEMMA StepInvThread ==
  ASSUME IInv, StepInv, NEW t \in Threads, running[t], caller' = caller,
         \A u \in Threads : running'[u] => running[u],
         \A u \in Threads \ {t} :
           /\ state'[u] = state[u] /\ pc'[u] = pc[u]
           /\ postStop'[u] = postStop[u] /\ target'[u] = target[u],
         running'[t] /\ pc'[t] = "loop" /\ ~postStop'[t]
           => Holding(t)' \/ target'[t] = NoTarget
  PROVE  StepInv'
<1>1. caller.op = "starting" => \A u \in Threads : u >= caller.at => u # t
  BY DEF StepInv
<1>2. QED
  BY <1>1 DEF StepInv, Holding

LEMMA StepInvKept ==
  ASSUME ~AllowResume, IInv, StepInv, [Next]_vars
  PROVE  StepInv'
<1> USE DEF results, queue, counters, grasp, threads, control
<1>1. ASSUME NEW n \in LoadSizes, LoadAnew(n) \/ \E clear \in BOOLEAN : Load(n, clear)
      PROVE  StepInv'
  BY <1>1 DEF Load, LoadAnew, LoadsTasks, CallerGoes, CallerIn, IInv, ControlInv, StepInv
<1>2. CASE Start
  <2>1. \A t \in Threads : ~running[t]
    BY <1>2 DEF Start, CallerIn, IInv, ControlInv
  <2>2. /\ running' = running /\ caller' = [op |-> "starting", at |-> 1]
        /\ target' = [t \in Threads |-> NoTarget]
    BY <1>2 DEF Start, FreshThreads, CallerGoes
  <2>3. QED
    BY <2>1, <2>2 DEF StepInv
<1>3. CASE StartEmpty \/ Pause \/ AwaitEnd \/ Resume
  BY <1>3 DEF StartEmpty, Pause, AwaitEnd, Resume, CallerGoes, StepInv, Holding
<1>4. ASSUME NEW t \in Threads, StopThread(t) \/ JoinThread(t) \/ ResumeThread(t)
      PROVE  StepInv'
  <2>1. /\ caller'.op \in {"stopping", "joining", "stopped"}
        /\ UNCHANGED <<state, target, pc, running>>
        /\ \/ postStop' = postStop
           \/ postStop' = [postStop EXCEPT ![t] = running[t] \/ postStop[t]]
    BY <1>4 DEF StopThread, JoinThread, ResumeThread, CallerAt, CallerGoes, CallerLoops,
       StepInv
  <2>2. postStop \in [Threads -> BOOLEAN]
    BY DEF IInv, TypeOK
  <2>3. \A u \in Threads : postStop[u] => postStop'[u]
    BY <2>1, <2>2, Zenon
  <2>4. QED
    BY <2>1, <2>3 DEF StepInv, Holding
<1>5. ASSUME NEW t \in Threads, StartThread(t)
      PROVE  StepInv'
  <2>1. /\ caller.op = "starting" /\ caller.at = t
        /\ caller' = IF t + 1 \in Threads THEN [op |-> "starting", at |-> t + 1]
                     ELSE [op |-> "watching", at |-> 0]
        /\ running' = [running EXCEPT ![t] = TRUE]
        /\ postStop' = [postStop EXCEPT ![t] = FALSE]
        /\ UNCHANGED <<state, target, pc>>
    BY <1>5 DEF StartThread, Run, CallerAt, CallerGoes, CallerLoops
  <2>2. t >= t /\ \A u \in Threads : u >= t + 1 => u >= t /\ u # t
    BY ThreadsAreNaturals
  <2>3. target[t] = NoTarget
    BY <2>1, <2>2 DEF StepInv
  <2>4. \A u \in Threads \ {t} : running'[u] = running[u] /\ postStop'[u] = postStop[u]
    BY <2>1 DEF IInv, TypeOK
  <2>5. QED
    BY <2>1, <2>2, <2>3, <2>4 DEF StepInv, Holding
<1>6. ASSUME NEW t \in Threads, Thread(t)
      PROVE  StepInv'
  <2>1. running[t] /\ caller' = caller
    BY <1>6 DEF Thread, StepIgnored, StepFaults, Step, TallyLoad, TallyStore, OutOfTargets,
       SkipTarget, RejectTarget, BeginGrasp, ThreadExit, InNewGrasp, Busy
  <2>2. \A u \in Threads : running'[u] => running[u]
    BY <1>6 DEF Thread, StepIgnored, StepFaults, Step, TallyLoad, TallyStore, OutOfTargets,
       SkipTarget, RejectTarget, BeginGrasp, ThreadExit, IInv, TypeOK
  <2>3. \A u \in Threads \ {t} : state'[u] = state[u] /\ target'[u] = target[u]
    BY <1>6 DEF Thread, StepIgnored, StepFaults, Step, TallyLoad, TallyStore, OutOfTargets,
       SkipTarget, RejectTarget, BeginGrasp, ThreadExit, GetNextTarget, IInv, TypeOK
  <2>4. \A u \in Threads \ {t} : pc'[u] = pc[u] /\ postStop'[u] = postStop[u]
    BY <1>6 DEF Thread, StepIgnored, StepFaults, Step, TallyLoad, TallyStore, OutOfTargets,
       SkipTarget, RejectTarget, BeginGrasp, ThreadExit, Tallies, IInv, TypeOK
  <2>5. running'[t] /\ pc'[t] = "loop" /\ ~postStop'[t]
           => Holding(t)' \/ target'[t] = NoTarget
    <3>1. CASE StepIgnored(t) \/ \E o \in Physics : StepFaults(t, o)
      BY <3>1 DEF StepIgnored, StepFaults, StepInv, Holding
    <3>2. CASE \E o \in Physics : Step(t, o)
      <4>1. PICK o \in Physics : Step(t, o)
        BY <3>2
      <4> DEFINE w == Stages(Before(t), o)
      <4>2. /\ pc'[t] = IF w.stats # <<>> THEN "load" ELSE AfterTally(w.state)
            /\ state'[t] = w.state
        BY <4>1 DEF Step, IInv, TypeOK
      <4> HIDE DEF w
      <4>3. QED
        BY <4>2 DEF AfterTally, Holding
    <3>3. CASE TallyLoad(t)
      BY <3>3 DEF TallyLoad, IInv, TypeOK
    <3>4. CASE TallyStore(t)
      BY <3>4 DEF TallyStore, AfterTally, Holding, IInv, TypeOK
    <3>5. CASE OutOfTargets(t) \/ ThreadExit(t)
      BY <3>5 DEF OutOfTargets, ThreadExit, IInv, TypeOK
    <3>6. CASE \/ SkipTarget(t) \/ BeginGrasp(t)
               \/ \E s \in {"CollisionObjectInitially", "CollisionEnvironmentInitially"} :
                    RejectTarget(t, s)
      BY <3>6 DEF SkipTarget, BeginGrasp, RejectTarget, Tallies, IInv, TypeOK
    <3>7. QED
      BY <1>6, <3>1, <3>2, <3>3, <3>4, <3>5, <3>6 DEF Thread
  <2>6. QED
    BY <2>1, <2>2, <2>3, <2>4, <2>5, StepInvThread
<1>7. CASE UNCHANGED vars
  BY <1>7 DEF vars, StepInv, Holding
<1>8. QED
  BY <1>1, <1>2, <1>3, <1>4, <1>5, <1>6, <1>7 DEF Next, CallerWorks

THEOREM ReachableRInv == ~AllowResume => (Safety => []RInv)
<1>1. Init => RInv
  BY InitIInv, InitStepInv DEF RInv
<1>2. ~AllowResume /\ RInv /\ [Next]_vars => RInv'
  BY NextIInv, StepInvKept DEF RInv
<1>3. QED
  <2>1. CASE ~AllowResume
    <3>1. RInv /\ [Next]_vars => RInv'
      BY <1>2, <2>1
    <3>2. QED
      BY <1>1, <3>1, PTL DEF Safety
  <2>2. QED
    BY <2>1
-----------------------------------------------------------------------------
(***************************************************************************)
(* Every step of the simulator is a step of the pool or leaves it alone.   *)
(***************************************************************************)
LEMMA HeldMembers == \A g : g \in Held <=> \E t \in Threads : Holding(t) /\ target[t] = g
BY DEF Held

LEMMA PoolUnchanged ==
  ASSUME UNCHANGED <<status, taskQueue, state, target>>
  PROVE  UNCHANGED Pool!poolVars
BY DEF Pool!poolVars, Queued, Held, Holding

(* A load fills the pool and abandons what is held.                        *)
LEMMA LoadFills ==
  ASSUME RInv, NEW n \in LoadSizes,
         LoadAnew(n) \/ \E clear \in BOOLEAN : Load(n, clear)
  PROVE  Pool!Next
<1> USE DEF results, grasp
<1>1. IInv'
  BY LoadIInv DEF RInv
<1>2. Queued' \in SUBSET Targets
  BY <1>1 DEF IInv, TypeOK, Queued, Range
<1>3. \A t \in Threads : state'[t] = "NEW_GRASP"
  BY FreshTyped DEF Load, LoadAnew, LoadsTasks, CallerIn, Holding, RInv, IInv, ControlInv
<1>4. Held' = {}
  BY <1>3 DEF Held, Holding
<1>5. status' \in {status, [g \in Targets |-> IF status[g] \in {"Skip"} THEN status[g]
                                            ELSE "UnInitialized"]}
  BY DEF Load, LoadAnew, Cleared
<1>6. QED
  BY <1>2, <1>4, <1>5 DEF Pool!Next, Pool!Fill, Pool!None

(* A callback decides the target it holds, or goes on holding it.          *)
LEMMA StepDecides ==
  ASSUME RInv, NEW t \in Threads, NEW o \in Physics, Step(t, o)
  PROVE  Pool!Next \/ UNCHANGED Pool!poolVars
<1> USE DEF queue
<1> DEFINE w == Stages(Before(t), o)
<1>1. Sound(Before(t), w)
  BY BeforeIsWork, StagesSound DEF RInv, IInv
<1>2. /\ state' = [state EXCEPT ![t] = w.state]
      /\ status' = IF target[t] = NoTarget THEN status
                   ELSE [status EXCEPT ![target[t]] = w.status]
      /\ UNCHANGED <<taskQueue, target>>
      /\ Before(t).state = state[t]
      /\ target[t] # NoTarget => Before(t).status = status[target[t]]
      /\ running[t] /\ pc[t] = "loop" /\ ~postStop[t]
  BY DEF Step, Before, Busy
<1> HIDE DEF w
<1>3. /\ state \in [Threads -> StepState] /\ status \in [Targets -> Status]
      /\ target \in [Threads -> Targets \cup {NoTarget}]
      /\ w.state \in StepState /\ w.status \in Status
  BY <1>1 DEF RInv, IInv, TypeOK, Sound, Work
<1>4. CASE ~Holding(t)
  <2>1. target[t] = NoTarget
    BY <1>2, <1>4 DEF RInv, StepInv
  <2>2. w.state = state[t]
    BY <1>1, <1>2, <1>4 DEF Sound, Holding
  <2>3. UNCHANGED <<status, taskQueue, state, target>>
    BY <1>2, <1>3, <2>1, <2>2
  <2>4. QED
    BY <2>3, PoolUnchanged
<1>5. CASE Holding(t)
  <2>1. target[t] \in Targets /\ target[t] # NoTarget
    BY <1>5 DEF RInv, IInv, ExclusiveGrasp, Targets, NoTarget
  <2>2. \A u \in Threads \ {t} : Holding(u)' <=> Holding(u)
    BY <1>2, <1>3 DEF Holding
  <2>3. \A u \in Threads : Holding(u) /\ target[u] = target[t] => u = t
    BY <1>5 DEF RInv, IInv, ExclusiveGrasp
  <2>4. status' = [status EXCEPT ![target[t]] = w.status] /\ Queued' = Queued
    BY <1>2, <2>1 DEF Queued
  <2>5. target[t] \in Held
    BY <1>5, HeldMembers
  <2>6. CASE w.state = "NEW_GRASP"
    <3>1. w.status \in Status \ {"UnInitialized"}
      BY <1>1, <1>2, <1>3, <1>5, <2>6 DEF Sound, Holding
    <3>2. ~Holding(t)'
      BY <1>2, <1>3, <2>6 DEF Holding
    <3>3. Held' = Held \ {target[t]}
      BY <1>2, <2>2, <2>3, <3>2 DEF Held
    <3>4. Pool!Decide(target[t], w.status)
      BY <2>4, <2>5, <3>3 DEF Pool!Decide
    <3>5. QED
      BY <2>1, <3>1, <3>4 DEF Pool!Next
  <2>7. CASE w.state # "NEW_GRASP"
    <3>1. w.status = status[target[t]]
      BY <1>1, <1>2, <2>1, <2>7 DEF Sound
    <3>2. status' = status
      BY <1>3, <2>1, <2>4, <3>1
    <3>3. \A u \in Threads : Holding(u)' <=> Holding(u)
      BY <1>2, <1>3, <1>5, <2>2, <2>7 DEF Holding
    <3>4. Held' = Held
      BY <1>2, <3>3 DEF Held
    <3>5. QED
      BY <2>4, <3>2, <3>4 DEF Pool!poolVars
  <2>8. QED
    BY <2>6, <2>7
<1>6. QED
  BY <1>4, <1>5

(* The NEW_GRASP branch skips, rejects or takes the target on top.         *)
LEMMA NewGraspTakes ==
  ASSUME RInv, NEW t \in Threads,
         \/ SkipTarget(t) \/ BeginGrasp(t)
         \/ \E s \in {"CollisionObjectInitially", "CollisionEnvironmentInitially"} :
              RejectTarget(t, s)
  PROVE  Pool!Next
<1> USE DEF results
<1>1. InNewGrasp(t) /\ GetNextTarget(t)
  BY DEF SkipTarget, BeginGrasp, RejectTarget
<1>2. state[t] = "NEW_GRASP" /\ ~Holding(t)
  BY <1>1 DEF InNewGrasp, Holding, RInv, IInv, PhaseInv
<1>3. /\ Top \in Targets
      /\ Queued' = Queued \ {Top}
      /\ Top \in Queued
  <2>1. taskQueue \in Seq(Targets) /\ taskQueue # <<>>
    BY <1>1 DEF GetNextTarget, RInv, IInv, TypeOK
  <2>2. Top \in Queued
    BY <2>1 DEF Top, Queued, Range
  <2>3. QED
    BY <1>1, <2>2, PopTop DEF GetNextTarget, RInv, IInv
<1>4. /\ target'[t] = Top
      /\ \A u \in Threads \ {t} : target'[u] = target[u]
  BY <1>1 DEF GetNextTarget, RInv, IInv, TypeOK
<1>5. AlreadyProcessed(Top) <=> ~Pool!Undecided(Top)
  BY DEF AlreadyProcessed, Pool!Undecided, Pool!None
<1>6. CASE state' = state
  <2>1. \A u \in Threads : Holding(u)' <=> Holding(u)
    BY <1>6 DEF Holding
  <2>2. \A u \in Threads : Holding(u) => u # t
    BY <1>2
  <2>3. Held' = Held
    BY <1>4, <2>1, <2>2 DEF Held
  <2>4. CASE SkipTarget(t)
    <3>1. Pool!Skip(Top)
      BY <1>3, <1>5, <2>3, <2>4 DEF SkipTarget, Pool!Skip
    <3>2. QED
      BY <1>3, <3>1 DEF Pool!Next
  <2>5. ASSUME NEW s \in {"CollisionObjectInitially", "CollisionEnvironmentInitially"},
               RejectTarget(t, s)
        PROVE  Pool!Next
    <3>1. Pool!Reject(Top, s)
      BY <1>3, <1>5, <2>3, <2>5 DEF RejectTarget, Pool!Reject
    <3>2. s \in Status \ {"UnInitialized"}
      BY DEF Status
    <3>3. QED
      BY <1>3, <3>1, <3>2 DEF Pool!Next
  <2>6. ~BeginGrasp(t)
    BY <1>2, <1>6 DEF BeginGrasp, RInv, IInv, TypeOK
  <2>7. QED
    BY <2>4, <2>5, <2>6
<1>7. CASE BeginGrasp(t)
  <2>1. Holding(t)' /\ \A u \in Threads \ {t} : Holding(u)' <=> Holding(u)
    BY <1>7 DEF BeginGrasp, Holding, RInv, IInv, TypeOK
  <2>2. Held' = Held \cup {Top}
    BY <1>2, <1>4, <2>1 DEF Held
  <2>3. Pool!Take(Top)
    BY <1>3, <1>5, <1>7, <2>2 DEF BeginGrasp, Pool!Take
  <2>4. QED
    BY <1>3, <2>3 DEF Pool!Next
<1>8. QED
  BY <1>6, <1>7 DEF SkipTarget, RejectTarget

(* The rest: nothing the pool sees changes.                                *)
LEMMA NextIsPool ==
  ASSUME RInv, [Next]_vars
  PROVE  [Pool!Next]_(Pool!poolVars)
<1> USE DEF results, queue, grasp
<1>1. ASSUME NEW n \in LoadSizes, LoadAnew(n) \/ \E clear \in BOOLEAN : Load(n, clear)
      PROVE  Pool!Next
  BY <1>1, LoadFills
<1>2. CASE Start
  <2>1. \A t \in Threads : ~Holding(t)
    BY <1>2 DEF Start, CallerIn, RInv, IInv, ControlInv
  <2>2. \A t \in Threads : ~Holding(t)'
    BY <1>2, FreshTyped DEF Start, Holding
  <2>3. Held = {} /\ Held' = {} /\ UNCHANGED <<status, taskQueue>>
    BY <1>2, <2>1, <2>2 DEF Held, Start
  <2>4. QED
    BY <2>3 DEF Pool!poolVars, Queued
<1>3. CASE \/ StartEmpty \/ AwaitEnd \/ Pause \/ Resume
           \/ \E t \in Threads :
                StartThread(t) \/ StopThread(t) \/ JoinThread(t) \/ ResumeThread(t)
  BY <1>3, PoolUnchanged DEF StartEmpty, AwaitEnd, Pause, Resume, StartThread, StopThread,
     JoinThread, ResumeThread
<1>4. ASSUME NEW t \in Threads, Thread(t)
      PROVE  Pool!Next \/ UNCHANGED Pool!poolVars
  <2>1. CASE \E o \in Physics : Step(t, o)
    BY <2>1, StepDecides
  <2>2. CASE \/ SkipTarget(t) \/ BeginGrasp(t)
             \/ \E s \in {"CollisionObjectInitially", "CollisionEnvironmentInitially"} :
                  RejectTarget(t, s)
    BY <2>2, NewGraspTakes
  <2>3. CASE \/ StepIgnored(t) \/ \E o \in Physics : StepFaults(t, o)
             \/ TallyLoad(t) \/ TallyStore(t) \/ OutOfTargets(t) \/ ThreadExit(t)
    BY <2>3, PoolUnchanged DEF StepIgnored, StepFaults, TallyLoad, TallyStore,
       OutOfTargets, ThreadExit
  <2>4. QED
    BY <1>4, <2>1, <2>2, <2>3 DEF Thread
<1>5. CASE UNCHANGED vars
  BY <1>5, PoolUnchanged DEF vars
<1>6. QED
  BY <1>1, <1>2, <1>3, <1>4, <1>5 DEF Next, CallerWorks

LEMMA InitIsPool == Init => Pool!Init
<1> SUFFICES ASSUME Init PROVE Pool!Init
  OBVIOUS
<1>1. status \in [Targets -> Status]
  BY InitIInv DEF IInv, TypeOK
<1>2. status \in [Targets -> (Status \ {"UnInitialized"}) \cup {"UnInitialized"}]
  BY <1>1 DEF Status
<1>3. Queued = {} /\ Held = {}
  BY DEF Init, Queued, Held, Holding, Range
<1>4. QED
  BY <1>2, <1>3 DEF Pool!Init, Pool!None

(* Whatever the threads, the locks, the physics and the stops: the results *)
(* of a session are those of a pool whose targets are each taken once.     *)
THEOREM SimulatorImplementsPool == ~AllowResume => (Safety => ImplementsPool)
<1> SUFFICES ASSUME ~AllowResume PROVE Safety => ImplementsPool
  OBVIOUS
<1>1. Safety => []RInv
  BY ReachableRInv
<1>2. RInv /\ [Next]_vars => [Pool!Next]_(Pool!poolVars)
  BY NextIsPool
<1>3. QED
  BY <1>1, <1>2, InitIsPool, PTL DEF Safety, ImplementsPool, Pool!Spec
-----------------------------------------------------------------------------
(***************************************************************************)
(* When decided targets are not simulated again, what a thread holds has   *)
(* no result yet, so whatever a callback writes is a first result.         *)
(***************************************************************************)
HeldUndecided == \A t \in Threads : Holding(t) => status[target[t]] = "UnInitialized"

LEMMA StepOnHeld ==
  ASSUME RInv, HeldUndecided, NEW t \in Threads, NEW o \in Physics, Step(t, o)
  PROVE  /\ HeldUndecided'
         /\ \A g \in Targets : status[g] # "UnInitialized" => status'[g] = status[g]
<1> USE DEF queue
<1> DEFINE w == Stages(Before(t), o)
<1>1. Sound(Before(t), w)
  BY BeforeIsWork, StagesSound DEF RInv, IInv
<1>2. /\ state' = [state EXCEPT ![t] = w.state]
      /\ status' = IF target[t] = NoTarget THEN status
                   ELSE [status EXCEPT ![target[t]] = w.status]
      /\ target' = target
      /\ Before(t).state = state[t]
      /\ target[t] # NoTarget => Before(t).status = status[target[t]]
      /\ running[t] /\ pc[t] = "loop" /\ ~postStop[t]
  BY DEF Step, Before, Busy
<1> HIDE DEF w
<1>3. /\ state \in [Threads -> StepState] /\ status \in [Targets -> Status]
      /\ target \in [Threads -> Targets \cup {NoTarget}]
      /\ w.state \in StepState
  BY <1>1 DEF RInv, IInv, TypeOK, Sound, Work
<1>4. \A u \in Threads : Holding(u)' => Holding(u)
  BY <1>1, <1>2, <1>3 DEF Sound, Holding
<1>5. \A u \in Threads : Holding(u) => target[u] \in Targets
  BY DEF RInv, IInv, ExclusiveGrasp
<1>6. \A u \in Threads : Holding(u) /\ Holding(t) /\ target[u] = target[t] => u = t
  BY DEF RInv, IInv, ExclusiveGrasp
<1>7. CASE target[t] = NoTarget
  BY <1>2, <1>4, <1>7 DEF HeldUndecided
<1>8. CASE target[t] # NoTarget
  <2>1. Holding(t) /\ target[t] \in Targets /\ status[target[t]] = "UnInitialized"
    BY <1>2, <1>3, <1>8 DEF RInv, StepInv, HeldUndecided
  <2>2. \A g \in Targets : g # target[t] => status'[g] = status[g]
    BY <1>2, <1>3, <1>8
  <2>3. \A g \in Targets : status[g] # "UnInitialized" => status'[g] = status[g]
    BY <2>1, <2>2
  <2>4. Holding(t)' => status'[target[t]] = "UnInitialized"
    BY <1>1, <1>2, <1>3, <1>8, <2>1 DEF Sound, Holding
  <2>5. \A u \in Threads \ {t} : Holding(u)' => status'[target[u]] = "UnInitialized"
    BY <1>4, <1>5, <1>6, <2>1, <2>2 DEF HeldUndecided
  <2>6. QED
    BY <1>2, <2>3, <2>4, <2>5 DEF HeldUndecided
<1>9. QED
  BY <1>7, <1>8

(* Check by check: only the grasp that a thread holds is decided.          *)
LEMMA StepWrites ==
  ASSUME RInv, HeldUndecided, NEW t \in Threads, NEW o \in Physics, Step(t, o),
         pc'[t] = "load"
  PROVE  /\ status[target[t]] = "UnInitialized"
         /\ \/ Len(todo'[t]) = 1
            \/ Len(todo'[t]) = 2 /\ todo'[t][2] = "CollisionDuringExecution"
<1> DEFINE b == Before(t)
           w == Stages(b, o)
<1>1. b \in Work /\ b.stats = <<>> /\ b.state = state[t] /\ b.time = Tick(time[t])
  BY BeforeIsWork DEF RInv, IInv, Before
<1>2. Few(w, 2)
  BY <1>1, StagesFew
<1>3. /\ todo' = [todo EXCEPT ![t] = w.stats]
      /\ target[t] = NoTarget => ~o.col /\ ~(o.wall /\ Tick(time[t]) > SimTimeLimit)
      /\ running[t] /\ pc[t] = "loop" /\ ~postStop[t]
      /\ pc' = [pc EXCEPT ![t] = IF w.stats # <<>> THEN "load" ELSE AfterTally(w.state)]
  BY DEF Step, Busy
<1>4. w.stats # <<>> /\ todo'[t] = w.stats
  BY <1>3 DEF RInv, IInv, TypeOK, AfterTally
<1>5. target[t] # NoTarget
  <2> SUFFICES ASSUME target[t] = NoTarget PROVE FALSE
    OBVIOUS
  <2>1. ~Holding(t)
    BY DEF RInv, IInv, ExclusiveGrasp, Targets, NoTarget
  <2>2. ~LimitsExceeded(b, o) /\ b.state = "NEW_GRASP" /\ ~o.col
    BY <1>1, <1>3, <2>1 DEF LimitsExceeded, Holding
  <2> HIDE DEF b
  <2>3. w = b
    BY <2>2, StagesIdle
  <2>4. QED
    BY <1>1, <1>4, <2>3
<1>6. status[target[t]] = "UnInitialized"
  BY <1>3, <1>5 DEF RInv, StepInv, HeldUndecided
<1>7. Len(w.stats) \in Nat /\ Len(w.stats) # 0
  <2>1. w.stats \in Seq(Status)
    BY <1>1, StagesSound DEF Sound, Work
  <2>2. QED
    BY <1>4, <2>1
<1>8. Len(w.stats) <= 2 /\ (Len(w.stats) > 1 => w.stats[2] = "CollisionDuringExecution")
  BY <1>2 DEF Few
<1> DEFINE q == w.stats
<1>9. q = todo'[t]
  BY <1>4
<1> HIDE DEF w, q, b
<1>10. Len(q) = 1 \/ (Len(q) = 2 /\ q[2] = "CollisionDuringExecution")
  <2>1. \A k \in Nat : k # 0 /\ k <= 2 => k = 1 \/ (k = 2 /\ k > 1)
    OBVIOUS
  <2>2. QED
    BY <1>7, <1>8, <2>1, Zenon DEF q
<1>11. QED
  BY <1>6, <1>9, <1>10

(* A thread comes to owe counts in a callback by Step alone.               *)
LEMMA CallbackWrites ==
  ASSUME RInv, HeldUndecided, [Next]_vars, NEW t \in Threads,
         pc[t] = "loop", pc'[t] = "load"
  PROVE  /\ status[target[t]] = "UnInitialized"
         /\ \/ Len(todo'[t]) = 1
            \/ Len(todo'[t]) = 2 /\ todo'[t][2] = "CollisionDuringExecution"
<1> USE DEF threads
<1>1. pc \in [Threads -> {"loop", "load", "store", "next"}]
  BY DEF RInv, IInv, TypeOK
<1>2. CASE UNCHANGED pc
  BY <1>2
<1>3. CASE \E u \in Threads : Thread(u)
  <2>1. PICK u \in Threads : Thread(u)
    BY <1>3
  <2>2. ASSUME NEW o \in Physics, Step(u, o) PROVE u = t
    BY <1>1, <2>2 DEF Step
  <2>3. CASE \E o \in Physics : Step(u, o)
    BY <2>2, <2>3, StepWrites
  <2>4. CASE \/ StepIgnored(u) \/ ThreadExit(u) \/ \E o \in Physics : StepFaults(u, o)
    BY <2>4 DEF StepIgnored, StepFaults, ThreadExit
  <2>5. CASE TallyLoad(u) \/ TallyStore(u) \/ OutOfTargets(u)
    BY <1>1, <2>5 DEF TallyLoad, TallyStore, OutOfTargets, InNewGrasp
  <2>6. CASE \/ SkipTarget(u) \/ BeginGrasp(u)
             \/ \E s \in {"CollisionObjectInitially", "CollisionEnvironmentInitially"} :
                  RejectTarget(u, s)
    BY <1>1, <2>6 DEF SkipTarget, BeginGrasp, RejectTarget, InNewGrasp, Tallies
  <2>7. QED
    BY <2>1, <2>3, <2>4, <2>5, <2>6 DEF Thread
<1>4. QED
  BY <1>2, <1>3 DEF Next, CallerWorks, Load, LoadAnew, StartEmpty, Start, StartThread, Pause,
     StopThread, JoinThread, Resume, ResumeThread, AwaitEnd, Run, vars

LEMMA NewGraspOnHeld ==
  ASSUME ~ForceSimulateAll, RInv, HeldUndecided, NEW t \in Threads,
         \/ SkipTarget(t) \/ BeginGrasp(t)
         \/ \E s \in {"CollisionObjectInitially", "CollisionEnvironmentInitially"} :
              RejectTarget(t, s)
  PROVE  /\ HeldUndecided'
         /\ \A g \in Targets : status[g] # "UnInitialized" => status'[g] = status[g]
<1> USE DEF results
<1>1. InNewGrasp(t) /\ GetNextTarget(t)
  BY DEF SkipTarget, BeginGrasp, RejectTarget
<1>2. ~Holding(t)
  BY <1>1 DEF InNewGrasp, Holding, RInv, IInv, PhaseInv
<1>3. Top \in Targets /\ Top \in Queued
  <2>1. taskQueue \in Seq(Targets) /\ taskQueue # <<>>
    BY <1>1 DEF GetNextTarget, RInv, IInv, TypeOK
  <2>2. QED
    BY <2>1, TailTyped DEF Top, Queued, Range
<1>4. /\ target'[t] = Top
      /\ \A u \in Threads \ {t} : target'[u] = target[u]
      /\ \A u \in Threads \ {t} : Holding(u)' => Holding(u)
  BY <1>1 DEF GetNextTarget, SkipTarget, BeginGrasp, RejectTarget, Holding, RInv, IInv, TypeOK
<1>5. \A u \in Threads : Holding(u) => target[u] \in Targets /\ target[u] # Top
  BY <1>3 DEF RInv, IInv, ExclusiveGrasp
<1>6. \A g \in Targets : g # Top => status'[g] = status[g]
  BY DEF SkipTarget, BeginGrasp, RejectTarget, RInv, IInv, TypeOK
<1>7. status[Top] # "UnInitialized" => status'[Top] = status[Top]
  BY DEF SkipTarget, BeginGrasp, RejectTarget, AlreadyProcessed
<1>8. Holding(t)' => status'[Top] = "UnInitialized"
  BY <1>2 DEF SkipTarget, BeginGrasp, RejectTarget, AlreadyProcessed, Holding
<1>9. HeldUndecided'
  BY <1>4, <1>5, <1>6, <1>8 DEF HeldUndecided
<1>10. QED
  BY <1>6, <1>7, <1>9

LEMMA HeldUndecidedKept ==
  ASSUME ~ForceSimulateAll, RInv, HeldUndecided, [Next]_vars
  PROVE  /\ HeldUndecided'
         /\ loads' = loads =>
              \A g \in Targets : status[g] # "UnInitialized" => status'[g] = status[g]
<1> USE DEF results, queue, grasp, threads, control
<1>1. ASSUME NEW n \in LoadSizes, LoadAnew(n) \/ \E clear \in BOOLEAN : Load(n, clear)
      PROVE  HeldUndecided' /\ loads' # loads
  <2>1. \A t \in Threads : state'[t] = "NEW_GRASP"
    BY <1>1, FreshTyped DEF Load, LoadAnew, LoadsTasks, CallerIn, Holding, RInv, IInv, ControlInv
  <2>2. loads' = loads + 1 /\ loads \in Nat
    BY <1>1 DEF Load, LoadAnew, LoadsTasks, RInv, IInv, TypeOK
  <2>3. QED
    BY <2>1, <2>2 DEF HeldUndecided, Holding
<1>2. CASE Start
  BY <1>2, FreshTyped DEF Start, HeldUndecided, Holding
<1>3. CASE UNCHANGED <<status, state, target>>
  BY <1>3 DEF HeldUndecided, Holding
<1>4. ASSUME NEW t \in Threads, Thread(t)
      PROVE  \/ UNCHANGED <<status, state, target>>
             \/ HeldUndecided' /\ \A g \in Targets :
                   status[g] # "UnInitialized" => status'[g] = status[g]
  <2>1. CASE \E o \in Physics : Step(t, o)
    BY <2>1, StepOnHeld
  <2>2. CASE \/ SkipTarget(t) \/ BeginGrasp(t)
             \/ \E s \in {"CollisionObjectInitially", "CollisionEnvironmentInitially"} :
                  RejectTarget(t, s)
    BY <2>2, NewGraspOnHeld
  <2>3. CASE \/ StepIgnored(t) \/ \E o \in Physics : StepFaults(t, o)
             \/ TallyLoad(t) \/ TallyStore(t) \/ OutOfTargets(t) \/ ThreadExit(t)
    BY <2>3 DEF StepIgnored, StepFaults, TallyLoad, TallyStore, OutOfTargets, ThreadExit
  <2>4. QED
    BY <1>4, <2>1, <2>2, <2>3 DEF Thread
<1>5. CASE \/ StartEmpty \/ AwaitEnd \/ Pause \/ Resume
           \/ \E t \in Threads :
                StartThread(t) \/ StopThread(t) \/ JoinThread(t) \/ ResumeThread(t)
  BY <1>3, <1>5 DEF StartEmpty, AwaitEnd, Pause, Resume, StartThread, StopThread,
     JoinThread, ResumeThread
<1>6. CASE UNCHANGED vars
  BY <1>3, <1>6 DEF vars
<1>7. QED
  BY <1>1, <1>2, <1>3, <1>4, <1>5, <1>6 DEF Next, CallerWorks

(* A result is decided by one callback: not by two threads, not again by   *)
(* the thread that did or after a stop, as long as nothing forces it.  The *)
(* checks of that callback write it once, unless a collision overrules.    *)
THEOREM ResultsAreFinal ==
  ~AllowResume /\ ~ForceSimulateAll => (Safety => DecidedIsFinal)
<1> SUFFICES ASSUME ~AllowResume, ~ForceSimulateAll PROVE Safety => DecidedIsFinal
  OBVIOUS
<1>1. Safety => []RInv
  BY ReachableRInv
<1>2. Init => HeldUndecided
  BY DEF Init, HeldUndecided, Holding
<1>3. RInv /\ HeldUndecided /\ [Next]_vars => HeldUndecided'
  BY HeldUndecidedKept
<1>4. RInv /\ HeldUndecided /\ [Next]_vars
        => [/\ loads' = loads => \A g \in Targets :
                  status[g] # "UnInitialized" => status'[g] = status[g]
            /\ \A t \in Threads : pc[t] = "loop" /\ pc'[t] = "load" =>
                  /\ status[target[t]] = "UnInitialized"
                  /\ \/ Len(todo'[t]) = 1
                     \/ Len(todo'[t]) = 2 /\ todo'[t][2] = "CollisionDuringExecution"]_vars
  BY HeldUndecidedKept, CallbackWrites
<1>5. QED
  BY <1>1, <1>2, <1>3, <1>4, PTL DEF Safety, DecidedIsFinal
=============================================================================
