-------------------------- MODULE GraspCountProofs --------------------------
(***************************************************************************)
(* The counters, for every number of threads.  A pop or a verdict and its  *)
(* count are two steps, the increment itself is a load and a store that    *)
(* another thread may come between.  The argument keeps the debtors: the   *)
(* threads that still owe a counter its count.  What is counted, and what  *)
(* a debtor has loaded, leaves room for all the debtors; a thread that is  *)
(* alone uses all the room.                                                *)
(***************************************************************************)
EXTENDS GraspPoolRefinement, FiniteSetTheorems

OneThread == Threads = {1}

Has(q, c) == \E i \in 1 .. Len(q) : q[i] = c

Once(q, c) == \A i, j \in 1 .. Len(q) : q[i] = c /\ q[j] = c => i = j

Debtors(c) == {t \in Threads : Has(todo[t], c)}

\* Thread t has loaded counter c and not stored it yet.
Storing(t, c) == pc[t] = "store" /\ Head(todo[t]) = c

\* Counter c may count up to n: there is room for its debtors.
Balance(c, n) ==
  /\ tally[c] + Cardinality(Debtors(c)) <= n
  /\ \A t \in Threads : Storing(t, c) => loaded[t] + Cardinality(Debtors(c)) <= n
  /\ OneThread =>
       /\ tally[c] + Cardinality(Debtors(c)) = n
       /\ \A t \in Threads : Storing(t, c) => loaded[t] = tally[c]

\* Between startSimulation and the next load, for a task that is not empty.
InSession == total # 0 /\ caller.op # "loaded"

Popped == total - Len(taskQueue)

\* Nothing is owed between callbacks, and the count of a target only once.
DebtInv ==
  \A t \in Threads :
    /\ ~running[t] => pc[t] = "loop"
    /\ pc[t] \in {"loop", "next"} => todo[t] = <<>>
    /\ Once(todo[t], NrOfExperiments)

\* A loaded task is in the queue; a task that is empty is never run.
LoadedInv ==
  /\ caller.op = "loaded" => Len(taskQueue) = total /\ LoadedTargets \subseteq Queued
  /\ caller.op # "loaded" /\ total = 0 =>
       /\ caller.op \in {"idle", "watching", "done"}
       /\ tally[NrOfExperiments] = 0
       /\ \A t \in Threads : ~running[t]

CountInv ==
  /\ DebtInv
  /\ LoadedInv
  /\ InSession => Balance(NrOfExperiments, Popped)
-----------------------------------------------------------------------------
(* Counters, debtors and balances.                                         *)

(* The head of a sequence is gone from its tail, the rest is still there.  *)
LEMMA TailHas ==
  ASSUME NEW S, NEW q \in Seq(S), q # <<>>, NEW c
  PROVE  /\ Once(q, c) => Once(Tail(q), c)
         /\ Once(q, c) => (Has(Tail(q), c) <=> Has(q, c) /\ Head(q) # c)
         /\ Has(Tail(q), c) => Has(q, c)
         /\ Head(q) = c => Has(q, c)
<1> DEFINE r == Tail(q)
<1>1. /\ Len(q) \in Nat \ {0} /\ Head(q) = q[1] /\ Len(r) = Len(q) - 1
      /\ \A i \in 1 .. Len(q) - 1 : r[i] = q[i + 1]
  OBVIOUS
<1> HIDE DEF r
<1>2. ASSUME NEW i \in 1 .. Len(r)
      PROVE  i + 1 \in 1 .. Len(q) /\ i + 1 # 1 /\ r[i] = q[i + 1]
  BY <1>1
<1>3. ASSUME NEW i \in 1 .. Len(q), i # 1
      PROVE  i - 1 \in 1 .. Len(r) /\ r[i - 1] = q[i]
  <2>1. i - 1 \in 1 .. Len(q) - 1 /\ (i - 1) + 1 = i
    BY <1>1, <1>3
  <2>2. r[i - 1] = q[(i - 1) + 1]
    BY <1>1, <2>1
  <2>3. QED
    BY <1>1, <2>1, <2>2
<1>4. 1 \in 1 .. Len(q)
  BY <1>1
<1>5. ASSUME Once(q, c) PROVE Once(r, c)
  <2> SUFFICES ASSUME NEW i \in 1 .. Len(r), NEW j \in 1 .. Len(r), r[i] = c, r[j] = c
               PROVE  i = j
    BY DEF Once
  <2>1. i + 1 = j + 1
    BY <1>2, <1>5 DEF Once
  <2>2. QED
    BY <2>1
<1>6. Has(r, c) => Has(q, c)
  BY <1>2 DEF Has
<1>7. Head(q) = c => Has(q, c)
  BY <1>1, <1>4 DEF Has
<1>8. Has(q, c) /\ Head(q) # c => Has(r, c)
  BY <1>1, <1>3 DEF Has
<1>9. Once(q, c) /\ Has(r, c) => Head(q) # c
  BY <1>1, <1>2, <1>4 DEF Has, Once
<1>10. QED
  BY <1>5, <1>6, <1>7, <1>8, <1>9 DEF r

LEMMA AppendHas ==
  ASSUME NEW S, NEW q \in Seq(S), NEW e \in S, NEW c
  PROVE  /\ Has(Append(q, e), c) <=> Has(q, c) \/ e = c
         /\ Once(q, c) /\ ~(Has(q, c) /\ e = c) => Once(Append(q, e), c)
<1> DEFINE r == Append(q, e)
<1>1. /\ Len(q) \in Nat /\ Len(r) = Len(q) + 1 /\ r[Len(q) + 1] = e
      /\ \A i \in 1 .. Len(q) : r[i] = q[i]
  OBVIOUS
<1> HIDE DEF r
<1>2. 1 .. Len(r) = 1 .. Len(q) \cup {Len(q) + 1} /\ Len(q) + 1 \notin 1 .. Len(q)
  BY <1>1
<1>3. Has(r, c) <=> Has(q, c) \/ e = c
  BY <1>1, <1>2 DEF Has
<1>4. Once(q, c) /\ ~(Has(q, c) /\ e = c) => Once(r, c)
  BY <1>1, <1>2 DEF Has, Once
<1>5. QED
  BY <1>3, <1>4 DEF r

(* What a pop owes: perhaps a status, and the target.                      *)
LEMMA PopHas ==
  ASSUME NEW n, NEW c
  PROVE  /\ Has(Append(<<>>, n), c) <=> c = n
         /\ Once(Append(<<>>, n), c)
         /\ \A s : s # n => /\ Has(Append(<<s>>, n), c) <=> c \in {s, n}
                           /\ Once(Append(<<s>>, n), c)
<1>1. Once(<<>>, c) /\ ~Has(<<>>, c)
  BY DEF Once, Has
<1>2. /\ Has(Append(<<>>, n), c) <=> c = n
      /\ Once(Append(<<>>, n), c)
  <2>1. <<>> \in Seq({n})
    OBVIOUS
  <2>2. QED
    BY <1>1, <2>1, AppendHas
<1>3. ASSUME NEW s, s # n
      PROVE  /\ Has(Append(<<s>>, n), c) <=> c \in {s, n}
             /\ Once(Append(<<s>>, n), c)
  <2> DEFINE q == <<s>>
  <2>1. q \in Seq({s, n}) /\ Len(q) = 1 /\ q[1] = s
    OBVIOUS
  <2> HIDE DEF q
  <2>2. 1 .. Len(q) = {1}
    BY <2>1
  <2>3. (Has(q, c) <=> c = s) /\ Once(q, c)
    BY <2>1, <2>2 DEF Has, Once
  <2>4. /\ Has(Append(q, n), c) <=> c \in {s, n}
        /\ Once(Append(q, n), c)
    BY <1>3, <2>1, <2>3, AppendHas
  <2>5. QED
    BY <2>4 DEF q
<1>4. QED
  BY <1>2, <1>3

(* A finite number of threads owes a count.                                *)
LEMMA DebtorsAreFinite ==
  ASSUME NEW c
  PROVE  /\ IsFiniteSet(Debtors(c)) /\ Cardinality(Debtors(c)) \in Nat
         /\ IsFiniteSet(Debtors(c)') /\ Cardinality(Debtors(c)') \in Nat
<1>1. \E n \in Nat : Threads = 1 .. n
  BY ConstantsAssumption DEF Threads
<1>2. IsFiniteSet(Threads)
  BY <1>1, FS_Interval
<1>3. Debtors(c) \subseteq Threads /\ Debtors(c)' \subseteq Threads
  BY DEF Debtors
<1>4. QED
  BY <1>2, <1>3, FS_Subset, FS_CardinalityType

LEMMA CountTyped ==
  ASSUME IInv
  PROVE  /\ \A c \in Counters : tally[c] \in Nat
         /\ NrOfExperiments \in Counters /\ Status \subseteq Counters
         /\ \A t \in Threads : loaded[t] \in Nat /\ todo[t] \in Seq(Counters)
         /\ Len(taskQueue) \in Nat /\ total \in Nat /\ Popped \in Int
<1>1. NrOfExperiments \in Counters /\ Status \subseteq Counters
  BY DEF Counters
<1>2. taskQueue \in Seq(Targets) /\ total \in Nat
  BY ConstantsAssumption DEF IInv, TypeOK
<1>3. Len(taskQueue) \in Nat
  BY <1>2
<1>4. Popped \in Int
  BY <1>2, <1>3 DEF Popped
<1>5. QED
  BY <1>1, <1>2, <1>3, <1>4 DEF IInv, TypeOK

(* No status has the name of the counter.                                  *)
LEMMA StatusIsNoCount == NrOfExperiments \notin Status
BY DEF Status, NrOfExperiments

(* Nobody owes a counter that has just been set back.                      *)
LEMMA ZeroBalance ==
  ASSUME NEW c, tally'[c] = 0, \A t \in Threads : todo'[t] = <<>> /\ pc'[t] = "loop"
  PROVE  Balance(c, 0)'
<1>1. Debtors(c)' = {}
  BY DEF Debtors, Has
<1>2. Cardinality(Debtors(c)') = 0
  BY <1>1, FS_EmptySet
<1>3. QED
  BY <1>2 DEF Balance, Storing

(* A step that leaves the counters and what is owed alone.                 *)
LEMMA SameBalance ==
  ASSUME NEW c, NEW n, Balance(c, n), UNCHANGED <<tally, todo, loaded>>,
         \A t \in Threads : pc'[t] = "store" => pc[t] = "store"
  PROVE  Balance(c, n)'
<1>1. Debtors(c)' = Debtors(c)
  BY DEF Debtors
<1>2. QED
  BY <1>1 DEF Balance, Storing

(* A thread begins to owe other counters.                                  *)
LEMMA OtherBalance ==
  ASSUME NEW c, NEW n, NEW t \in Threads, Balance(c, n), UNCHANGED <<tally, loaded>>,
         ~Has(todo[t], c), ~Has(todo'[t], c), pc'[t] # "store",
         \A u \in Threads \ {t} : todo'[u] = todo[u] /\ pc'[u] = pc[u]
  PROVE  Balance(c, n)'
<1>1. Debtors(c)' = Debtors(c)
  BY DEF Debtors
<1>2. \A u \in Threads : Storing(u, c)' => Storing(u, c)
  BY DEF Storing
<1>3. QED
  BY <1>1, <1>2 DEF Balance

(* A thread becomes a debtor while there is room for one more.             *)
LEMMA OwingBalance ==
  ASSUME IInv, NEW c \in Counters, NEW n \in Int, NEW t \in Threads, Balance(c, n),
         UNCHANGED <<tally, loaded>>,
         ~Has(todo[t], c), Has(todo'[t], c), pc'[t] # "store",
         \A u \in Threads \ {t} : todo'[u] = todo[u] /\ pc'[u] = pc[u]
  PROVE  Balance(c, n + 1)'
<1>1. Debtors(c)' = Debtors(c) \cup {t} /\ t \notin Debtors(c)
  BY DEF Debtors
<1>2. /\ Cardinality(Debtors(c)') = Cardinality(Debtors(c)) + 1
      /\ Cardinality(Debtors(c)) \in Nat
  BY <1>1, DebtorsAreFinite, FS_AddElement
<1>3. \A u \in Threads : Storing(u, c)' => Storing(u, c)
  BY DEF Storing
<1>4. tally[c] \in Nat /\ \A u \in Threads : loaded[u] \in Nat
  BY CountTyped
<1>5. QED
  BY <1>2, <1>3, <1>4 DEF Balance

(* The load of an increment reads a count that leaves room for all debtors.*)
LEMMA LoadingBalance ==
  ASSUME IInv, NEW c \in Counters, NEW n, NEW t \in Threads, Balance(c, n), TallyLoad(t)
  PROVE  Balance(c, n)'
<1>1. /\ loaded' = [loaded EXCEPT ![t] = tally[Head(todo[t])]]
      /\ pc' = [pc EXCEPT ![t] = "store"]
      /\ UNCHANGED <<tally, todo>>
  BY DEF TallyLoad
<1>2. /\ pc \in [Threads -> {"loop", "load", "store", "next"}]
      /\ loaded \in [Threads -> Nat]
  BY DEF IInv, TypeOK
<1>3. \A u \in Threads :
        /\ u # t => loaded'[u] = loaded[u] /\ pc'[u] = pc[u]
        /\ u = t => loaded'[u] = tally[Head(todo[u])]
  BY <1>1, <1>2
<1>4. Debtors(c)' = Debtors(c)
  BY <1>1 DEF Debtors
<1>5. \A u \in Threads : Storing(u, c)' => (Storing(u, c) /\ u # t) \/ loaded'[u] = tally[c]
  BY <1>1, <1>3 DEF Storing
<1>6. QED
  BY <1>1, <1>3, <1>4, <1>5 DEF Balance

\* What a store does to the counters and to its thread.
LEMMA StoreEffect ==
  ASSUME IInv, NEW t \in Threads, TallyStore(t)
  PROVE  /\ todo[t] \in Seq(Counters) /\ todo[t] # <<>>
         /\ Head(todo[t]) \in Counters
         /\ tally' = [tally EXCEPT ![Head(todo[t])] = loaded[t] + 1]
         /\ todo'[t] = Tail(todo[t])
         /\ pc[t] = "store" /\ pc'[t] # "store"
         /\ pc'[t] \in {"loop", "next"} => todo'[t] = <<>>
         /\ \A u \in Threads \ {t} :
              todo'[u] = todo[u] /\ pc'[u] = pc[u] /\ loaded'[u] = loaded[u]
<1> DEFINE q == todo[t]
<1>1. /\ tally' = [tally EXCEPT ![Head(q)] = loaded[t] + 1]
      /\ todo' = [todo EXCEPT ![t] = Tail(q)]
      /\ loaded' = [loaded EXCEPT ![t] = 0]
      /\ pc' = [pc EXCEPT ![t] = IF Len(q) > 1 THEN "load" ELSE AfterTally(state[t])]
      /\ pc[t] = "store"
  BY DEF TallyStore
<1>2. /\ pc \in [Threads -> {"loop", "load", "store", "next"}]
      /\ loaded \in [Threads -> Nat]
      /\ todo \in [Threads -> Seq(Counters)]
  BY DEF IInv, TypeOK
<1>3. q \in Seq(Counters) /\ q # <<>>
  BY <1>1, <1>2 DEF IInv, PhaseInv
<1> HIDE DEF q
<1>4. Head(q) \in Counters /\ (~(Len(q) > 1) => Tail(q) = <<>>)
  <2>1. Len(q) \in Nat \ {0} /\ Len(Tail(q)) = Len(q) - 1 /\ Tail(q) \in Seq(Counters)
    BY <1>3
  <2>2. QED
    BY <1>3, <2>1
<1>5. /\ todo'[t] = Tail(q)
      /\ pc'[t] = IF Len(q) > 1 THEN "load" ELSE AfterTally(state[t])
      /\ \A u \in Threads \ {t} :
           todo'[u] = todo[u] /\ pc'[u] = pc[u] /\ loaded'[u] = loaded[u]
  BY <1>1, <1>2
<1>6. pc'[t] # "store" /\ (pc'[t] \in {"loop", "next"} => ~(Len(q) > 1))
  BY <1>5 DEF AfterTally
<1>7. QED
  BY <1>1, <1>3, <1>4, <1>5, <1>6 DEF q

(* The store writes a value that left room for its debtor, who owes        *)
(* nothing afterwards, or it is of another counter.                        *)
LEMMA StoringBalance ==
  ASSUME IInv, NEW c \in Counters, NEW n \in Int, NEW t \in Threads, Balance(c, n),
         TallyStore(t), Once(todo[t], c)
  PROVE  Balance(c, n)'
<1>1. /\ Once(todo[t], c) => (Has(Tail(todo[t]), c) <=> Has(todo[t], c) /\ Head(todo[t]) # c)
      /\ Head(todo[t]) = c => Has(todo[t], c)
  BY StoreEffect, TailHas
<1>2. /\ Cardinality(Debtors(c)) \in Nat
      /\ tally \in [Counters -> Nat]
      /\ \A u \in Threads : loaded[u] \in Nat
  BY DebtorsAreFinite, CountTyped DEF IInv, TypeOK
<1>3. \A u \in Threads : Storing(u, c)' => Storing(u, c) /\ u # t /\ loaded'[u] = loaded[u]
  BY StoreEffect DEF Storing
<1>4. OneThread => \A u \in Threads : u = t
  BY DEF OneThread
<1>5. CASE Head(todo[t]) = c
  <2>1. Debtors(c)' = Debtors(c) \ {t} /\ t \in Debtors(c)
    BY <1>1, <1>5, StoreEffect DEF Debtors
  <2>2. Cardinality(Debtors(c)') = Cardinality(Debtors(c)) - 1
    BY <2>1, DebtorsAreFinite, FS_RemoveElement
  <2>3. tally'[c] = loaded[t] + 1 /\ Storing(t, c)
    BY <1>2, <1>5, StoreEffect DEF Storing
  <2>4. QED
    BY <1>2, <1>3, <1>4, <2>2, <2>3 DEF Balance
<1>6. CASE Head(todo[t]) # c
  <2>1. \A u \in Threads : Has(todo'[u], c) <=> Has(todo[u], c)
    BY <1>1, <1>6, StoreEffect
  <2>2. Debtors(c)' = Debtors(c)
    BY <2>1 DEF Debtors
  <2>3. tally'[c] = tally[c]
    BY <1>2, <1>6, StoreEffect
  <2>4. QED
    BY <1>3, <2>2, <2>3 DEF Balance
<1>7. QED
  BY <1>5, <1>6
-----------------------------------------------------------------------------
(* The count of the targets: every step of the simulator keeps CountInv.   *)

LEMMA InitCountInv == Init => CountInv
<1> SUFFICES ASSUME Init PROVE CountInv
  OBVIOUS
<1>1. DebtInv
  BY DEF Init, DebtInv, Once
<1>2. tally[NrOfExperiments] = 0
  BY DEF Init, Counters
<1>3. LoadedInv /\ ~InSession
  BY <1>2 DEF Init, LoadedInv, InSession
<1>4. QED
  BY <1>1, <1>3 DEF CountInv

(* A load finds no thread at work and puts every target in the queue.      *)
LEMMA LoadEffect ==
  ASSUME IInv, CountInv, NEW n \in LoadSizes,
         LoadAnew(n) \/ \E clear \in BOOLEAN : Load(n, clear)
  PROVE  /\ \A t \in Threads : ~running[t]
         /\ UNCHANGED <<todo, pc, running>>
         /\ caller' = [op |-> "loaded", at |-> 0]
         /\ LoadedInv'
<1> USE DEF results, queue, counters, grasp, threads
<1>1. n \in Nat
  BY ConstantsAssumption
<1>2. /\ taskQueue' = [i \in 1 .. n |-> i] /\ total' = n
      /\ caller' = [op |-> "loaded", at |-> 0]
      /\ UNCHANGED <<todo, pc, running>>
  BY DEF Load, LoadAnew, LoadsTasks, TaskList, CallerGoes
<1>3. \A t \in Threads : ~running[t]
  BY DEF Load, LoadAnew, LoadsTasks, CallerIn, IInv, ControlInv
<1>4. Len(taskQueue') = total'
  BY <1>1, <1>2
<1>5. LoadedTargets' \subseteq Queued'
  BY <1>1, <1>2 DEF LoadedTargets, Queued, Range
<1>6. QED
  BY <1>2, <1>3, <1>4, <1>5 DEF LoadedInv

LEMMA LoadCountInv ==
  ASSUME IInv, CountInv, NEW n \in LoadSizes,
         LoadAnew(n) \/ \E clear \in BOOLEAN : Load(n, clear)
  PROVE  CountInv'
<1>1. DebtInv'
  BY LoadEffect DEF CountInv, DebtInv
<1>2. ~InSession'
  BY LoadEffect DEF InSession
<1>3. QED
  BY <1>1, <1>2, LoadEffect DEF CountInv

(* startSimulation sets the counters back before any thread runs.          *)
LEMMA StartEffect ==
  ASSUME IInv, CountInv, Start
  PROVE  /\ total # 0 /\ caller.op = "loaded" /\ caller' = [op |-> "starting", at |-> 1]
         /\ \A c \in Counters : tally'[c] = 0
         /\ UNCHANGED <<taskQueue, total, todo, loaded, pc, running>>
         /\ \A t \in Threads : ~running[t] /\ todo[t] = <<>> /\ pc[t] = "loop"
<1> USE DEF results, queue, counters, grasp, threads
<1>1. /\ total # 0 /\ caller.op = "loaded" /\ caller' = [op |-> "starting", at |-> 1]
      /\ \A c \in Counters : tally'[c] = 0
      /\ UNCHANGED <<taskQueue, total, todo, loaded, pc, running>>
  BY DEF Start, CallerIn, CallerGoes
<1>2. \A t \in Threads : ~running[t]
  BY <1>1 DEF IInv, ControlInv
<1>3. \A t \in Threads : todo[t] = <<>> /\ pc[t] = "loop"
  BY <1>2 DEF CountInv, DebtInv
<1>4. QED
  BY <1>1, <1>2, <1>3

LEMMA StartCountInv ==
  ASSUME IInv, CountInv, Start
  PROVE  CountInv'
<1>1. DebtInv' /\ LoadedInv'
  BY StartEffect DEF CountInv, DebtInv, LoadedInv
<1>2. Popped' = 0
  <2>1. Len(taskQueue) = total /\ total \in Nat
    BY StartEffect, CountTyped DEF CountInv, LoadedInv
  <2>2. QED
    BY <2>1, StartEffect DEF Popped
<1>3. Balance(NrOfExperiments, 0)'
  <2>1. tally'[NrOfExperiments] = 0
    BY StartEffect, CountTyped
  <2>2. QED
    BY <2>1, StartEffect, ZeroBalance
<1>4. Balance(NrOfExperiments, Popped)'
  BY <1>2, <1>3 DEF Balance
<1>5. QED
  BY <1>1, <1>4 DEF CountInv

LEMMA StartEmptyCountInv ==
  ASSUME IInv, CountInv, StartEmpty
  PROVE  CountInv'
<1>1. /\ total = 0 /\ total' = 0 /\ caller.op = "loaded" /\ caller'.op = "watching"
      /\ UNCHANGED <<todo, pc, running>>
      /\ tally'[NrOfExperiments] = 0
  BY CountTyped DEF StartEmpty, CallerIn, CallerGoes, IInv, TypeOK,
     queue, counters, threads
<1>2. \A t \in Threads : ~running'[t]
  BY <1>1 DEF IInv, ControlInv
<1>3. DebtInv' /\ LoadedInv' /\ ~InSession'
  BY <1>1, <1>2 DEF CountInv, DebtInv, LoadedInv, InSession
<1>4. QED
  BY <1>3 DEF CountInv

(* A running thread means that a session is on, with a task not empty.     *)
LEMMA BusySession ==
  ASSUME IInv, LoadedInv, NEW t \in Threads, running[t]
  PROVE  InSession
BY DEF IInv, ControlInv, InSession, LoadedInv

(* A step that touches neither the counts nor the queue.                   *)
LEMMA QuietCountInv ==
  ASSUME IInv, CountInv,
         UNCHANGED <<taskQueue, total, tally, todo, loaded>>,
         caller.op # "loaded", caller'.op # "loaded",
         total = 0 => caller'.op \in {"idle", "watching", "done"},
         \A t \in Threads :
           /\ ~running'[t] => pc'[t] = "loop"
           /\ running'[t] => total # 0 \/ running[t]
           /\ pc'[t] \in {"loop", "next"} => pc[t] \in {"loop", "next"}
           /\ pc'[t] = "store" => pc[t] = "store"
  PROVE  CountInv'
<1>1. DebtInv' /\ LoadedInv'
  BY DEF CountInv, DebtInv, LoadedInv
<1>2. Popped' = Popped /\ (InSession' <=> InSession)
  BY DEF Popped, InSession
<1>3. InSession' => Balance(NrOfExperiments, Popped)'
  <2> SUFFICES ASSUME InSession' PROVE Balance(NrOfExperiments, Popped)'
    OBVIOUS
  <2>1. PICK n : n = Popped
    OBVIOUS
  <2>2. Balance(NrOfExperiments, n)'
    BY <1>2, <2>1, SameBalance DEF CountInv
  <2>3. QED
    BY <1>2, <2>1, <2>2 DEF Balance
<1>4. QED
  BY <1>1, <1>3 DEF CountInv

(* The other steps of the control thread leave the counters alone.         *)
LEMMA ControlEffect ==
  ASSUME IInv, CountInv,
         \/ Pause \/ Resume \/ AwaitEnd
         \/ \E t \in Threads :
              StartThread(t) \/ StopThread(t) \/ JoinThread(t) \/ ResumeThread(t)
  PROVE  /\ UNCHANGED <<results, taskQueue, total, tally, todo, loaded, grasp, pc>>
         /\ caller.op # "loaded" /\ caller'.op # "loaded"
         /\ \A t \in Threads : ~running'[t] => ~running[t]
<1> USE DEF results, queue, counters, grasp, threads
<1>1. /\ UNCHANGED <<results, taskQueue, total, tally, todo, loaded, grasp, pc>>
      /\ caller.op # "loaded" /\ caller'.op # "loaded"
  BY DEF Pause, Resume, AwaitEnd, StartThread, StopThread, JoinThread, ResumeThread,
         CallerIn, CallerAt, CallerGoes, CallerLoops
<1>2. \A t \in Threads : ~running'[t] => ~running[t]
  BY DEF Pause, Resume, AwaitEnd, StartThread, StopThread, JoinThread, ResumeThread, Run,
         IInv, TypeOK
<1>3. QED
  BY <1>1, <1>2

LEMMA ControlCountInv ==
  ASSUME IInv, CountInv,
         \/ Pause \/ Resume \/ AwaitEnd
         \/ \E t \in Threads :
              StartThread(t) \/ StopThread(t) \/ JoinThread(t) \/ ResumeThread(t)
  PROVE  CountInv'
<1>1. \A t \in Threads : ~running'[t] => pc'[t] = "loop"
  BY ControlEffect DEF CountInv, DebtInv
<1>2. total = 0 => caller'.op \in {"watching", "done"} /\ running' = running
  BY DEF CountInv, LoadedInv, Pause, Resume, AwaitEnd, StartThread, StopThread, JoinThread,
         ResumeThread, CallerIn, CallerAt, CallerGoes, AnyRunning, threads
<1>3. QED
  BY <1>1, <1>2, ControlEffect, QuietCountInv

(* Steps of a thread that only move it through its callback.               *)
LEMMA MoveEffect ==
  ASSUME IInv, CountInv, NEW t \in Threads,
         \/ StepIgnored(t) \/ OutOfTargets(t) \/ ThreadExit(t)
         \/ \E o \in Physics : StepFaults(t, o)
  PROVE  /\ running[t]
         /\ UNCHANGED <<status, taskQueue, total, tally, todo, loaded, state, target, caller>>
         /\ \A u \in Threads :
              /\ ~running'[u] => pc'[u] = "loop"
              /\ running'[u] => running[u]
              /\ pc'[u] \in {"loop", "next"} => pc[u] \in {"loop", "next"}
              /\ pc'[u] = "store" => pc[u] = "store"
<1> USE DEF results, queue, counters, grasp, threads, control
<1>1. /\ UNCHANGED <<status, taskQueue, total, tally, todo, loaded, state, target, caller>>
      /\ running[t] /\ pc[t] \in {"loop", "next"}
  BY DEF StepIgnored, OutOfTargets, ThreadExit, StepFaults, InNewGrasp, Busy
<1>2. /\ \/ pc' = pc
         \/ pc' = [pc EXCEPT ![t] = "loop"]
      /\ \/ running' = running
         \/ pc' = pc /\ pc[t] = "loop" /\ running' = [running EXCEPT ![t] = FALSE]
  BY DEF StepIgnored, OutOfTargets, ThreadExit, StepFaults
<1>3. pc \in [Threads -> {"loop", "load", "store", "next"}] /\ running \in [Threads -> BOOLEAN]
  BY DEF IInv, TypeOK
<1>4. \A u \in Threads : ~running[u] => pc[u] = "loop"
  BY DEF CountInv, DebtInv
<1>5. \A u \in Threads :
        /\ ~running'[u] => pc'[u] = "loop"
        /\ running'[u] => running[u]
        /\ pc'[u] \in {"loop", "next"} => pc[u] \in {"loop", "next"}
        /\ pc'[u] = "store" => pc[u] = "store"
  BY <1>1, <1>2, <1>3, <1>4
<1>6. QED
  BY <1>1, <1>5

LEMMA MoveCountInv ==
  ASSUME IInv, CountInv, NEW t \in Threads,
         \/ StepIgnored(t) \/ OutOfTargets(t) \/ ThreadExit(t)
         \/ \E o \in Physics : StepFaults(t, o)
  PROVE  CountInv'
<1>1. InSession
  BY MoveEffect, BusySession DEF CountInv
<1>2. QED
  BY <1>1, MoveEffect, QuietCountInv DEF InSession

\* What a callback does to the counters and to its thread.
LEMMA StepEffect ==
  ASSUME IInv, CountInv, NEW t \in Threads, NEW o \in Physics, Step(t, o)
  PROVE  /\ running[t] /\ InSession /\ pc[t] = "loop" /\ todo[t] = <<>>
         /\ UNCHANGED <<taskQueue, total, tally, loaded, target, running, caller>>
         /\ todo'[t] = Stages(Before(t), o).stats /\ todo'[t] \in Seq(Status)
         /\ state'[t] = Stages(Before(t), o).state
         /\ pc'[t] # "store"
         /\ pc'[t] \in {"loop", "next"} => todo'[t] = <<>>
         /\ \A u \in Threads \ {t} :
              todo'[u] = todo[u] /\ pc'[u] = pc[u] /\ state'[u] = state[u]
<1> DEFINE w == Stages(Before(t), o)
<1> USE DEF results, queue, counters, grasp, threads, control
<1>1. w.stats \in Seq(Status)
  BY BeforeIsWork, StagesSound DEF IInv, Sound, Work
<1>2. /\ todo' = [todo EXCEPT ![t] = w.stats]
      /\ state' = [state EXCEPT ![t] = w.state]
      /\ pc' = [pc EXCEPT ![t] = IF w.stats # <<>> THEN "load" ELSE AfterTally(w.state)]
      /\ UNCHANGED <<taskQueue, total, tally, loaded, target, running, caller>>
      /\ running[t] /\ pc[t] = "loop"
  BY DEF Step, Busy
<1> HIDE DEF w
<1>3. /\ pc \in [Threads -> {"loop", "load", "store", "next"}]
      /\ todo \in [Threads -> Seq(Counters)]
      /\ state \in [Threads -> StepState]
  BY DEF IInv, TypeOK
<1>4. todo[t] = <<>> /\ InSession
  BY <1>2, BusySession DEF CountInv, DebtInv
<1>5. /\ todo'[t] = w.stats /\ state'[t] = w.state
      /\ pc'[t] # "store"
      /\ pc'[t] \in {"loop", "next"} => w.stats = <<>>
      /\ \A u \in Threads \ {t} :
           todo'[u] = todo[u] /\ pc'[u] = pc[u] /\ state'[u] = state[u]
  BY <1>2, <1>3 DEF AfterTally
<1>6. QED
  BY <1>1, <1>2, <1>4, <1>5 DEF w

(* A callback owes verdicts, never the count of a target.                  *)
LEMMA StepCountInv ==
  ASSUME IInv, CountInv, NEW t \in Threads, NEW o \in Physics, Step(t, o)
  PROVE  CountInv'
<1>1. ~Has(todo[t], NrOfExperiments) /\ ~Has(todo'[t], NrOfExperiments)
  BY StepEffect, StatusIsNoCount DEF Has
<1>2. DebtInv'
  BY <1>1, StepEffect DEF CountInv, DebtInv, Once, Has
<1>3. LoadedInv' /\ Popped' = Popped
  BY StepEffect DEF InSession, LoadedInv, Popped
<1>4. PICK n : n = Popped
  OBVIOUS
<1>5. Balance(NrOfExperiments, n)'
  BY <1>1, <1>4, StepEffect, OtherBalance DEF CountInv
<1>6. Balance(NrOfExperiments, Popped)'
  BY <1>3, <1>4, <1>5 DEF Balance
<1>7. QED
  BY <1>2, <1>3, <1>6 DEF CountInv

(* The two halves of an increment.                                         *)
LEMMA IncrementCountInv ==
  ASSUME IInv, CountInv, NEW t \in Threads, TallyLoad(t) \/ TallyStore(t)
  PROVE  CountInv'
<1>1. /\ UNCHANGED <<taskQueue, total, running, caller>>
      /\ running[t] /\ InSession
  BY BusySession DEF TallyLoad, TallyStore, Busy, CountInv, queue, control
<1>2. Once(todo[t], NrOfExperiments)
  BY DEF CountInv, DebtInv
<1>3. DebtInv'
  <2>1. CASE TallyLoad(t)
    <3>1. pc' = [pc EXCEPT ![t] = "store"] /\ todo' = todo
      BY <2>1 DEF TallyLoad
    <3>2. pc \in [Threads -> {"loop", "load", "store", "next"}]
      BY DEF IInv, TypeOK
    <3>3. QED
      BY <1>1, <3>1, <3>2 DEF CountInv, DebtInv
  <2>2. CASE TallyStore(t)
    <3>1. Once(todo'[t], NrOfExperiments)
      BY <1>2, <2>2, StoreEffect, TailHas
    <3>2. QED
      BY <1>1, <2>2, <3>1, StoreEffect DEF CountInv, DebtInv
  <2>3. QED
    BY <2>1, <2>2
<1>4. LoadedInv' /\ Popped' = Popped /\ Popped \in Int
  BY <1>1, CountTyped DEF InSession, LoadedInv, Popped
<1>5. PICK n \in Int : n = Popped
  BY <1>4
<1>6. Balance(NrOfExperiments, n)'
  <2>1. NrOfExperiments \in Counters /\ Balance(NrOfExperiments, n)
    BY <1>1, <1>5, CountTyped DEF CountInv
  <2>2. QED
    BY <1>2, <2>1, LoadingBalance, StoringBalance
<1>7. Balance(NrOfExperiments, Popped)'
  BY <1>4, <1>5, <1>6 DEF Balance
<1>8. QED
  BY <1>3, <1>4, <1>7 DEF CountInv

\* A pop that owes at most one count of a status, and that of the target.
LEMMA PopEffect ==
  ASSUME IInv, CountInv, NEW t \in Threads,
         \/ SkipTarget(t) \/ BeginGrasp(t)
         \/ \E s \in {"CollisionObjectInitially", "CollisionEnvironmentInitially"} :
              RejectTarget(t, s)
  PROVE  /\ taskQueue # <<>> /\ taskQueue' = Tail(taskQueue)
         /\ UNCHANGED <<total, tally, loaded, running, caller>>
         /\ running[t] /\ InSession /\ pc[t] = "next" /\ todo[t] = <<>>
         /\ pc'[t] = "load" /\ target'[t] = Top
         /\ Top \in Targets /\ status[Top] \in Status
         /\ \A u \in Threads \ {t} :
              /\ todo'[u] = todo[u] /\ pc'[u] = pc[u]
              /\ state'[u] = state[u] /\ target'[u] = target[u]
         /\ \/ /\ BeginGrasp(t) /\ todo'[t] = Append(<<>>, NrOfExperiments)
               /\ status' = status /\ state'[t] = "APPROACH"
            \/ \E s \in Status :
                 /\ todo'[t] = Append(<<s>>, NrOfExperiments)
                 /\ status' = [status EXCEPT ![Top] = s] /\ state'[t] = state[t]
<1> USE DEF results, queue, counters, grasp, threads, control
<1>1. /\ taskQueue # <<>> /\ taskQueue' = Tail(taskQueue)
      /\ UNCHANGED <<total, tally, loaded, running, caller>>
      /\ running[t] /\ pc[t] = "next"
      /\ pc' = [pc EXCEPT ![t] = "load"] /\ target' = [target EXCEPT ![t] = Top]
  BY DEF SkipTarget, BeginGrasp, RejectTarget, GetNextTarget, Tallies, InNewGrasp, Busy
<1>2. todo[t] = <<>> /\ InSession
  BY <1>1, BusySession DEF CountInv, DebtInv
<1>3. /\ pc \in [Threads -> {"loop", "load", "store", "next"}]
      /\ todo \in [Threads -> Seq(Counters)]
      /\ state \in [Threads -> StepState]
      /\ target \in [Threads -> Targets \cup {NoTarget}]
      /\ status \in [Targets -> Status]
  BY DEF IInv, TypeOK
<1>4. Top \in Targets /\ status[Top] \in Status
  BY <1>1, <1>3, PopTop DEF IInv
<1>5. /\ state' = state \/ state' = [state EXCEPT ![t] = "APPROACH"]
      /\ \E q : todo' = [todo EXCEPT ![t] = q]
  BY DEF SkipTarget, BeginGrasp, RejectTarget, Tallies
<1>6. CASE BeginGrasp(t)
  <2>1. todo'[t] = Append(<<>>, NrOfExperiments) /\ status' = status /\ state'[t] = "APPROACH"
    BY <1>3, <1>6 DEF BeginGrasp, Tallies
  <2>2. QED
    BY <1>1, <1>2, <1>3, <1>4, <1>5, <1>6, <2>1
<1>7. ASSUME NEW s \in Status, todo' = [todo EXCEPT ![t] = Append(<<s>>, NrOfExperiments)],
             status' = [status EXCEPT ![Top] = s], state' = state
      PROVE  /\ todo'[t] = Append(<<s>>, NrOfExperiments)
             /\ status' = [status EXCEPT ![Top] = s] /\ state'[t] = state[t]
  BY <1>3, <1>7
<1>8. CASE SkipTarget(t)
  <2>1. /\ todo' = [todo EXCEPT ![t] = Append(<<status[Top]>>, NrOfExperiments)]
        /\ status' = [status EXCEPT ![Top] = status[Top]] /\ state' = state
    BY <1>3, <1>4, <1>8 DEF SkipTarget, Tallies
  <2>2. QED
    BY <1>1, <1>2, <1>3, <1>4, <1>5, <1>7, <2>1
<1>9. ASSUME NEW s \in {"CollisionObjectInitially", "CollisionEnvironmentInitially"},
             RejectTarget(t, s)
      PROVE  /\ s \in Status
             /\ todo' = [todo EXCEPT ![t] = Append(<<s>>, NrOfExperiments)]
             /\ status' = [status EXCEPT ![Top] = s] /\ state' = state
  BY <1>9 DEF RejectTarget, Tallies, Status
<1>10. QED
  BY <1>1, <1>2, <1>3, <1>4, <1>5, <1>6, <1>7, <1>8, <1>9

(* A pop makes room for one more and makes the thread a debtor.            *)
LEMMA PopCountInv ==
  ASSUME IInv, CountInv, NEW t \in Threads,
         \/ SkipTarget(t) \/ BeginGrasp(t)
         \/ \E s \in {"CollisionObjectInitially", "CollisionEnvironmentInitially"} :
              RejectTarget(t, s)
  PROVE  CountInv'
<1>1. \/ todo'[t] = Append(<<>>, NrOfExperiments)
      \/ \E s \in Status : todo'[t] = Append(<<s>>, NrOfExperiments)
  BY PopEffect
<1>2. Has(todo'[t], NrOfExperiments) /\ Once(todo'[t], NrOfExperiments)
  <2>1. CASE todo'[t] = Append(<<>>, NrOfExperiments)
    <3>1. /\ Has(Append(<<>>, NrOfExperiments), NrOfExperiments)
          /\ Once(Append(<<>>, NrOfExperiments), NrOfExperiments)
      BY PopHas
    <3>2. QED
      BY <2>1, <3>1
  <2>2. ASSUME NEW s \in Status, todo'[t] = Append(<<s>>, NrOfExperiments)
        PROVE  Has(todo'[t], NrOfExperiments) /\ Once(todo'[t], NrOfExperiments)
    <3>1. s # NrOfExperiments
      BY StatusIsNoCount
    <3>2. /\ Has(Append(<<s>>, NrOfExperiments), NrOfExperiments)
          /\ Once(Append(<<s>>, NrOfExperiments), NrOfExperiments)
      BY <3>1, PopHas
    <3>3. QED
      BY <2>2, <3>2
  <2>3. QED
    BY <1>1, <2>1, <2>2
<1>3. DebtInv' /\ ~Has(todo[t], NrOfExperiments)
  BY <1>2, PopEffect DEF CountInv, DebtInv, Has
<1>4. LoadedInv'
  BY PopEffect DEF InSession, LoadedInv
<1>5. Popped' = Popped + 1 /\ Popped \in Int
  <2>1. Len(taskQueue') = Len(taskQueue) - 1
    BY PopEffect, PopTop DEF IInv
  <2>2. QED
    BY <2>1, PopEffect, CountTyped DEF Popped
<1>6. PICK n \in Int : n = Popped
  BY <1>5
<1>7. Balance(NrOfExperiments, n + 1)'
  <2>1. NrOfExperiments \in Counters /\ Balance(NrOfExperiments, n)
    BY <1>6, PopEffect, CountTyped DEF CountInv
  <2>2. QED
    BY <1>2, <1>3, <2>1, PopEffect, OwingBalance
<1>8. Balance(NrOfExperiments, Popped)'
  BY <1>5, <1>6, <1>7 DEF Balance
<1>9. QED
  BY <1>3, <1>4, <1>8 DEF CountInv

LEMMA NextCountInv == IInv /\ CountInv /\ [Next]_vars => CountInv'
<1> SUFFICES ASSUME IInv, CountInv, [Next]_vars PROVE CountInv'
  OBVIOUS
<1>1. CASE \E n \in LoadSizes : LoadAnew(n) \/ \E clear \in BOOLEAN : Load(n, clear)
  BY <1>1, LoadCountInv
<1>2. CASE Pause \/ Resume \/ CallerWorks
  BY <1>2, StartCountInv, StartEmptyCountInv, ControlCountInv DEF CallerWorks
<1>3. ASSUME NEW t \in Threads, Thread(t) PROVE CountInv'
  BY <1>3, MoveCountInv, StepCountInv, IncrementCountInv, PopCountInv DEF Thread
<1>4. CASE UNCHANGED vars
  <2>1. UNCHANGED <<taskQueue, total, tally, todo, loaded, pc, running, caller>>
    BY <1>4 DEF vars, results, queue, counters, grasp, threads, control
  <2>2. QED
    BY <2>1 DEF CountInv, DebtInv, LoadedInv, InSession, Balance, Storing, Debtors, Popped,
                LoadedTargets, Queued
<1>5. QED
  BY <1>1, <1>2, <1>3, <1>4 DEF Next

(* With any number of threads, the unprotected increments of               *)
(* _nrOfExperiments only ever lose counts: getNrTargetsDone never runs     *)
(* ahead of the targets that were popped.                                  *)
THEOREM CountNeverRunsAhead == Safety => []NrNeverOvercounts
<1>1. IInv /\ CountInv => NrNeverOvercounts
  <2> SUFFICES ASSUME IInv, CountInv, InSession
               PROVE  tally[NrOfExperiments] <= total - Len(taskQueue)
    BY DEF NrNeverOvercounts, InSession
  <2>1. tally[NrOfExperiments] + Cardinality(Debtors(NrOfExperiments)) <= Popped
    BY DEF CountInv, Balance
  <2>2. QED
    BY <2>1, DebtorsAreFinite, CountTyped DEF Popped
<1>2. QED
  BY <1>1, Invariant, InitCountInv, NextCountInv, PTL DEF Safety
-----------------------------------------------------------------------------
(***************************************************************************)
(* The statistics.  What _stat counts is what the targets end with only if *)
(* a callback decides a grasp once and as it counts it.  The collision     *)
(* check runs even in a callback that has just decided the grasp; a slip   *)
(* is counted as a slip and recorded as a success, and a limit of          *)
(* evaluateGrasp overrules a counted success.  A thread that is resumed    *)
(* after its last grasp decides that grasp again when its clock runs out.  *)
(***************************************************************************)
OneVerdict ==
  \A o \in Physics : /\ ~o.col
                     /\ AllowResume => ~o.wall
                     /\ o.move = "slip" => SuctionCup
                     /\ o.over => ~Limited

\* A stage goes on with the grasp, or ends it with the one verdict that it counts.
Clean(w, v) ==
  \/ /\ v.stats = w.stats /\ v.status = w.status
     /\ v.state = "NEW_GRASP" <=> w.state = "NEW_GRASP"
  \/ /\ w.state # "NEW_GRASP" /\ v.state = "NEW_GRASP"
     /\ v.status \in Verdicts /\ v.stats = Append(w.stats, v.status)

(* The verdicts that evaluateGrasp leaves as they are counted.             *)
LEMMA VerdictClean ==
  ASSUME NEW w \in Work, w.state # "NEW_GRASP", NEW o, o.over => ~Limited,
         NEW s \in Verdicts, s # "ObjectSlipped"
  PROVE  Clean(w, Verdict(w, s, o))
<1>1. EvaluateGrasp(s, o) = s
  BY DEF EvaluateGrasp
<1>2. /\ Verdict(w, s, o).state = "NEW_GRASP" /\ Verdict(w, s, o).status = s
      /\ Verdict(w, s, o).stats = Append(w.stats, s)
  BY <1>1 DEF Verdict, Work
<1>3. QED
  BY <1>2 DEF Clean

LEMMA CleanTransitive ==
  ASSUME NEW u, NEW v, NEW w, Clean(u, v), Clean(v, w)
  PROVE  Clean(u, w)
BY DEF Clean

(* A callback decides a grasp once, and its count is the status it writes. *)
LEMMA StagesClean ==
  ASSUME OneVerdict, NEW o \in Physics, NEW w \in Work,
         w.state # "NEW_GRASP" \/ ~LimitsExceeded(w, o)
  PROVE  Clean(w, Stages(w, o))
<1> DEFINE w1 == CheckTimeLimits(w, o)
           w2 == CheckHardTimeLimit(w1, o)
           w3 == CheckError(w2, o)
           w4 == CheckCollision(w3, o)
           w5 == Approach(w4, o)
           w6 == Grasping(w5, o)
           w7 == Lifting(w6, o)
<1>1. /\ ~o.col /\ (o.over => ~Limited)
      /\ o.move = "slip" => SuctionCup
  BY DEF OneVerdict
<1>2. {"TimeOut", "SimulationFailure", "ObjectMissed", "ObjectDropped", "Success"}
        \subseteq Verdicts
  BY DEF Verdicts, Status
<1>3. w1 \in Work /\ Clean(w, w1)
  <2>1. w1 \in Work
    BY TimeLimitsSound DEF Sound
  <2>2. w.state # "NEW_GRASP" => Clean(w, Verdict(w, "TimeOut", o))
    BY <1>1, <1>2, VerdictClean
  <2>3. QED
    BY <2>1, <2>2 DEF CheckTimeLimits, Clean
<1> HIDE DEF w1
<1>4. w2 \in Work /\ Clean(w1, w2)
  <2>1. w2 \in Work
    BY <1>3, TimeLimitsSound DEF Sound
  <2>2. w1.state # "NEW_GRASP" => Clean(w1, Verdict(w1, "TimeOut", o))
    BY <1>1, <1>2, <1>3, VerdictClean
  <2>3. QED
    BY <2>1, <2>2 DEF CheckHardTimeLimit, Clean
<1> HIDE DEF w2
<1>5. w3 \in Work /\ Clean(w2, w3)
  <2>1. w3 \in Work
    BY <1>4, ErrorSound DEF Sound
  <2> DEFINE v == Verdict(w2, "SimulationFailure", o)
  <2>2. w2.state # "NEW_GRASP" => v \in Work /\ Clean(w2, v)
    BY <1>1, <1>2, <1>4, VerdictClean, VerdictSound
  <2>3. w2.state # "NEW_GRASP" /\ o.err => w3 = [v EXCEPT !.time = 0]
    BY DEF CheckError
  <2>4. ~(w2.state # "NEW_GRASP" /\ o.err) => w3 = w2
    BY DEF CheckError
  <2> HIDE DEF v, w3
  <2>5. w2.state # "NEW_GRASP" => Clean(w2, [v EXCEPT !.time = 0])
    BY <2>2 DEF Clean, Work
  <2>6. QED
    BY <2>1, <2>3, <2>4, <2>5 DEF Clean
<1> HIDE DEF w3
<1>6. w4 = w3
  BY <1>1 DEF CheckCollision
<1> HIDE DEF w4
<1>7. w5 \in Work /\ Clean(w4, w5)
  <2>1. w5 \in Work
    BY <1>5, <1>6, ApproachSound DEF Sound
  <2>2. w4.state = "APPROACH" => Clean(w4, [w4 EXCEPT !.state = "GRASPING", !.since = w4.time])
    BY <1>5, <1>6 DEF Clean, Work
  <2>3. QED
    BY <2>1, <2>2 DEF Approach, Clean
<1> HIDE DEF w5
<1>8. w6 \in Work /\ Clean(w5, w6)
  <2>1. w6 \in Work
    BY <1>7, GraspingSound DEF Sound
  <2>2. w5.state # "NEW_GRASP" => Clean(w5, Verdict(w5, "ObjectMissed", o))
    BY <1>1, <1>2, <1>7, VerdictClean
  <2>3. w5.state = "GRASPING" => Clean(w5, [w5 EXCEPT !.state = "LIFTING", !.since = w5.time])
    BY <1>7 DEF Clean, Work
  <2>4. QED
    BY <2>1, <2>2, <2>3 DEF Grasping, Clean
<1> HIDE DEF w6
<1>9. Clean(w6, w7)
  <2> DEFINE s == CASE o.move = "lost" -> "ObjectDropped"
                    [] o.move = "slip" /\ ~SuctionCup -> "ObjectSlipped"
                    [] OTHER -> "Success"
  <2>1. s \in Verdicts /\ s # "ObjectSlipped"
    BY <1>1, <1>2
  <2>2. w7 = w6 \/ (w6.state = "LIFTING" /\ w7 = Verdict(w6, s, o))
    BY DEF Lifting
  <2> HIDE DEF s, w7
  <2>3. w6.state # "NEW_GRASP" => Clean(w6, Verdict(w6, s, o))
    BY <1>1, <1>8, <2>1, VerdictClean
  <2>4. QED
    BY <2>2, <2>3 DEF Clean
<1>10. Stages(w, o) = w7
  BY DEF Stages, w1, w2, w3, w4, w5, w6
<1> HIDE DEF w7
<1>11. QED
  BY <1>3, <1>4, <1>5, <1>6, <1>7, <1>8, <1>9, <1>10, CleanTransitive
-----------------------------------------------------------------------------
(* The targets that are through with status s: neither queued nor held.    *)
Finished(s) == {g \in LoadedTargets \ (Queued \cup Held) : status[g] = s}

StatInv ==
  /\ Queued \cup Held \subseteq LoadedTargets
  /\ \A t \in Threads, s \in Status : Once(todo[t], s)
  /\ InSession => \A s \in Status : Balance(s, Cardinality(Finished(s)))

\* The callbacks without a grasp decide nothing: see StepInv for ~AllowResume.
SInv == IInv /\ CountInv /\ StatInv /\ (AllowResume \/ StepInv)

LEMMA FinishedAreFinite ==
  ASSUME IInv, NEW s
  PROVE  IsFiniteSet(Finished(s)) /\ Cardinality(Finished(s)) \in Nat
<1>1. IsFiniteSet(1 .. total)
  BY CountTyped, FS_Interval
<1>2. Finished(s) \subseteq 1 .. total
  BY DEF Finished, LoadedTargets
<1>3. QED
  BY <1>1, <1>2, FS_Subset, FS_CardinalityType

(* A target that is taken off the queue, or dropped, with its status.      *)
LEMMA FinishedGrows ==
  ASSUME IInv, StatInv, NEW g \in Queued \cup Held, g \in Targets, NEW s \in Status,
         total' = total, status' = [status EXCEPT ![g] = s],
         (Queued \cup Held)' = (Queued \cup Held) \ {g}
  PROVE  /\ Cardinality(Finished(s)') = Cardinality(Finished(s)) + 1
         /\ \A r \in Status \ {s} : Finished(r)' = Finished(r)
<1>1. status \in [Targets -> Status] /\ LoadedTargets' = LoadedTargets /\ g \in LoadedTargets
  BY DEF IInv, TypeOK, LoadedTargets, StatInv
<1>2. LoadedTargets \subseteq Targets
  BY ConstantsAssumption DEF LoadedTargets, Targets, IInv, TypeOK
<1>3. Finished(s)' = Finished(s) \cup {g} /\ g \notin Finished(s)
  BY <1>1, <1>2 DEF Finished
<1>4. \A r \in Status \ {s} : Finished(r)' = Finished(r)
  BY <1>1, <1>2 DEF Finished
<1>5. QED
  BY <1>3, <1>4, FinishedAreFinite, FS_AddElement

(* A step that finishes nothing and touches no counter.                    *)
LEMMA SameStatInv ==
  ASSUME IInv, StatInv, UNCHANGED <<status, total, tally, todo, loaded>>,
         (Queued \cup Held)' = Queued \cup Held, InSession' => InSession,
         \A t \in Threads : pc'[t] = "store" => pc[t] = "store"
  PROVE  StatInv'
<1>1. \A s : Finished(s)' = Finished(s)
  BY DEF Finished, LoadedTargets
<1>2. ASSUME InSession', NEW s \in Status PROVE Balance(s, Cardinality(Finished(s)))'
  <2>1. PICK n : n = Cardinality(Finished(s))
    OBVIOUS
  <2>2. Balance(s, n)'
    BY <1>2, <2>1, SameBalance DEF StatInv
  <2>3. n = Cardinality(Finished(s)')
    BY <1>1, <2>1
  <2>4. QED
    BY <2>2, <2>3 DEF Balance
<1>3. QED
  BY <1>2 DEF StatInv, LoadedTargets

LEMMA InitStatInv == Init => StatInv
<1> SUFFICES ASSUME Init PROVE StatInv
  OBVIOUS
<1>1. Queued = {} /\ Held = {}
  BY DEF Init, Queued, Held, Holding, Range
<1>2. \A t \in Threads, s \in Status : Once(todo[t], s)
  BY DEF Init, Once
<1>3. ~InSession
  BY DEF Init, InSession
<1>4. QED
  BY <1>1, <1>2, <1>3 DEF StatInv

LEMMA LoadStatInv ==
  ASSUME IInv, CountInv, StatInv, NEW n \in LoadSizes,
         LoadAnew(n) \/ \E clear \in BOOLEAN : Load(n, clear)
  PROVE  StatInv'
<1>1. taskQueue' = [i \in 1 .. n |-> i] /\ total' = n /\ n \in Nat
  BY ConstantsAssumption DEF Load, LoadAnew, LoadsTasks, TaskList
<1>2. Queued' = LoadedTargets'
  BY <1>1 DEF Queued, LoadedTargets, Range
<1>3. \A t \in Threads : state'[t] = "NEW_GRASP"
  BY FreshTyped DEF Load, LoadAnew, LoadsTasks, CallerIn, Holding, IInv, ControlInv, grasp
<1>4. Held' = {}
  BY <1>3 DEF Held, Holding
<1>5. ~InSession' /\ todo' = todo
  BY LoadEffect DEF InSession
<1>6. QED
  BY <1>2, <1>4, <1>5 DEF StatInv

(* A session starts with every target queued and every counter at zero.    *)
LEMMA StartStatInv ==
  ASSUME IInv, CountInv, StatInv, Start
  PROVE  StatInv'
<1>1. \A t \in Threads : state'[t] = "NEW_GRASP"
  BY FreshTyped DEF Start
<1>2. Held' = {}
  BY <1>1 DEF Held, Holding
<1>3. Queued' = Queued /\ LoadedTargets' = LoadedTargets /\ LoadedTargets \subseteq Queued
  BY StartEffect DEF Queued, LoadedTargets, CountInv, LoadedInv
<1>4. ASSUME NEW s \in Status PROVE Balance(s, Cardinality(Finished(s)))'
  <2>1. Finished(s)' = {}
    BY <1>3 DEF Finished
  <2>2. Cardinality(Finished(s)') = 0
    BY <2>1, FS_EmptySet
  <2>3. tally'[s] = 0
    BY StartEffect DEF Counters
  <2>4. Balance(s, 0)'
    BY <2>3, StartEffect, ZeroBalance
  <2>5. QED
    BY <2>2, <2>4 DEF Balance
<1>5. todo' = todo
  BY StartEffect
<1>6. QED
  BY <1>2, <1>3, <1>4, <1>5 DEF StatInv

LEMMA StartEmptyStatInv ==
  ASSUME IInv, StatInv, StartEmpty
  PROVE  StatInv'
<1>1. /\ UNCHANGED <<state, target, taskQueue, total, todo>> /\ ~InSession'
  BY DEF StartEmpty, CallerIn, InSession, results, queue, counters, grasp, threads
<1>2. Queued' = Queued /\ Held' = Held /\ LoadedTargets' = LoadedTargets
  BY <1>1 DEF Queued, Held, Holding, LoadedTargets
<1>3. QED
  BY <1>1, <1>2 DEF StatInv

(* The control thread, and the moves of a thread that decide nothing.      *)
LEMMA QuietStatInv ==
  ASSUME IInv, CountInv, StatInv,
         \/ Pause \/ Resume \/ AwaitEnd
         \/ \E t \in Threads :
              \/ StartThread(t) \/ StopThread(t) \/ JoinThread(t) \/ ResumeThread(t)
              \/ StepIgnored(t) \/ OutOfTargets(t) \/ ThreadExit(t)
              \/ \E o \in Physics : StepFaults(t, o)
  PROVE  StatInv'
<1>1. /\ UNCHANGED <<status, taskQueue, total, tally, todo, loaded, state, target>>
      /\ InSession' => InSession
      /\ \A t \in Threads : pc'[t] = "store" => pc[t] = "store"
  BY ControlEffect, MoveEffect DEF InSession, results, grasp
<1>2. (Queued \cup Held)' = Queued \cup Held
  BY <1>1 DEF Queued, Held, Holding
<1>3. QED
  BY <1>1, <1>2, SameStatInv

(* A callback whose grasp goes on, or one that has no grasp.               *)
LEMMA StepGoesOn ==
  ASSUME IInv, CountInv, StatInv, NEW t \in Threads, NEW o \in Physics, Step(t, o),
         Stages(Before(t), o).stats = <<>>,
         Stages(Before(t), o).status = Before(t).status,
         Stages(Before(t), o).state = "NEW_GRASP" <=> ~Holding(t)
  PROVE  StatInv'
<1> DEFINE w == Stages(Before(t), o)
<1>1. status' = IF target[t] = NoTarget THEN status
                ELSE [status EXCEPT ![target[t]] = w.status]
  BY DEF Step
<1>2. target[t] # NoTarget => w.status = status[target[t]]
  BY DEF Before
<1>3. /\ w.stats = <<>> /\ (w.state = "NEW_GRASP" <=> ~Holding(t))
      /\ state'[t] = w.state
      /\ UNCHANGED <<taskQueue, total, tally, loaded, target>> /\ InSession
      /\ todo'[t] = <<>> /\ todo[t] = <<>> /\ pc'[t] # "store"
      /\ \A u \in Threads \ {t} :
           todo'[u] = todo[u] /\ pc'[u] = pc[u] /\ state'[u] = state[u]
  BY StepEffect
<1> HIDE DEF w
<1>4. status' = status
  BY <1>1, <1>2 DEF IInv, TypeOK
<1>5. todo' = todo
  <2>1. todo \in [Threads -> Seq(Counters)]
    BY DEF IInv, TypeOK
  <2>2. todo' = [todo EXCEPT ![t] = w.stats]
    BY DEF Step, w
  <2>3. QED
    BY <1>3, <2>1, <2>2
<1>6. \A u \in Threads : Holding(u)' <=> Holding(u)
  BY <1>3 DEF Holding
<1>7. Held' = Held /\ Queued' = Queued
  BY <1>3, <1>6 DEF Held, Queued
<1>8. \A u \in Threads : pc'[u] = "store" => pc[u] = "store"
  BY <1>3
<1>9. QED
  BY <1>3, <1>4, <1>5, <1>7, <1>8, SameStatInv

(* A thread becomes a debtor of the status that its target ends with.      *)
LEMMA FinishingStatInv ==
  ASSUME IInv, StatInv, InSession, NEW t \in Threads,
         NEW g \in Queued \cup Held, g \in Targets, NEW s \in Status,
         UNCHANGED <<total, tally, loaded>>, status' = [status EXCEPT ![g] = s],
         (Queued \cup Held)' = (Queued \cup Held) \ {g},
         todo[t] = <<>>, pc'[t] # "store",
         \A r \in Status : (Has(todo'[t], r) <=> r = s) /\ Once(todo'[t], r),
         \A u \in Threads \ {t} : todo'[u] = todo[u] /\ pc'[u] = pc[u]
  PROVE  StatInv'
<1>1. /\ Cardinality(Finished(s)') = Cardinality(Finished(s)) + 1
      /\ \A r \in Status \ {s} : Finished(r)' = Finished(r)
  BY FinishedGrows
<1>2. \A r \in Status : ~Has(todo[t], r) /\ r \in Counters
  BY DEF Has, Counters
<1>3. Balance(s, Cardinality(Finished(s)))'
  <2>1. PICK n \in Int : n = Cardinality(Finished(s))
    BY FinishedAreFinite
  <2>2. Balance(s, n)
    BY <2>1 DEF StatInv
  <2>3. Balance(s, n + 1)'
    BY <1>2, <2>2, OwingBalance
  <2>4. n + 1 = Cardinality(Finished(s)')
    BY <1>1, <2>1
  <2>5. QED
    BY <2>3, <2>4 DEF Balance
<1>4. ASSUME NEW r \in Status \ {s} PROVE Balance(r, Cardinality(Finished(r)))'
  <2>1. PICK n : n = Cardinality(Finished(r))
    OBVIOUS
  <2>2. Balance(r, n)
    BY <2>1 DEF StatInv
  <2>3. ~Has(todo[t], r) /\ ~Has(todo'[t], r)
    BY <1>2
  <2>4. Balance(r, n)'
    BY <2>2, <2>3, OtherBalance
  <2>5. n = Cardinality(Finished(r)')
    BY <1>1, <2>1
  <2>6. QED
    BY <2>4, <2>5 DEF Balance
<1>5. (Queued \cup Held)' \subseteq LoadedTargets'
  BY DEF StatInv, LoadedTargets
<1>6. \A u \in Threads, r \in Status : Once(todo'[u], r)
  BY DEF StatInv
<1>7. QED
  BY <1>3, <1>4, <1>5, <1>6 DEF StatInv

LEMMA StepStatInv ==
  ASSUME OneVerdict, SInv, NEW t \in Threads, NEW o \in Physics, Step(t, o)
  PROVE  StatInv'
<1> DEFINE b == Before(t)
           w == Stages(b, o)
<1>1. b \in Work /\ b.stats = <<>> /\ (b.state = "NEW_GRASP" <=> ~Holding(t))
  BY BeforeIsWork DEF SInv, IInv, Before, Holding
<1>2. /\ running[t] /\ pc[t] = "loop" /\ ~postStop[t]
      /\ target[t] = NoTarget => ~(o.wall /\ Tick(time[t]) > SimTimeLimit)
      /\ b.time = Tick(time[t])
  BY DEF Step, Busy, Before
<1>3. b.state # "NEW_GRASP" \/ ~LimitsExceeded(b, o)
  <2>1. CASE AllowResume
    BY <2>1 DEF LimitsExceeded, OneVerdict
  <2>2. CASE StepInv
    BY <1>1, <1>2, <2>2 DEF StepInv, LimitsExceeded
  <2>3. QED
    BY <2>1, <2>2 DEF SInv
<1> HIDE DEF b
<1>4. Clean(b, w)
  BY <1>1, <1>3, StagesClean
<1>5. CASE w.stats = b.stats /\ w.status = b.status
             /\ (w.state = "NEW_GRASP" <=> b.state = "NEW_GRASP")
  BY <1>1, <1>5, StepGoesOn DEF SInv, b
<1>6. CASE /\ b.state # "NEW_GRASP" /\ w.state = "NEW_GRASP"
           /\ w.status \in Verdicts /\ w.stats = Append(<<>>, w.status)
  <2>1. /\ target[t] \in Targets \ Queued /\ target[t] \in Held /\ target[t] # NoTarget
        /\ \A u \in Threads : Holding(u) /\ target[u] = target[t] => u = t
    BY <1>1, <1>6 DEF SInv, IInv, ExclusiveGrasp, Held, Targets, NoTarget
  <2>2. /\ todo'[t] = w.stats /\ state'[t] = w.state
        /\ UNCHANGED <<taskQueue, total, tally, loaded, target>> /\ InSession
        /\ todo[t] = <<>> /\ pc'[t] # "store"
        /\ \A u \in Threads \ {t} :
             todo'[u] = todo[u] /\ pc'[u] = pc[u] /\ state'[u] = state[u]
    BY StepEffect DEF SInv, b
  <2>3. status' = [status EXCEPT ![target[t]] = w.status]
    BY <2>1 DEF Step, b
  <2> HIDE DEF w
  <2>4. \A r \in Status : (Has(todo'[t], r) <=> r = w.status) /\ Once(todo'[t], r)
    BY <1>6, <2>2, PopHas
  <2>5. ~Holding(t)' /\ \A u \in Threads \ {t} : Holding(u)' <=> Holding(u)
    BY <1>6, <2>2 DEF Holding
  <2>6. Held' = Held \ {target[t]}
    BY <2>1, <2>2, <2>5 DEF Held
  <2>7. (Queued \cup Held)' = (Queued \cup Held) \ {target[t]}
    BY <2>1, <2>2, <2>6 DEF Queued
  <2>8. w.status \in Status
    BY <1>6 DEF Verdicts
  <2>9. QED
    BY <2>1, <2>2, <2>3, <2>4, <2>7, <2>8, FinishingStatInv DEF SInv
<1>7. QED
  BY <1>1, <1>4, <1>5, <1>6 DEF Clean

(* A pop: the target is through with the status it has or gets, or held.   *)
LEMMA PopStatInv ==
  ASSUME SInv, NEW t \in Threads,
         \/ SkipTarget(t) \/ BeginGrasp(t)
         \/ \E s \in {"CollisionObjectInitially", "CollisionEnvironmentInitially"} :
              RejectTarget(t, s)
  PROVE  StatInv'
<1>1. /\ taskQueue # <<>> /\ taskQueue' = Tail(taskQueue)
      /\ UNCHANGED <<total, tally, loaded>>
      /\ InSession /\ pc[t] = "next" /\ todo[t] = <<>>
      /\ pc'[t] = "load" /\ target'[t] = Top
      /\ \A u \in Threads \ {t} : /\ todo'[u] = todo[u] /\ pc'[u] = pc[u]
                                  /\ state'[u] = state[u] /\ target'[u] = target[u]
  BY PopEffect DEF SInv
<1>2. Top \in Targets /\ Top \in Queued /\ Queued' = Queued \ {Top}
  <2>1. taskQueue \in Seq(Targets)
    BY DEF SInv, IInv, TypeOK
  <2>2. Top \in Queued
    BY <1>1, <2>1 DEF Top, Queued, Range
  <2>3. QED
    BY <1>1, <2>2, PopTop DEF SInv, IInv
<1>3. ~Holding(t) /\ \A u \in Threads : Holding(u) => target[u] # Top
  BY <1>1, <1>2 DEF Holding, SInv, IInv, PhaseInv, ExclusiveGrasp
<1>4. CASE /\ todo'[t] = Append(<<>>, NrOfExperiments)
           /\ status' = status /\ state'[t] = "APPROACH"
  <2>1. \A r \in Status : ~Has(todo[t], r) /\ ~Has(todo'[t], r) /\ Once(todo'[t], r)
    <3> SUFFICES ASSUME NEW r \in Status
                 PROVE  ~Has(todo[t], r) /\ ~Has(todo'[t], r) /\ Once(todo'[t], r)
      OBVIOUS
    <3>1. r # NrOfExperiments
      BY StatusIsNoCount
    <3>2. /\ Has(Append(<<>>, NrOfExperiments), r) <=> r = NrOfExperiments
          /\ Once(Append(<<>>, NrOfExperiments), r)
      BY PopHas
    <3>3. ~Has(<<>>, r)
      BY DEF Has
    <3>4. QED
      BY <1>1, <1>4, <3>1, <3>2, <3>3
  <2>2. Holding(t)' /\ \A u \in Threads \ {t} : Holding(u)' <=> Holding(u)
    BY <1>1, <1>4 DEF Holding
  <2>3. Held' = Held \cup {Top}
    BY <1>1, <1>3, <2>2 DEF Held
  <2>4. (Queued \cup Held)' = Queued \cup Held
    BY <1>2, <2>3
  <2>5. ASSUME NEW s \in Status PROVE Balance(s, Cardinality(Finished(s)))'
    <3>1. PICK n : n = Cardinality(Finished(s))
      OBVIOUS
    <3>2. Balance(s, n)
      BY <1>1, <3>1 DEF SInv, StatInv
    <3>3. Balance(s, n)'
      BY <1>1, <2>1, <3>2, OtherBalance
    <3>4. Finished(s)' = Finished(s)
      BY <1>1, <1>4, <2>4 DEF Finished, LoadedTargets
    <3>5. n = Cardinality(Finished(s)')
      BY <3>1, <3>4
    <3>6. QED
      BY <3>3, <3>5 DEF Balance
  <2>6. \A u \in Threads, r \in Status : Once(todo'[u], r)
    BY <1>1, <2>1 DEF SInv, StatInv
  <2>7. QED
    BY <1>1, <2>4, <2>5, <2>6 DEF SInv, StatInv, LoadedTargets
<1>5. ASSUME NEW s \in Status, todo'[t] = Append(<<s>>, NrOfExperiments),
             status' = [status EXCEPT ![Top] = s], state'[t] = state[t]
      PROVE  StatInv'
  <2>1. s # NrOfExperiments /\ \A r \in Status : r # NrOfExperiments
    BY StatusIsNoCount
  <2>2. \A r \in Status : (Has(todo'[t], r) <=> r = s) /\ Once(todo'[t], r)
    <3> SUFFICES ASSUME NEW r \in Status
                 PROVE  (Has(todo'[t], r) <=> r = s) /\ Once(todo'[t], r)
      OBVIOUS
    <3>1. /\ Has(Append(<<s>>, NrOfExperiments), r) <=> r \in {s, NrOfExperiments}
          /\ Once(Append(<<s>>, NrOfExperiments), r)
      BY <2>1, PopHas
    <3>2. QED
      BY <1>5, <2>1, <3>1
  <2>3. ~Holding(t)' /\ \A u \in Threads \ {t} : Holding(u)' <=> Holding(u)
    BY <1>1, <1>3, <1>5 DEF Holding
  <2>4. Held' = Held
    BY <1>1, <1>3, <2>3 DEF Held
  <2>5. (Queued \cup Held)' = (Queued \cup Held) \ {Top}
    BY <1>2, <1>3, <2>4 DEF Held
  <2>6. pc'[t] # "store"
    BY <1>1
  <2>7. QED
    BY <1>1, <1>2, <1>5, <2>2, <2>5, <2>6, FinishingStatInv DEF SInv
<1>6. QED
  BY <1>4, <1>5, PopEffect DEF SInv

LEMMA IncrementStatInv ==
  ASSUME SInv, NEW t \in Threads, TallyLoad(t) \/ TallyStore(t)
  PROVE  StatInv'
<1>1. UNCHANGED <<status, taskQueue, total, state, target, caller>> /\ InSession
  BY BusySession DEF TallyLoad, TallyStore, Busy, SInv, CountInv, results, queue, grasp, control
<1>2. \A s : Finished(s)' = Finished(s)
  BY <1>1 DEF Finished, LoadedTargets, Queued, Held, Holding
<1>3. ASSUME NEW s \in Status PROVE Balance(s, Cardinality(Finished(s)))'
  <2>1. PICK n \in Int : n = Cardinality(Finished(s))
    BY FinishedAreFinite DEF SInv
  <2>2. s \in Counters /\ Balance(s, n) /\ Once(todo[t], s)
    BY <1>1, <2>1 DEF Counters, SInv, StatInv
  <2>3. Balance(s, n)'
    BY <2>2, LoadingBalance, StoringBalance DEF SInv
  <2>4. n = Cardinality(Finished(s)')
    BY <1>2, <2>1
  <2>5. QED
    BY <2>3, <2>4 DEF Balance
<1>4. \A u \in Threads, s \in Status : Once(todo'[u], s)
  <2>1. CASE TallyLoad(t)
    BY <2>1 DEF TallyLoad, SInv, StatInv
  <2>2. CASE TallyStore(t)
    <3>1. /\ todo[t] \in Seq(Counters) /\ todo[t] # <<>> /\ todo'[t] = Tail(todo[t])
          /\ \A u \in Threads \ {t} : todo'[u] = todo[u]
      BY <2>2, StoreEffect DEF SInv
    <3>2. \A s \in Status : Once(todo'[t], s)
      BY <3>1, TailHas DEF SInv, StatInv
    <3>3. QED
      BY <3>1, <3>2 DEF SInv, StatInv
  <2>3. QED
    BY <2>1, <2>2
<1>5. (Queued \cup Held)' \subseteq LoadedTargets'
  BY <1>1 DEF SInv, StatInv, Queued, Held, Holding, LoadedTargets
<1>6. QED
  BY <1>3, <1>4, <1>5 DEF StatInv

LEMMA NextStatInv == OneVerdict /\ SInv /\ [Next]_vars => StatInv'
<1> SUFFICES ASSUME OneVerdict, SInv, [Next]_vars PROVE StatInv'
  OBVIOUS
<1>1. CASE \E n \in LoadSizes : LoadAnew(n) \/ \E clear \in BOOLEAN : Load(n, clear)
  BY <1>1, LoadStatInv DEF SInv
<1>2. CASE Pause \/ Resume \/ CallerWorks
  BY <1>2, StartStatInv, StartEmptyStatInv, QuietStatInv DEF CallerWorks, SInv
<1>3. ASSUME NEW t \in Threads, Thread(t) PROVE StatInv'
  <2>1. CASE \/ StepIgnored(t) \/ OutOfTargets(t) \/ ThreadExit(t)
             \/ \E o \in Physics : StepFaults(t, o)
    BY <2>1, QuietStatInv DEF SInv
  <2>2. CASE \E o \in Physics : Step(t, o)
    BY <2>2, StepStatInv
  <2>3. CASE TallyLoad(t) \/ TallyStore(t)
    BY <2>3, IncrementStatInv
  <2>4. CASE \/ SkipTarget(t) \/ BeginGrasp(t)
             \/ \E s \in {"CollisionObjectInitially", "CollisionEnvironmentInitially"} :
                  RejectTarget(t, s)
    BY <2>4, PopStatInv
  <2>5. QED
    BY <1>3, <2>1, <2>2, <2>3, <2>4 DEF Thread
<1>4. CASE UNCHANGED vars
  <2>1. UNCHANGED <<status, taskQueue, total, tally, todo, loaded, pc, state, target, caller>>
    BY <1>4 DEF vars, results, queue, counters, grasp, threads, control
  <2>2. (Queued \cup Held)' = Queued \cup Held /\ (InSession' => InSession)
    BY <2>1 DEF Queued, Held, Holding, InSession
  <2>3. QED
    BY <2>1, <2>2, SameStatInv DEF SInv
<1>5. QED
  BY <1>1, <1>2, <1>3, <1>4 DEF Next

LEMMA ReachableSInv == OneVerdict => (Safety => []SInv)
<1> SUFFICES ASSUME OneVerdict PROVE Safety => []SInv
  OBVIOUS
<1>1. IInv /\ CountInv /\ StatInv /\ (AllowResume \/ StepInv) <=> SInv
  BY DEF SInv
<1>2. Init => CountInv /\ StatInv
  BY InitCountInv, InitStatInv
<1>3. IInv /\ CountInv /\ StatInv /\ (AllowResume \/ StepInv) /\ [Next]_vars
        => CountInv' /\ StatInv'
  BY NextCountInv, NextStatInv DEF SInv
<1>4. CASE AllowResume
  <2>1. IInv /\ CountInv /\ StatInv /\ [Next]_vars => CountInv' /\ StatInv'
    BY <1>3, <1>4
  <2>2. IInv /\ CountInv /\ StatInv => SInv
    BY <1>1, <1>4
  <2>3. QED
    BY <1>2, <2>1, <2>2, Invariant, PTL DEF Safety
<1>5. CASE ~AllowResume
  <2>1. Safety => []RInv
    BY <1>5, ReachableRInv
  <2>2. RInv /\ CountInv /\ StatInv /\ [Next]_vars => CountInv' /\ StatInv'
    BY <1>3 DEF RInv
  <2>3. RInv /\ CountInv /\ StatInv => SInv
    BY <1>1 DEF RInv
  <2>4. QED
    BY <1>2, <2>1, <2>2, <2>3, PTL DEF Safety
<1>6. QED
  BY <1>4, <1>5

(* With any number of threads, the unprotected increments of _stat only    *)
(* ever lose counts, as long as each callback decides a grasp once and as  *)
(* it counts it: no status is counted more often than targets have it.     *)
THEOREM StatsNeverRunAhead == OneVerdict => (Safety => []StatsNeverOvercount)
<1>1. SInv => StatsNeverOvercount
  <2> SUFFICES ASSUME SInv, InSession, NEW s \in Status
               PROVE  tally[s] <= Cardinality({g \in LoadedTargets : status[g] = s})
    BY DEF StatsNeverOvercount, InSession
  <2> DEFINE all == {g \in LoadedTargets : status[g] = s}
  <2>1. IsFiniteSet(1 .. total)
    BY CountTyped, FS_Interval DEF SInv
  <2>2. IsFiniteSet(all) /\ Cardinality(all) \in Nat
    BY <2>1, FS_Subset, FS_CardinalityType DEF LoadedTargets
  <2>3. Finished(s) \subseteq all
    BY DEF Finished
  <2>4. Cardinality(Finished(s)) <= Cardinality(all)
    BY <2>2, <2>3, FS_Subset
  <2>5. tally[s] + Cardinality(Debtors(s)) <= Cardinality(Finished(s))
    BY DEF SInv, StatInv, Balance
  <2>6. tally[s] \in Nat /\ Cardinality(Debtors(s)) \in Nat /\ Cardinality(Finished(s)) \in Nat
    BY CountTyped, DebtorsAreFinite, FinishedAreFinite DEF SInv, Counters
  <2> HIDE DEF all
  <2>7. tally[s] <= Cardinality(all)
    BY <2>2, <2>4, <2>5, <2>6
  <2>8. QED
    BY <2>7 DEF all
<1>2. QED
  BY <1>1, ReachableSInv, PTL

(* With one thread nothing is lost: at the end of a run the statistics and *)
(* the statuses of the targets tell the same story, however many targets,  *)
(* loads, skipped and rejected targets, and time limits there were.        *)
THEOREM StatsAreExact == OneThread /\ OneVerdict => (Safety => []StatsMatchResults)
<1> SUFFICES ASSUME OneThread, OneVerdict PROVE Safety => []StatsMatchResults
  OBVIOUS
<1>1. SInv => StatsMatchResults
  <2> SUFFICES ASSUME SInv, caller.op = "done"
               PROVE  /\ tally[NrOfExperiments] = total
                      /\ total # 0 => \A s \in Status :
                           tally[s] = Cardinality({g \in LoadedTargets : status[g] = s})
    BY DEF StatsMatchResults, CallerIn
  <2>1. \A t \in Threads : ~Holding(t) /\ todo[t] = <<>>
    BY DEF SInv, IInv, ControlInv, CountInv, DebtInv
  <2>2. taskQueue = <<>>
    BY DEF SInv, IInv, ControlInv
  <2>3. ASSUME NEW c PROVE Cardinality(Debtors(c)) = 0
    <3>1. Debtors(c) = {}
      BY <2>1 DEF Debtors, Has
    <3>2. QED
      BY <3>1, FS_EmptySet
  <2>4. ASSUME NEW c \in Counters, NEW n \in Nat, Balance(c, n) PROVE tally[c] = n
    <3>1. tally[c] \in Nat /\ tally[c] + 0 = n
      BY <2>3, <2>4, CountTyped DEF Balance, SInv
    <3>2. QED
      BY <3>1
  <2>5. total = 0 => tally[NrOfExperiments] = 0
    BY DEF SInv, CountInv, LoadedInv
  <2>6. Popped = total /\ total \in Nat
    <3>1. Len(taskQueue) = 0
      BY <2>2
    <3>2. QED
      BY <3>1, CountTyped DEF Popped, SInv
  <2>7. InSession => tally[NrOfExperiments] = total
    BY <2>4, <2>6, CountTyped DEF SInv, CountInv
  <2>8. Queued = {} /\ Held = {}
    BY <2>1, <2>2 DEF Queued, Held, Range
  <2>9. ASSUME InSession, NEW s \in Status
        PROVE  tally[s] = Cardinality({g \in LoadedTargets : status[g] = s})
    <3>1. Finished(s) = {g \in LoadedTargets : status[g] = s}
      BY <2>8 DEF Finished
    <3>2. tally[s] = Cardinality(Finished(s))
      BY <2>4, <2>9, FinishedAreFinite DEF SInv, StatInv, Counters
    <3>3. QED
      BY <3>1, <3>2
  <2>10. QED
    BY <2>5, <2>7, <2>9 DEF InSession
<1>2. QED
  BY <1>1, ReachableSInv, PTL
=============================================================================
