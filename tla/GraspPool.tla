------------------------------ MODULE GraspPool ------------------------------
(***************************************************************************)
(* What the grasp simulator promises its clients: a session is a pool of   *)
(* targets; a target leaves the pool once, either because it has a result  *)
(* already, or because its start pose is rejected, or to be simulated, and *)
(* a target that is simulated gets one result.  Threads, phases, locks and *)
(* counters do not appear.                                                 *)
(***************************************************************************)
CONSTANTS
  Targets,      \* all the targets
  Results,      \* the results a target can get
  Kept,         \* the results that are kept when a session starts from cleared results
  Redo          \* are targets that have a result simulated again?

\* No result yet.
None == "UnInitialized"

VARIABLES
  result,       \* result[g]
  pool,         \* targets of the session that wait
  held          \* targets being simulated

poolVars == <<result, pool, held>>

PoolTypeOK ==
  /\ result \in [Targets -> Results \cup {None}]
  /\ pool \subseteq Targets
  /\ held \subseteq Targets

Init ==
  /\ result \in [Targets -> Results \cup {None}]
  /\ pool = {}
  /\ held = {}

\* A new session: what an earlier one left unfinished is abandoned.
Fill(S) ==
  /\ pool' = S
  /\ held' = {}
  /\ result' \in {result,
                  [g \in Targets |-> IF result[g] \in Kept THEN result[g] ELSE None]}

Undecided(g) == Redo \/ result[g] = None

Skip(g) ==
  /\ g \in pool /\ ~Undecided(g)
  /\ pool' = pool \ {g}
  /\ UNCHANGED <<result, held>>

Reject(g, r) ==
  /\ g \in pool /\ Undecided(g)
  /\ pool' = pool \ {g}
  /\ result' = [result EXCEPT ![g] = r]
  /\ UNCHANGED held

Take(g) ==
  /\ g \in pool /\ Undecided(g)
  /\ pool' = pool \ {g}
  /\ held' = held \cup {g}
  /\ UNCHANGED result

Decide(g, r) ==
  /\ g \in held
  /\ held' = held \ {g}
  /\ result' = [result EXCEPT ![g] = r]
  /\ UNCHANGED pool

Next ==
  \/ \E S \in SUBSET Targets : Fill(S)
  \/ \E g \in Targets : Skip(g) \/ Take(g)
  \/ \E g \in Targets, r \in Results : Reject(g, r) \/ Decide(g, r)

Spec == Init /\ [][Next]_poolVars
=============================================================================
