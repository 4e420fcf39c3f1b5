----------------------- MODULE RobustEvaluationProofs -----------------------
(***************************************************************************)
(* For every set of grippers and every number of tries: the results file   *)
(* never makes one gripper's quality pass for another's, and an evaluation *)
(* that leaves no file is tried to the limit.                              *)
(***************************************************************************)
EXTENDS RobustEvaluation, TLAPS

(* The program the manager waits for belongs to the call; an orphan was    *)
(* started for some gripper as well.                                       *)
ChildInv ==
  /\ Alive("child") => at = "system" /\ of["child"] = asked
  /\ Alive("orphan") => of["orphan"] \in Grippers

CallInv ==
  at # "idle" => /\ asked \in OldGrippers
                 /\ outcome.kind = "none"
                 /\ ~beside => file \in {asked, NoGripper}

(* A call that no orphan was beside keeps the file to itself, also after   *)
(* it has ended.                                                           *)
AloneInv ==
  ~beside /\ asked \in OldGrippers /\ (at # "idle" \/ outcome.kind # "none")
    => ~Alive("orphan")

(* Why the loop was left.                                                  *)
LoopInv ==
  /\ at \in {"try", "system", "judge"} => tries <= NTries
  /\ at = "read" => FileExists \/ Interrupted \/ tries = NTries + 1

IInv == /\ TypeOK /\ ChildInv /\ CallInv /\ AloneInv /\ LoopInv
        /\ OwnResult /\ NoResultAfterInterrupt /\ TriedToTheLimit

LEMMA InitIInv == Init => IInv
<1> SUFFICES ASSUME Init PROVE IInv
  OBVIOUS
<1>1. TypeOK
  <2>1. outcome \in [kind : {"none", "threw", "returned"}, of : Grippers \cup {NoGripper}]
    BY DEF Init
  <2>2. of \in [Programs -> Grippers \cup {NoGripper}] /\ stage \in [Programs -> Stages]
    BY DEF Init, Programs, Stages
  <2>3. whole \in BOOLEAN /\ beside \in BOOLEAN
    BY DEF Init
  <2>4. QED
    BY <2>1, <2>2, <2>3, RobustAssumption DEF Init, TypeOK, ReturnCode
<1>2. ~Alive("child") /\ ~Alive("orphan") /\ at = "idle" /\ outcome.kind = "none"
  BY DEF Init, Alive, Programs
<1>3. QED
  BY <1>1, <1>2 DEF IInv, ChildInv, CallInv, AloneInv, LoopInv, OwnResult,
     NoResultAfterInterrupt, TriedToTheLimit

LEMMA TypePreserved == TypeOK /\ LoopInv /\ [Next]_vars => TypeOK'
<1> SUFFICES ASSUME TypeOK, LoopInv, [Next]_vars PROVE TypeOK'
  OBVIOUS
<1> USE RobustAssumption DEF TypeOK, ReturnCode, Programs, Stages, results, programs, call
<1>1. ASSUME NEW g \in Grippers, Call(g) \/ Refuse(g) PROVE TypeOK'
  <2>1. CASE Refuse(g)
    BY <2>1 DEF Refuse
  <2>2. CASE Call(g)
    <3>1. beside' \in BOOLEAN
      BY <2>2, Zenon DEF Call
    <3>2. stage' \in [Programs -> Stages] /\ whole' \in BOOLEAN
      BY <2>2 DEF Call, RemoveFile
    <3>3. outcome' \in [kind : {"none", "threw", "returned"}, of : Grippers \cup {NoGripper}]
      BY <2>2 DEF Call
    <3>4. /\ file' = NoGripper /\ at' = "try" /\ asked' = g /\ tries' = 0
          /\ code' = "FailReturnCode" /\ of' = of /\ calls' = calls + 1 /\ kills' = kills
      BY <2>2 DEF Call, RemoveFile
    <3>5. QED
      BY <3>1, <3>2, <3>3, <3>4
  <2>3. QED
    BY <1>1, <2>1, <2>2
<1>2. CASE Execute \/ NoProcess
  BY <1>2 DEF Execute, NoProcess
<1>3. CASE Stop \/ Retry \/ GiveUp
  BY <1>3 DEF Stop, Retry, GiveUp, MoreTries, LoopInv
<1>4. CASE Return
  BY <1>4 DEF Return, Throws, FileExists
<1>5. ASSUME NEW p \in Programs, Open(p) \/ Save(p) PROVE TypeOK'
  <2>1. whole' \in BOOLEAN
    <3>1. CASE Open(p)
      BY <3>1 DEF Open
    <3>2. CASE Save(p)
      BY <3>2 DEF Save
    <3>3. QED
      BY <1>5, <3>1, <3>2
  <2>2. /\ file' = of[p] /\ stage' \in [Programs -> Stages]
        /\ UNCHANGED <<of, call, calls, kills>>
    BY <1>5 DEF Open, Save
  <2>3. QED
    BY <2>1, <2>2
<1>6. ASSUME NEW p \in Programs, NEW c \in ReturnCode, Ends(p, c) PROVE TypeOK'
  BY <1>6 DEF Ends
<1>7. CASE Kill
  BY <1>7 DEF Kill
<1>8. CASE UNCHANGED vars
  BY <1>8 DEF vars
<1>9. QED
  BY <1>1, <1>2, <1>3, <1>4, <1>5, <1>6, <1>7, <1>8
  DEF Next, Manager, Program, Exit, CrashOf, Interrupt

(* A program that opens or saves the file puts its own gripper there.      *)
LEMMA FileKept ==
  ASSUME IInv, NEW p \in Programs, Alive(p), file' = of[p], UNCHANGED <<of, call>>,
         \A q \in Programs : Alive(q)' => Alive(q)
  PROVE  /\ ChildInv' /\ CallInv' /\ AloneInv' /\ LoopInv'
         /\ OwnResult' /\ NoResultAfterInterrupt' /\ TriedToTheLimit'
<1> USE RobustAssumption
    DEF IInv, TypeOK, Programs, Stages, ReturnCode, call
<1>1. ChildInv'
  BY DEF ChildInv, Alive
<1>2. CallInv' /\ AloneInv'
  <2>1. CASE p = "child"
    BY <2>1 DEF ChildInv, CallInv, AloneInv, Alive
  <2>2. CASE p = "orphan"
    BY <2>2 DEF ChildInv, CallInv, AloneInv, Alive
  <2>3. QED
    BY <2>1, <2>2
<1>3. FileExists'
  <2>1. CASE p = "child"
    BY <2>1 DEF ChildInv, CallInv, FileExists
  <2>2. CASE p = "orphan"
    BY <2>2 DEF ChildInv, FileExists
  <2>3. QED
    BY <2>1, <2>2
<1>4. LoopInv'
  BY <1>3 DEF LoopInv, Interrupted
<1>5. OwnResult' /\ NoResultAfterInterrupt'
  BY DEF OwnResult, NoResultAfterInterrupt, Interrupted
<1>6. TriedToTheLimit'
  <2>1. CASE p = "child"
    BY <2>1 DEF TriedToTheLimit, ChildInv, CallInv, Alive
  <2>2. CASE p = "orphan"
    BY <2>2 DEF TriedToTheLimit, AloneInv, Alive
  <2>3. QED
    BY <2>1, <2>2
<1>7. QED
  BY <1>1, <1>2, <1>4, <1>5, <1>6

LEMMA IInvPreserved == IInv /\ [Next]_vars => IInv'
<1> SUFFICES ASSUME IInv, [Next]_vars PROVE IInv'
  OBVIOUS
<1>1. TypeOK'
  BY TypePreserved DEF IInv
<1> DEFINE Rest == /\ ChildInv /\ CallInv /\ AloneInv /\ LoopInv
                   /\ OwnResult /\ NoResultAfterInterrupt /\ TriedToTheLimit
<1> USE RobustAssumption
    DEF IInv, TypeOK, ChildInv, CallInv, AloneInv, LoopInv, OwnResult,
        NoResultAfterInterrupt, TriedToTheLimit, Alive, FileExists, Interrupted,
        Programs, Stages, ReturnCode, results, programs, call
<1>2. ASSUME NEW g \in Grippers, Call(g) PROVE Rest'
  <2>1. ~beside' => stage["orphan"] # "computing"
    BY <1>2, Zenon DEF Call
  <2>2. QED
    BY <1>2, <2>1 DEF Call, RemoveFile
<1>3. ASSUME NEW g \in Grippers, Refuse(g) PROVE Rest'
  BY <1>3 DEF Refuse
<1>4. CASE Execute
  BY <1>4 DEF Execute
<1>5. CASE NoProcess
  BY <1>5 DEF NoProcess
<1>6. CASE Stop
  BY <1>6 DEF Stop
<1>7. CASE Retry
  BY <1>7 DEF Retry, MoreTries
<1>8. CASE GiveUp
  BY <1>8 DEF GiveUp, MoreTries
<1>9. CASE Return
  BY <1>9 DEF Return, Throws
<1>10. ASSUME NEW p \in Programs, Open(p) PROVE Rest'
  <2>1. /\ Alive(p) /\ file' = of[p] /\ UNCHANGED <<of, call>>
        /\ \A q \in Programs : Alive(q)' => Alive(q)
    BY <1>10 DEF Open
  <2>2. QED
    BY <2>1, FileKept
<1>11. ASSUME NEW p \in Programs, Save(p) PROVE Rest'
  <2>1. /\ Alive(p) /\ file' = of[p] /\ UNCHANGED <<of, call>>
        /\ \A q \in Programs : Alive(q)' => Alive(q)
    BY <1>11 DEF Save
  <2>2. QED
    BY <2>1, FileKept
<1>12. ASSUME NEW p \in Programs, NEW c \in ReturnCode, Alive(p), Ends(p, c) PROVE Rest'
  <2>1. CASE p = "child"
    <3>1. /\ at = "system" /\ at' = "judge" /\ code' = c
          /\ stage' = [stage EXCEPT !["child"] = "gone"]
          /\ UNCHANGED <<results, of, asked, tries, beside, outcome>>
      BY <1>12, <2>1 DEF Ends
    <3>2. QED
      BY <3>1
  <2>2. CASE p = "orphan"
    <3>1. /\ stage' = [stage EXCEPT !["orphan"] = "gone"]
          /\ UNCHANGED <<results, of, at, asked, tries, code, beside, outcome>>
      BY <1>12, <2>2 DEF Ends
    <3>2. QED
      BY <3>1
  <2>3. QED
    BY <2>1, <2>2
<1>13. CASE Kill
  BY <1>13 DEF Kill
<1>14. CASE UNCHANGED vars
  BY <1>14 DEF vars
<1>15. Rest'
  BY <1>2, <1>3, <1>4, <1>5, <1>6, <1>7, <1>8, <1>9, <1>10, <1>11, <1>12, <1>13, <1>14
  DEF Next, Manager, Program, Exit, CrashOf, Interrupt
<1>16. QED
  BY <1>1, <1>15

(* The inductive invariant holds in every reachable state.                 *)
THEOREM Invariant == Safety => []IInv
<1>1. Init => IInv
  BY InitIInv
<1>2. IInv /\ [Next]_vars => IInv'
  BY IInvPreserved
<1>3. QED
  BY <1>1, <1>2, PTL DEF Safety

(* The counter of tries never goes more than one past _ntries, and the     *)
(* file, the programs and the outcome name no gripper but those asked for. *)
THEOREM TypeCorrect == Safety => []TypeOK
<1>1. IInv => TypeOK
  BY DEF IInv
<1>2. QED
  BY <1>1, Invariant, PTL

(* evaluateGripper returns the quality of the gripper it was given, if no  *)
(* orphan of an earlier manager was beside it: a crash at any moment, any  *)
(* number of tries and a stale file change nothing.                        *)
THEOREM ReturnsOwnResult == Safety => []OwnResult
<1>1. IInv => OwnResult
  BY DEF IInv
<1>2. QED
  BY <1>1, Invariant, PTL

(* Ctrl+C never counts as a result, whatever the program has saved.        *)
THEOREM InterruptIsNoResult == Safety => []NoResultAfterInterrupt
<1>1. IInv => NoResultAfterInterrupt
  BY DEF IInv
<1>2. QED
  BY <1>1, Invariant, PTL

(* evaluateGripper gives up on a program that leaves no results file only  *)
(* when it is interrupted or has used its tries.                           *)
THEOREM FailuresUseTheTries == Safety => []TriedToTheLimit
<1>1. IInv => TriedToTheLimit
  BY DEF IInv
<1>2. QED
  BY <1>1, Invariant, PTL

-----------------------------------------------------------------------------
(* What an evaluation has left in each place; no two cases of Left overlap. *)
LEMMA LeftAt ==
  /\ at = "idle" => Left = 0
  /\ at = "read" => Left = 1
  /\ at = "judge" => Left = 6 * (NTries + 1 - tries) + 2
  /\ at = "system" => Left = 6 * (NTries + 1 - tries) + 2 + StagesLeft
  /\ at = "try" => Left = 6 * (NTries + 1 - tries) + 6
<1>1. at = "idle" => Left = 0
  BY DEF Left
<1>2. at = "read" => Left = 1
  BY DEF Left
<1>3. at = "judge" => Left = 6 * (NTries + 1 - tries) + 2
  BY DEF Left
<1>4. at = "system" => Left = 6 * (NTries + 1 - tries) + 2 + StagesLeft
  BY DEF Left
<1>5. at = "try" => Left = 6 * (NTries + 1 - tries) + 6
  BY DEF Left
<1>6. QED
  BY <1>1, <1>2, <1>3, <1>4, <1>5

LEMMA LeftAtNext ==
  /\ at' = "idle" => Left' = 0
  /\ at' = "read" => Left' = 1
  /\ at' = "judge" => Left' = 6 * (NTries + 1 - tries') + 2
  /\ at' = "system" => Left' = 6 * (NTries + 1 - tries') + 2 + StagesLeft'
  /\ at' = "try" => Left' = 6 * (NTries + 1 - tries') + 6
<1>1. at' = "idle" => Left' = 0
  BY DEF Left
<1>2. at' = "read" => Left' = 1
  BY DEF Left
<1>3. at' = "judge" => Left' = 6 * (NTries + 1 - tries') + 2
  BY DEF Left
<1>4. at' = "system" => Left' = 6 * (NTries + 1 - tries') + 2 + StagesLeft'
  BY DEF Left
<1>5. at' = "try" => Left' = 6 * (NTries + 1 - tries') + 6
  BY DEF Left
<1>6. QED
  BY <1>1, <1>2, <1>3, <1>4, <1>5

LEMMA StagesLeftTyped ==
  ASSUME TypeOK
  PROVE  StagesLeft \in 0 .. 3 /\ (Alive("child") => StagesLeft > 0)
<1>1. stage["child"] \in Stages
  BY DEF TypeOK, Programs
<1>2. CASE stage["child"] = "computing"
  BY <1>2 DEF StagesLeft, Alive
<1>3. CASE stage["child"] = "writing"
  BY <1>3 DEF StagesLeft, Alive
<1>4. CASE stage["child"] = "saved"
  BY <1>4 DEF StagesLeft, Alive
<1>5. CASE stage["child"] = "gone"
  BY <1>5 DEF StagesLeft, Alive
<1>6. QED
  BY <1>1, <1>2, <1>3, <1>4, <1>5 DEF Stages

(* The steps left are a number, and nothing is left of an evaluation only  *)
(* when it has ended: the number cannot go down for ever.                  *)
LEMMA LeftTyped ==
  ASSUME IInv
  PROVE  Left \in 0 .. 6 * (NTries + 2) /\ (Left = 0 => at = "idle")
<1>1. /\ at \in {"idle", "try", "system", "judge", "read"} /\ tries \in 0 .. NTries + 1
      /\ at \in {"try", "system", "judge"} => tries <= NTries
  BY DEF IInv, TypeOK, LoopInv
<1>2. StagesLeft \in 0 .. 3
  BY StagesLeftTyped DEF IInv
<1>3. QED
  BY <1>1, <1>2, LeftAt, RobustAssumption

(* The manager's steps.                                                    *)
LEMMA ManagerGoesOn ==
  ASSUME IInv, Manager
  PROVE  Left' < Left
<1> USE RobustAssumption
<1>1. /\ tries \in Nat
      /\ at \in {"try", "system", "judge"} => tries <= NTries
  BY DEF IInv, TypeOK, LoopInv
<1>2. CASE Execute
  <2>1. StagesLeft' = 3
    <3>1. stage'["child"] = "computing"
      BY <1>2 DEF Execute, IInv, TypeOK, Programs
    <3>2. QED
      BY <3>1 DEF StagesLeft
  <2>2. at = "try" /\ at' = "system" /\ tries' = tries
    BY <1>2 DEF Execute
  <2>3. QED
    BY <1>1, <2>1, <2>2, LeftAt, LeftAtNext
<1>3. CASE NoProcess
  <2>1. at = "try" /\ at' = "judge" /\ tries' = tries
    BY <1>3 DEF NoProcess
  <2>2. QED
    BY <1>1, <2>1, LeftAt, LeftAtNext
<1>4. CASE Stop \/ GiveUp
  <2>1. at = "judge" /\ at' = "read"
    BY <1>4 DEF Stop, GiveUp
  <2>2. QED
    BY <1>1, <2>1, LeftAt, LeftAtNext
<1>5. CASE Retry
  <2>1. at = "judge" /\ at' = "try" /\ tries' = tries + 1
    BY <1>5 DEF Retry
  <2>2. QED
    BY <1>1, <2>1, LeftAt, LeftAtNext
<1>6. CASE Return
  <2>1. at = "read" /\ at' = "idle"
    BY <1>6 DEF Return
  <2>2. QED
    BY <2>1, LeftAt, LeftAtNext
<1>7. QED
  BY <1>2, <1>3, <1>4, <1>5, <1>6 DEF Manager

(* The program's own steps, while the manager waits for it.                *)
LEMMA ChildGoesOn ==
  ASSUME IInv, Program("child") \/ Interrupt
  PROVE  Left' < Left
<1> USE RobustAssumption
<1>1. /\ Alive("child") => at = "system"
      /\ tries \in Nat /\ stage \in [Programs -> Stages] /\ "child" \in Programs
  BY DEF IInv, TypeOK, ChildInv, Programs
<1>2. CASE Open("child")
  <2>1. StagesLeft = 3 /\ StagesLeft' = 2
    <3>1. stage["child"] = "computing" /\ stage'["child"] = "writing"
      BY <1>1, <1>2 DEF Open
    <3>2. QED
      BY <3>1 DEF StagesLeft
  <2>2. at = "system" /\ at' = "system" /\ tries' = tries
    BY <1>1, <1>2 DEF Open, Alive, call
  <2>3. QED
    BY <1>1, <2>1, <2>2, LeftAt, LeftAtNext
<1>3. CASE Save("child")
  <2>1. StagesLeft = 2 /\ StagesLeft' = 1
    <3>1. stage["child"] = "writing" /\ stage'["child"] = "saved"
      BY <1>1, <1>3 DEF Save
    <3>2. QED
      BY <3>1 DEF StagesLeft
  <2>2. at = "system" /\ at' = "system" /\ tries' = tries
    BY <1>1, <1>3 DEF Save, Alive, call
  <2>3. QED
    BY <1>1, <2>1, <2>2, LeftAt, LeftAtNext
<1>4. ASSUME NEW c, Alive("child"), Ends("child", c) PROVE Left' < Left
  <2>1. at = "system" /\ at' = "judge" /\ tries' = tries
    BY <1>1, <1>4 DEF Ends
  <2>2. StagesLeft \in 1 .. 3
    BY <1>4, StagesLeftTyped DEF IInv
  <2>3. QED
    BY <1>1, <2>1, <2>2, LeftAt, LeftAtNext
<1>5. Exit("child") \/ CrashOf("child") \/ Interrupt => Left' < Left
  BY <1>4 DEF Exit, CrashOf, Interrupt, Alive
<1>6. QED
  BY <1>2, <1>3, <1>5 DEF Program

(* An orphan touches neither the call nor the program the manager waits for. *)
LEMMA OrphanGivesNothing ==
  ASSUME IInv, Program("orphan")
  PROVE  Left' = Left
<1>1. UNCHANGED <<at, tries>> /\ stage'["child"] = stage["child"]
  BY DEF Program, Open, Save, Exit, CrashOf, Ends, call, IInv, TypeOK, Programs
<1>2. StagesLeft' = StagesLeft
  BY <1>1 DEF StagesLeft
<1>3. at \in {"idle", "try", "system", "judge", "read"}
  BY DEF IInv, TypeOK
<1>4. QED
  BY <1>1, <1>2, <1>3, LeftAt, LeftAtNext

(* For every number of tries, an evaluation has at most 6 * (_ntries + 2)  *)
(* steps, and each takes one off: it cannot go round for ever, however the *)
(* program crashes and whatever orphans do beside it.                      *)
THEOREM EvaluationRunsOut == Safety => TriesRunOut
<1>1. ASSUME IInv, [Next]_vars
      PROVE  [/\ Manager \/ Program("child") \/ Interrupt \/ Kill => Left' < Left
              /\ Program("orphan") => Left' = Left]_vars
  <2>1. Kill => Left' < Left
    <3>1. Kill => at # "idle" /\ at' = "idle"
      BY DEF Kill
    <3>2. Left \in Nat /\ (at # "idle" => Left > 0)
      BY <1>1, LeftTyped, RobustAssumption
    <3>3. QED
      BY <3>1, <3>2, LeftAtNext
  <2>2. QED
    BY <1>1, <2>1, ManagerGoesOn, ChildGoesOn, OrphanGivesNothing
<1>2. QED
  BY <1>1, Invariant, PTL DEF Safety, TriesRunOut
=============================================================================
