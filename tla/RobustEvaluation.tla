-------------------------- MODULE RobustEvaluation --------------------------
(***************************************************************************)
(* RobustGripperEvaluationProcessManager: a gripper is evaluated by a      *)
(* program of its own, gripper_evaluate, that leaves the quality in a      *)
(* results file of a fixed name; when it crashes it is started again.      *)
(*                                                                         *)
(* The manager and the program it runs share the file and nothing else.    *)
(* A manager that is killed leaves its program running: the next manager   *)
(* started in the same directory works beside that orphan.                 *)
(***************************************************************************)
EXTENDS Naturals

CONSTANTS
  Grippers,      \* the grippers to evaluate
  OldGrippers,   \* those of class OldGripper
  NTries,        \* _ntries
  NoGripper,     \* no gripper at all
  MaxCalls,      \* bound: number of evaluations
  MaxKills       \* bound: how often the manager's process is killed

ASSUME RobustAssumption ==
  /\ OldGrippers \subseteq Grippers
  /\ NTries \in Nat
  /\ NoGripper \notin Grippers

\* What system() returns; Crash is any other value.
ReturnCode == {"FailReturnCode", "SuccessReturnCode", "InterruptReturnCode", "Crash"}

\* The program the manager waits for, and one that an earlier manager left behind.
Programs == {"child", "orphan"}
Stages == {"computing", "writing", "saved", "gone"}

VARIABLES
  file,     \* the gripper whose quality is in the results file, NoGripper if there is none
  whole,    \* is the file written to its end?
  at,       \* where evaluateGripper is
  asked,    \* the gripper it evaluates
  tries,    \* tries
  code,     \* returnCode
  of,       \* of[p]: the gripper program p evaluates
  stage,    \* stage[p]: how far program p is
  beside,   \* an orphan was still to write its file when the evaluation began
  outcome,  \* how the last evaluation ended, and with which gripper's quality
  calls, kills

results  == <<file, whole>>
programs == <<of, stage>>
call     == <<at, asked, tries, code, beside, outcome>>
vars == <<results, programs, call, calls, kills>>

Alive(p) == stage[p] # "gone"
FileExists == file # NoGripper
Interrupted == code = "InterruptReturnCode"

-----------------------------------------------------------------------------
(* evaluateGripper.                                                        *)

\* The gripper is not of the class the manager can evaluate.
Refuse(g) ==
  /\ at = "idle" /\ calls < MaxCalls
  /\ g \in Grippers \ OldGrippers
  /\ asked' = g
  /\ outcome' = [kind |-> "threw", of |-> NoGripper]
  /\ calls' = calls + 1
  /\ UNCHANGED <<results, programs, at, tries, code, beside, kills>>

\* Mutant: the results file of the evaluation before is left where it is.
StaleFileKept == UNCHANGED <<file, whole, stage>>

\* An orphan that has opened the file goes on with a file that has no name any more.
RemoveFile ==
  /\ file' = NoGripper
  /\ whole' = FALSE
  /\ stage' = [stage EXCEPT !["orphan"] = IF @ = "computing" THEN @ ELSE "gone"]

Call(g) ==
  /\ at = "idle" /\ calls < MaxCalls
  /\ g \in OldGrippers
  /\ asked' = g
  /\ RemoveFile
  /\ beside' = (stage["orphan"] = "computing")
  /\ tries' = 0
  /\ code' = "FailReturnCode"
  /\ at' = "try"
  /\ outcome' = [kind |-> "none", of |-> NoGripper]
  /\ calls' = calls + 1
  /\ UNCHANGED <<of, kills>>

\* system(): the manager waits, or no process could be made.
Execute ==
  /\ at = "try"
  /\ at' = "system"
  /\ of' = [of EXCEPT !["child"] = asked]
  /\ stage' = [stage EXCEPT !["child"] = "computing"]
  /\ UNCHANGED <<results, asked, tries, code, beside, outcome, calls, kills>>

NoProcess ==
  /\ at = "try"
  /\ at' = "judge"
  /\ code' = "FailReturnCode"
  /\ UNCHANGED <<results, programs, asked, tries, beside, outcome, calls, kills>>

\* Mutant: the comparison admits one try more.
MoreTriesAndOne == tries <= NTries

MoreTries == tries < NTries

\* Mutant: any return code but success ends the loop, not the file alone.
StopOnAnyFault ==
  /\ at = "judge"
  /\ FileExists \/ code # "SuccessReturnCode"
  /\ at' = "read"
  /\ UNCHANGED <<results, programs, asked, tries, code, beside, outcome, calls, kills>>

\* A file ends the loop, also one that a crash has left unfinished.
Stop ==
  /\ at = "judge"
  /\ FileExists \/ Interrupted
  /\ at' = "read"
  /\ UNCHANGED <<results, programs, asked, tries, code, beside, outcome, calls, kills>>

\* Mutant: the condition of the loop does not count.
NotCounted ==
  /\ at = "judge"
  /\ ~FileExists /\ ~Interrupted
  /\ MoreTries
  /\ at' = "try"
  /\ UNCHANGED <<results, programs, asked, tries, code, beside, outcome, calls, kills>>

Retry ==
  /\ at = "judge"
  /\ ~FileExists /\ ~Interrupted
  /\ MoreTries
  /\ tries' = tries + 1
  /\ at' = "try"
  /\ UNCHANGED <<results, programs, asked, code, beside, outcome, calls, kills>>

GiveUp ==
  /\ at = "judge"
  /\ ~FileExists /\ ~Interrupted
  /\ ~MoreTries
  /\ tries' = tries + 1
  /\ at' = "read"
  /\ UNCHANGED <<results, programs, asked, code, beside, outcome, calls, kills>>

\* Mutant: a file that can be read is read whatever ended the program.
ThrowsIfUnreadable == ~FileExists \/ ~whole

\* The interrupt is looked at first; a file that is not there or not whole does not parse.
Throws == Interrupted \/ ~FileExists \/ ~whole

Return ==
  /\ at = "read"
  /\ at' = "idle"
  /\ outcome' = IF Throws THEN [kind |-> "threw", of |-> NoGripper]
                ELSE [kind |-> "returned", of |-> file]
  /\ UNCHANGED <<results, programs, asked, tries, code, beside, calls, kills>>

-----------------------------------------------------------------------------
(* gripper_evaluate.                                                       *)

\* Program p ends; the manager that waits for it gets its return code.
Ends(p, c) ==
  /\ stage' = [stage EXCEPT ![p] = "gone"]
  /\ IF p = "child" THEN at' = "judge" /\ code' = c ELSE UNCHANGED <<at, code>>
  /\ UNCHANGED <<results, of, asked, tries, beside, outcome, calls, kills>>

\* GripperXMLLoader::save opens the file, which empties it, ...
Open(p) ==
  /\ stage[p] = "computing"
  /\ stage' = [stage EXCEPT ![p] = "writing"]
  /\ file' = of[p]
  /\ whole' = FALSE
  /\ UNCHANGED <<of, call, calls, kills>>

\* ... and writes it.  Beside an orphan two programs may have written at once, whether both
\* are still there or not: the file is of use or it is not.
Save(p) ==
  /\ stage[p] = "writing"
  /\ stage' = [stage EXCEPT ![p] = "saved"]
  /\ file' = of[p]
  /\ whole' \in IF beside THEN BOOLEAN ELSE {TRUE}
  /\ UNCHANGED <<of, call, calls, kills>>

Exit(p) == stage[p] = "saved" /\ Ends(p, "SuccessReturnCode")

CrashOf(p) == Alive(p) /\ Ends(p, "Crash")

\* Ctrl+C while the manager is in system(), which ignores it.
Interrupt == Alive("child") /\ Ends("child", "InterruptReturnCode")

\* The manager's process dies; its program lives on; a new manager is started.
Kill ==
  /\ at # "idle" /\ kills < MaxKills
  /\ ~(Alive("child") /\ Alive("orphan"))
  /\ kills' = kills + 1
  /\ at' = "idle"
  /\ outcome' = [kind |-> "none", of |-> NoGripper]
  /\ IF Alive("child")
     THEN /\ of' = [of EXCEPT !["orphan"] = of["child"]]
          /\ stage' = [stage EXCEPT !["orphan"] = stage["child"], !["child"] = "gone"]
     ELSE UNCHANGED programs
  /\ UNCHANGED <<results, asked, tries, code, beside, calls>>

Manager == Execute \/ NoProcess \/ Stop \/ Retry \/ GiveUp \/ Return

Program(p) == Open(p) \/ Save(p) \/ Exit(p) \/ CrashOf(p)

\* A file may be left over from an earlier run.
Init ==
  /\ file \in Grippers \cup {NoGripper}
  /\ whole \in BOOLEAN
  /\ file = NoGripper => ~whole
  /\ at = "idle"
  /\ asked = NoGripper
  /\ tries = 0
  /\ code = "FailReturnCode"
  /\ of = [p \in Programs |-> NoGripper]
  /\ stage = [p \in Programs |-> "gone"]
  /\ beside = FALSE
  /\ outcome = [kind |-> "none", of |-> NoGripper]
  /\ calls = 0 /\ kills = 0

Next ==
  \/ \E g \in Grippers : Call(g) \/ Refuse(g)
  \/ Manager
  \/ \E p \in Programs : Program(p)
  \/ Interrupt
  \/ Kill

Safety == Init /\ [][Next]_vars

\* The manager runs on, and a program ends one way or another (it cannot wait for ever:
\* the simulation it runs ends, see GraspTaskSimulator).
Spec == Safety /\ WF_vars(Manager) /\ WF_vars(Program("child"))
-----------------------------------------------------------------------------
(* The manager, its program, the orphan and the file have their types.     *)
TypeOK ==
  /\ file \in Grippers \cup {NoGripper} /\ whole \in BOOLEAN
  /\ at \in {"idle", "try", "system", "judge", "read"}
  /\ asked \in Grippers \cup {NoGripper}
  /\ tries \in 0 .. NTries + 1
  /\ code \in ReturnCode
  /\ of \in [Programs -> Grippers \cup {NoGripper}]
  /\ stage \in [Programs -> Stages]
  /\ beside \in BOOLEAN
  /\ outcome \in [kind : {"none", "threw", "returned"}, of : Grippers \cup {NoGripper}]
  /\ calls \in Nat /\ kills \in Nat

(* The quality that is returned is that of the gripper asked for, not one  *)
(* that an earlier evaluation left in the file, unless an orphan that had  *)
(* not yet opened the file was still at work when the evaluation began.    *)
OwnResult == outcome.kind = "returned" /\ ~beside => outcome.of = asked

(* An evaluation that was interrupted returns no quality, also when the    *)
(* program had saved the file by then.                                     *)
NoResultAfterInterrupt == outcome.kind = "returned" => ~Interrupted

(* An evaluation that fails without a results file has been tried as often *)
(* as _ntries says, or was interrupted: no fault of the program, and no    *)
(* process that could not be made, ends the tries early.                   *)
TriedToTheLimit ==
  outcome.kind = "threw" /\ asked \in OldGrippers /\ ~beside /\ ~FileExists =>
    Interrupted \/ tries >= NTries

(* The manager's comment: "In case of crash, evaluation is re-tried, until *)
(* successful, or a limit on number of evaluations reached" (hpp:18).  It  *)
(* is not, when the crash leaves a file (line 100).                        *)
RetriedAfterCrash ==
  outcome.kind = "threw" /\ asked \in OldGrippers /\ code = "Crash" => tries >= NTries

(* nTries is the "number of tries of evaluation in case of faults"         *)
(* (hpp:36): the program is started at most that often.  tries counts      *)
(* those started before; the loop starts it once more (line 103).          *)
TriesAsDocumented == at = "system" => tries + 1 <= NTries

\* How many more steps an evaluation can take: a try is at most six of them.
StagesLeft == CASE stage["child"] = "computing" -> 3
                [] stage["child"] = "writing" -> 2
                [] stage["child"] = "saved" -> 1
                [] stage["child"] = "gone" -> 0

Left == LET untried == 6 * (NTries + 1 - tries)
        IN  CASE at = "idle" -> 0
              [] at = "read" -> 1
              [] at = "judge" -> untried + 2
              [] at = "system" -> untried + 2 + StagesLeft
              [] at = "try" -> untried + 6

(* An evaluation runs out of steps: each one that the manager or its       *)
(* program takes, and every crash, Ctrl+C and kill, leaves fewer, and what *)
(* an orphan does with the file gives none back.                           *)
TriesRunOut ==
  [][/\ Manager \/ Program("child") \/ Interrupt \/ Kill => Left' < Left
     /\ Program("orphan") => Left' = Left]_vars

(* Every evaluation ends, however often the program crashes.               *)
EvaluationEnds == at = "try" ~> at = "idle"
=============================================================================
