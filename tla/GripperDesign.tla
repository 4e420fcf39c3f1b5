---------------------------- MODULE GripperDesign ----------------------------
(***************************************************************************)
(* How a vector of numbers becomes a gripper file: the gripper objects     *)
(* that optimize_gripper, generate_grippers and evaluate_gripper build or  *)
(* change, the parametrizations and the mesh generator they share by       *)
(* pointer, what applyModifications does to the one work cell of the       *)
(* process, and the files that are saved.                                  *)
(*                                                                         *)
(* A parametrization is a function from names to values, an object on the  *)
(* heap; the prototype's is object 1.  What is simulated is a function of  *)
(* the work cell: which parameters its fingers and its device were set     *)
(* from, {} being what the work cell file says.                            *)
(***************************************************************************)
EXTENDS Naturals, Sequences, Functions

CONSTANTS
    FingerParameters,   \* the names OldFingerGenerator reads
    DeviceParameters,   \* the names behind the TCP, the bounds and the force
    Values,             \* what a parameter may be
    Printed,            \* what is left of a value in six significant digits
    NameLists,          \* the lists of parameters a command line may give
    Programs,           \* which of the three tools run
    NGrippers,          \* grippers generate_grippers is to find
    NTries              \* grippers it tries; evaluations of a search

Parameters == FingerParameters \cup DeviceParameters

ASSUME NamesAssumption == NameLists \subseteq Seq(Parameters)
ASSUME PrintedAssumption == Printed \in [Values -> Values]
ASSUME ProgramsAssumption == Programs \subseteq {"optimize", "generate", "evaluate"}
ASSUME BoundsAssumption == NGrippers \in Nat /\ NTries \in Nat

Classes == {"ParametrizedGripper", "BasicParametrizedGripper",
            "ParametrizedGeometryGripper", "StandardGripper"}
Parametrization == UNION {[S -> Values] : S \in SUBSET Parameters}
WorkCell == [fingers : SUBSET Parametrization, device : SUBSET Parametrization]

VARIABLES
    program,    \* which tool
    class,      \* the class of the gripper file it loaded, the prototype
    names,      \* the parameters on its command line
    scripted,   \* the mesh generator is an OpenSCADGenerator
    pc,         \* where its one thread is
    heap,       \* the parametrization objects
    gripper,    \* the gripper at work: its class, parametrization and quality
    generator,  \* the parametrization object of the mesh generator
    scene,      \* the work cell
    final,      \* the gripper at work is the result of a search
    tries,      \* vectors tried so far
    found,      \* n of generate_grippers
    saved       \* the gripper files, with the line of the log for each

settings == <<program, class, names, scripted>>
vars == <<program, class, names, scripted, pc, heap, gripper, generator,
          scene, final, tries, found, saved>>

----------------------------------------------------------------------------
(* Names and vectors.                                                      *)

Vectors == [DOMAIN names -> Values]

(* at() throws for a name the parametrization does not have.               *)
Knows(p) == \A i \in DOMAIN names : names[i] \in DOMAIN p

(* The last place of a name: the values are set in the order of the list.  *)
LastPlace(ns, n) == CHOOSE i \in DOMAIN ns :
                      /\ ns[i] = n
                      /\ \A j \in DOMAIN ns : ns[j] = n => j <= i

(* applyVectorToParametrization and modify_parameters                      *)
Apply(ns, p, v) ==
  [n \in DOMAIN p |-> IF \E i \in DOMAIN ns : ns[i] = n THEN v[LastPlace(ns, n)] ELSE p[n]]

(* A slip: the prototype is read instead of its clone.                     *)
VectorOfPrototype(g) == [i \in DOMAIN names |-> heap[1][names[i]]]

(* gripperToVector                                                         *)
VectorOf(g) == [i \in DOMAIN names |-> heap[g.params][names[i]]]

(* A slip: the line begins with the second value, the first is a zero.     *)
LoggedFromSecond(v) == [i \in DOMAIN v |-> IF i = 1 THEN 0 ELSE Printed[v[i]]]

(* The line of the log: the stream writes six significant digits of each.  *)
Logged(v) == [i \in DOMAIN v |-> Printed[v[i]]]

----------------------------------------------------------------------------
(* Classes of grippers.                                                    *)

HasFingers(c) == c \in {"ParametrizedGeometryGripper", "StandardGripper"}
HasDevice(c) == c \in {"BasicParametrizedGripper", "StandardGripper"}

(* BasicParametrizedGripper has no clone() of its own: its clone is cut    *)
(* down to a ParametrizedGripper, whose applyModifications does nothing.   *)
CloneClass(c) == IF c = "BasicParametrizedGripper" THEN "ParametrizedGripper" ELSE c

(* A slip: a StandardGripper can be cast to its base class as well.        *)
BaseClassFirst(c) ==
    CASE HasFingers(c) -> "ParametrizedGeometryGripper"
      [] c = "BasicParametrizedGripper" -> "BasicParametrizedGripper"
      [] OTHER -> "ParametrizedGripper"

(* The class that is written into the file: the first loader, the most     *)
(* derived class first, to which the gripper can be cast.                  *)
SavedClass(c) ==
    CASE c = "StandardGripper" -> "StandardGripper"
      [] HasFingers(c) /\ c # "StandardGripper" -> "ParametrizedGeometryGripper"
      [] c = "BasicParametrizedGripper" -> "BasicParametrizedGripper"
      [] OTHER -> "ParametrizedGripper"

(* The parameters a mesh is made of: OpenSCAD is handed all of them.       *)
Mesh(p) == IF scripted THEN p ELSE Restrict(p, FingerParameters)
CanMesh(p) == scripted \/ FingerParameters \subseteq DOMAIN p

Device(p) == Restrict(p, DeviceParameters)
CanMove(p) == DeviceParameters \subseteq DOMAIN p

(* The work cell file with a gripper of class c and parameters p in it.    *)
Mounted(c, p) == [fingers |-> IF HasFingers(c) THEN {Mesh(p)} ELSE {},
                  device |-> IF HasDevice(c) THEN {Device(p)} ELSE {}]

(* A slip: the generator keeps the parametrization it got first.           *)
FirstGenerators(g) == IF generator = 2 THEN g.params ELSE generator

(* The parametrization a gripper gives the one mesh generator, of which    *)
(* every clone has the pointer.                                            *)
Generators(g) == g.params

(* Loading the file makes an object for the gripper and one, empty or      *)
(* read from the file, for the generator.                                  *)
Init ==
    /\ program \in Programs
    /\ class \in Classes
    /\ names \in NameLists
    /\ scripted \in BOOLEAN
    /\ pc = "start"
    /\ \E p \in Parametrization : heap = <<p, <<>>>>
    /\ gripper = [class |-> class, params |-> 1, quality |-> {}]
    /\ generator = 2
    /\ scene = [fingers |-> {}, device |-> {}]
    /\ final = FALSE
    /\ tries = 0
    /\ found = 0
    /\ saved = <<>>

----------------------------------------------------------------------------
(* optimize_gripper                                                        *)

(* The guess is read from the prototype before the search.                 *)
ReadGuess ==
    /\ pc = "start"
    /\ program = "optimize"
    /\ pc' = IF Knows(heap[1]) THEN "ask" ELSE "aborted"
    /\ UNCHANGED <<settings, heap, gripper, generator, scene, final, tries, found, saved>>

(* Another evaluation of the search, or its result.                        *)
AskOrEnd ==
    \/ /\ tries < NTries
       /\ tries' = tries + 1
       /\ UNCHANGED final
    \/ /\ final' = TRUE
       /\ UNCHANGED tries

(* A slip: a clone copies the pointer to its parametrization.              *)
BuildShared ==
    /\ pc = "ask"
    /\ program = "optimize"
    /\ \E v \in Vectors : heap' = [heap EXCEPT ![1] = Apply(names, heap[1], v)]
    /\ gripper' = [class |-> CloneClass(class), params |-> 1, quality |-> {}]
    /\ AskOrEnd
    /\ pc' = "fingers"
    /\ UNCHANGED <<settings, generator, scene, found, saved>>

(* vectorToGripper: a clone of the prototype gets the vector.              *)
Build ==
    /\ pc = "ask"
    /\ program = "optimize"
    /\ \E v \in Vectors : heap' = Append(heap, Apply(names, heap[1], v))
    /\ gripper' = [class |-> CloneClass(class), params |-> Len(heap'), quality |-> {}]
    /\ AskOrEnd
    /\ pc' = "fingers"
    /\ UNCHANGED <<settings, generator, scene, found, saved>>

(* generate_grippers and evaluate_gripper change the loaded gripper; a     *)
(* name it does not have ends the program.                                 *)
Modify ==
    /\ \/ pc = "start" /\ program \in {"generate", "evaluate"}
       \/ pc = "ask" /\ program = "generate"
    /\ Knows(heap[1])
    /\ \E v \in Vectors : heap' = [heap EXCEPT ![1] = Apply(names, heap[1], v)]
    /\ pc' = "fingers"
    /\ UNCHANGED <<settings, gripper, generator, scene, final, tries, found, saved>>

----------------------------------------------------------------------------
(* evaluateGripper                                                         *)

(* The geometry's half of applyModifications: the fingers are replaced by  *)
(* meshes the shared generator makes.                                      *)
MakeFingers ==
    /\ pc = "fingers"
    /\ IF HasFingers(gripper.class)
       THEN /\ generator' = Generators(gripper)
            /\ CanMesh(heap[generator'])
            /\ scene' = [scene EXCEPT !.fingers = {Mesh(heap[generator'])}]
       ELSE UNCHANGED <<generator, scene>>
    /\ pc' = "device"
    /\ UNCHANGED <<settings, heap, gripper, final, tries, found, saved>>

(* The other half: TCP, bounds, force.                                     *)
SetDevice ==
    /\ pc = "device"
    /\ IF HasDevice(gripper.class)
       THEN /\ CanMove(heap[gripper.params])
            /\ scene' = [scene EXCEPT !.device = {Device(heap[gripper.params])}]
       ELSE UNCHANGED scene
    /\ pc' = "simulate"
    /\ UNCHANGED <<settings, heap, gripper, generator, final, tries, found, saved>>

(* The grasps are simulated in the work cell as it is, and the gripper     *)
(* gets their quality.                                                     *)
Simulate ==
    /\ pc = "simulate"
    /\ gripper' = [gripper EXCEPT !.quality = {scene}]
    /\ pc' = "save"
    /\ UNCHANGED <<settings, heap, generator, scene, final, tries, found, saved>>

----------------------------------------------------------------------------
(* Saving                                                                  *)

(* A file has the parameters and the quality, not the objects; the mesh    *)
(* generator is written without parameters and gets its own back.  It      *)
(* keeps the numbers as they are, the line of the log does not.            *)
File(g) == [class |-> SavedClass(g.class), params |-> heap[g.params],
            quality |-> g.quality, line |-> Logged(VectorOf(g))]

(* The callback of the search logs and saves every step; the result is     *)
(* saved, not logged, and the program is over.                             *)
SaveStep ==
    /\ pc = "save"
    /\ program = "optimize"
    /\ saved' = Append(saved, File(gripper))
    /\ pc' = IF final THEN "ended" ELSE "ask"
    /\ UNCHANGED <<settings, heap, gripper, generator, scene, final, tries, found>>

(* A slip: only grippers that were good enough count as tried.             *)
TriedIfFound(good) == IF good THEN tries + 1 ELSE tries

Tried(good) == tries + 1

(* generate_grippers saves the grippers with a quality above 0 and goes on *)
(* until it has found or tried enough.                                     *)
SaveFound ==
    /\ pc = "save"
    /\ program = "generate"
    /\ \E good \in BOOLEAN :
         /\ saved' = IF good THEN Append(saved, File(gripper)) ELSE saved
         /\ found' = IF good THEN found + 1 ELSE found
         /\ tries' = Tried(good)
    /\ pc' = IF found' < NGrippers /\ tries' < NTries THEN "ask" ELSE "ended"
    /\ UNCHANGED <<settings, heap, gripper, generator, scene, final>>

(* evaluate_gripper saves the one gripper, whatever its quality.           *)
SaveEvaluated ==
    /\ pc = "save"
    /\ program = "evaluate"
    /\ saved' = Append(saved, File(gripper))
    /\ pc' = "ended"
    /\ UNCHANGED <<settings, heap, gripper, generator, scene, final, tries, found>>

Ended == {"ended", "aborted"}

(* Nothing is caught: a missing parameter, a command that fails, a mesh or *)
(* a file that cannot be read or written, a gripper that RobWork does not  *)
(* find in the work cell end the program where they are met.               *)
Throws ==
    /\ pc \notin Ended
    /\ pc' = "aborted"
    /\ UNCHANGED <<settings, heap, gripper, generator, scene, final, tries, found, saved>>

Next ==
    \/ ReadGuess
    \/ Build
    \/ Modify
    \/ MakeFingers
    \/ SetDevice
    \/ Simulate
    \/ SaveStep
    \/ SaveFound
    \/ SaveEvaluated
    \/ Throws

Safety == Init /\ [][Next]_vars

(* The one thread of the program does not stop by itself.                  *)
Spec == Safety /\ WF_vars(Next)

----------------------------------------------------------------------------
(* The variables hold what the objects of the program can hold.            *)
TypeOK ==
    /\ program \in Programs
    /\ class \in Classes
    /\ names \in NameLists
    /\ scripted \in BOOLEAN
    /\ pc \in {"start", "ask", "fingers", "device", "simulate", "save"} \cup Ended
    /\ heap \in Seq(Parametrization) /\ Len(heap) >= 2
    /\ gripper \in [class : Classes, params : 1 .. Len(heap), quality : SUBSET WorkCell]
    /\ generator \in 1 .. Len(heap)
    /\ scene \in WorkCell
    /\ final \in BOOLEAN
    /\ tries \in Nat /\ found \in Nat
    /\ saved \in Seq([class : Classes, params : Parametrization,
                      quality : SUBSET WorkCell, line : Seq(Values)])

(* A gripper file reproduces the work cell of its quality: whoever loads   *)
(* it and mounts it in the untouched work cell has what its quality was    *)
(* simulated in, whatever grippers the process had built, changed and      *)
(* mounted before through the shared generator and the one work cell.  It  *)
(* says nothing of the grasps, which a planner may have chosen with the    *)
(* first of these grippers (BasicParallelGripperGraspPlanner.cpp:209).     *)
FilesReproduce ==
    \A k \in DOMAIN saved :
      saved[k].quality = {Mounted(saved[k].class, saved[k].params)}

(* Parameters of which the listed ones went through the log.               *)
Rounded(p) ==
  [n \in DOMAIN p |-> IF \E i \in DOMAIN names : names[i] = n THEN Printed[p[n]] ELSE p[n]]

(* The logged line of a step, put on the prototype, gives the parameters   *)
(* of the step's file up to the digits of the log, and those that are not  *)
(* listed exactly; also with names that are listed twice.                  *)
LogRebuildsRounded ==
    program = "optimize" =>
      \A k \in DOMAIN saved : Apply(names, heap[1], saved[k].line) = Rounded(saved[k].params)

(* While a search builds grippers, no parametrization that exists is       *)
(* changed, the prototype's included; the other tools change theirs only   *)
(* between two evaluations.                                                *)
BuiltIsKept ==
    [][ \/ program # "optimize" /\ pc \in {"start", "ask"}
        \/ \A a \in DOMAIN heap : a \in DOMAIN heap' /\ heap'[a] = heap[a] ]_vars

(* The grippers that may still come after the one at work or asked for,    *)
(* and the steps that are left with them.                                  *)
GrippersAfter ==
    CASE program = "optimize" -> IF final THEN 0
                                 ELSE IF pc \in {"start", "ask"} THEN NTries - tries
                                 ELSE NTries + 1 - tries
      [] program = "generate" -> IF tries < NTries THEN NTries - tries - 1 ELSE 0
      [] program = "evaluate" -> 0

StepsTo(place) == CASE place = "start" -> 6    [] place = "ask" -> 5    [] place = "fingers" -> 4
                    [] place = "device" -> 3 [] place = "simulate" -> 2 [] place = "save" -> 1

Left == IF pc \in Ended THEN 0 ELSE 6 * GrippersAfter + StepsTo(pc)

(* A program runs down: no step of it, good gripper or bad, found or not,  *)
(* leaves as many steps as there were.                                     *)
ProgramRunsDown == [][Left' < Left]_vars

(* Every program ends, even if no gripper has a quality above 0.           *)
Termination == <>(pc \in Ended)

(* The parameters of every saved gripper were in force when it was         *)
(* simulated, as the class of the prototype documents it.                  *)
ParametersInForce ==
    \A k \in DOMAIN saved : saved[k].quality = {Mounted(class, saved[k].params)}
=============================================================================
