------------------------ MODULE GripperDesignProofs -------------------------
(***************************************************************************)
(* For every set of parameters and values and every list of names: gripper *)
(* files reproduce the work cells of their qualities, the log rebuilds the *)
(* grippers up to its digits, and a search changes no parametrization.     *)
(***************************************************************************)
EXTENDS GripperDesign, SequenceTheorems, FiniteSetTheorems, TLAPS

Busy == {"fingers", "device", "simulate", "save"}

(* The class that does the mounting, after cloning.                        *)
Worker == IF program = "optimize" THEN CloneClass(class) ELSE class

(* The names are known to the parametrizations they will be looked up in.  *)
NamesKnown ==
  /\ pc \in Busy => Knows(heap[gripper.params])
  /\ program = "optimize" /\ pc \in Busy \cup {"ask"} => Knows(heap[1])
  /\ program # "optimize" => gripper.params = 1

Typed == TypeOK /\ NamesKnown

----------------------------------------------------------------------------
(* Parametrizations and vectors.                                           *)

LEMMA ParametrizationDef ==
  ASSUME NEW p \in Parametrization
  PROVE  DOMAIN p \subseteq Parameters /\ p \in [DOMAIN p -> Values]
<1>1. PICK S \in SUBSET Parameters : p \in [S -> Values]
  BY DEF Parametrization
<1>2. QED
  BY <1>1

LEMMA ParametrizationOf ==
  ASSUME NEW S \in SUBSET Parameters, NEW p \in [S -> Values]
  PROVE  p \in Parametrization
BY DEF Parametrization

(* A name that is listed has a last place: of the sets of places behind a  *)
(* place of the name, one is minimal.                                      *)
LEMMA LastPlaceExists ==
  ASSUME names \in Seq(Parameters), NEW n, NEW i0 \in DOMAIN names, names[i0] = n
  PROVE  LastPlace(names, n) \in DOMAIN names /\ names[LastPlace(names, n)] = n
<1> DEFINE D == 1..Len(names)
<1> DEFINE After(i) == {j \in D : j > i}
<1> DEFINE T == {After(i) : i \in {l \in D : names[l] = n}}
<1> DEFINE R == StrictSubsetOrdering(D)
<1>1. Len(names) \in Nat /\ DOMAIN names = D
  OBVIOUS
<1>2. IsFiniteSet(D)
  BY <1>1, FS_Interval
<1>3. IsWellFoundedOn(R, SUBSET D)
  <2>1. FiniteSubsetsOf(D) = SUBSET D
    BY <1>2, FS_FiniteSubsetsOfFinite
  <2>2. QED
    BY <2>1, FS_StrictSubsetOrderingWellFounded
<1>4. T \subseteq SUBSET D /\ T # {}
  BY <1>1
<1>5. \E x \in T : \A y \in T : ~ (<<y, x>> \in R)
  <2> HIDE DEF T, R, D
  <2>1. QED
    BY <1>3, <1>4, WFMin
<1>6. PICK x \in T : \A y \in T : ~ (<<y, x>> \in R)
  BY <1>5
<1>7. PICK i \in D : names[i] = n /\ x = After(i)
  OBVIOUS
<1>8. ASSUME NEW j \in D, names[j] = n, j > i
      PROVE  FALSE
  <2>1. After(j) \in T
    BY <1>8
  <2>2. After(j) \subseteq After(i) /\ After(j) # After(i)
    <3>1. j \in After(i) /\ j \notin After(j)
      BY <1>1, <1>8
    <3>2. After(j) \subseteq After(i)
      BY <1>1, <1>8
    <3>3. QED
      BY <3>1, <3>2
  <2>3. <<After(j), x>> \in R
    BY <1>7, <2>2 DEF StrictSubsetOrdering
  <2>4. QED
    BY <1>6, <2>1, <2>3
<1>9. \A j \in DOMAIN names : names[j] = n => j <= i
  BY <1>1, <1>7, <1>8
<1>10. \E l \in DOMAIN names : /\ names[l] = n
                               /\ \A j \in DOMAIN names : names[j] = n => j <= l
  BY <1>1, <1>7, <1>9
<1>11. QED
  BY <1>10 DEF LastPlace

(* Setting a vector keeps the names and their types.                       *)
LEMMA ApplyTyped ==
  ASSUME names \in Seq(Parameters), NEW p \in Parametrization, NEW v \in Vectors
  PROVE  Apply(names, p, v) \in Parametrization /\ DOMAIN Apply(names, p, v) = DOMAIN p
<1>1. DOMAIN p \subseteq Parameters /\ p \in [DOMAIN p -> Values]
  BY ParametrizationDef
<1>2. \A n \in DOMAIN p : (\E i \in DOMAIN names : names[i] = n) => v[LastPlace(names, n)] \in Values
  BY LastPlaceExists DEF Vectors
<1>3. Apply(names, p, v) \in [DOMAIN p -> Values]
  BY <1>1, <1>2 DEF Apply
<1>4. QED
  BY <1>1, <1>3, ParametrizationOf DEF Apply

(* What is read back, printed and set again on the original, gives the     *)
(* same, printed.                                                          *)
LEMMA ApplyReadBack ==
  ASSUME names \in Seq(Parameters), NEW p, Knows(p), NEW v,
         NEW w, w = [i \in DOMAIN names |-> Apply(names, p, v)[names[i]]]
  PROVE  Apply(names, p, Logged(w)) = Rounded(Apply(names, p, v))
<1> DEFINE q == Apply(names, p, v)
           l == Logged(w)
<1>1. DOMAIN q = DOMAIN p /\ (\A n \in DOMAIN p : ~(\E i \in DOMAIN names : names[i] = n) => q[n] = p[n])
  BY DEF Apply
<1>2. ASSUME NEW n \in DOMAIN p, NEW i \in DOMAIN names, names[i] = n
      PROVE  l[LastPlace(names, n)] = Printed[q[n]]
  <2>1. LastPlace(names, n) \in DOMAIN names /\ names[LastPlace(names, n)] = n
    BY <1>2, LastPlaceExists
  <2>2. w[LastPlace(names, n)] = q[n] /\ LastPlace(names, n) \in DOMAIN w
    BY <2>1
  <2> HIDE DEF q
  <2>3. QED
    BY <2>2 DEF Logged
<1> HIDE DEF q, l
<1>3. Apply(names, p, l) = Rounded(q)
  BY <1>1, <1>2 DEF Apply, Rounded
<1>4. QED
  BY <1>3 DEF q, l

(* The line of the log has a value for every name.                         *)
LEMMA VectorTyped ==
  ASSUME names \in Seq(Parameters), NEW p \in Parametrization, Knows(p)
  PROVE  [i \in DOMAIN names |-> p[names[i]]] \in Seq(Values)
<1>1. p \in [DOMAIN p -> Values]
  BY ParametrizationDef
<1>2. DOMAIN names = 1..Len(names) /\ Len(names) \in Nat
  OBVIOUS
<1>3. [i \in DOMAIN names |-> p[names[i]]] \in [1..Len(names) -> Values]
  BY <1>1, <1>2 DEF Knows
<1>4. QED
  BY <1>2, <1>3, SeqDef

(* Meshes and devices are made of parameters that exist.                   *)
LEMMA MountTyped ==
  ASSUME NEW p \in Parametrization
  PROVE  /\ CanMesh(p) => Mesh(p) \in Parametrization
         /\ CanMove(p) => Device(p) \in Parametrization
<1>1. DOMAIN p \subseteq Parameters /\ p \in [DOMAIN p -> Values]
  BY ParametrizationDef
<1>2. ASSUME NEW S \in SUBSET Parameters, S \subseteq DOMAIN p
      PROVE  Restrict(p, S) \in Parametrization
  <2>1. Restrict(p, S) \in [S -> Values]
    BY <1>1, <1>2 DEF Restrict
  <2>2. QED
    BY <2>1, ParametrizationOf
<1>3. QED
  BY <1>2 DEF CanMesh, Mesh, CanMove, Device, Parameters
----------------------------------------------------------------------------
(* Type correctness.                                                       *)

LEMMA InitTyped == Init => Typed
<1> SUFFICES ASSUME Init PROVE Typed
  OBVIOUS
<1>1. PICK p \in Parametrization : heap = <<p, <<>>>>
  BY DEF Init
<1>2. <<>> \in Parametrization
  <2>1. <<>> \in Seq(Values) /\ Len(<<>>) = 0
    BY EmptySeq
  <2>2. PICK n \in Nat : <<>> \in [1..n -> Values]
    BY <2>1, SeqDef
  <2>3. n = 0
    BY <2>2
  <2>4. 1..n = {}
    BY <2>3
  <2>5. <<>> \in [{} -> Values]
    BY <2>2, <2>4
  <2>6. QED
    BY <2>5, ParametrizationOf
<1>3. heap \in Seq(Parametrization) /\ Len(heap) = 2
  BY <1>1, <1>2
<1>4. TypeOK
  <2>1. 1 \in 1..Len(heap) /\ 2 \in 1..Len(heap)
    BY <1>3
  <2>2. scene \in WorkCell
    BY DEF Init, WorkCell
  <2>3. gripper \in [class : Classes, params : 1..Len(heap), quality : SUBSET WorkCell]
    BY <2>1 DEF Init
  <2>4. saved \in Seq([class : Classes, params : Parametrization,
                       quality : SUBSET WorkCell, line : Seq(Values)])
    BY DEF Init
  <2>5. pc = "start" /\ generator = 2 /\ final = FALSE /\ tries = 0 /\ found = 0
    BY DEF Init
  <2>6. scripted \in BOOLEAN /\ final \in BOOLEAN
    BY Zenon DEF Init
  <2>7. QED
    BY <1>3, <2>1, <2>2, <2>3, <2>4, <2>5, <2>6 DEF Init, TypeOK, Ended
<1>5. QED
  BY <1>4 DEF Init, Typed, NamesKnown, Busy

(* What a built or changed gripper is.                                     *)
LEMMA BuildStep ==
  ASSUME Typed, Build
  PROVE  \E v \in Vectors :
           /\ heap' = Append(heap, Apply(names, heap[1], v))
           /\ Apply(names, heap[1], v) \in Parametrization
           /\ DOMAIN Apply(names, heap[1], v) = DOMAIN heap[1]
           /\ heap' \in Seq(Parametrization) /\ Len(heap') = Len(heap) + 1
           /\ heap'[1] = heap[1]
           /\ heap'[Len(heap')] = Apply(names, heap[1], v)
           /\ \A a \in DOMAIN heap : a \in DOMAIN heap' /\ heap'[a] = heap[a]
<1>1. /\ names \in Seq(Parameters) /\ heap \in Seq(Parametrization)
      /\ Len(heap) >= 2 /\ heap[1] \in Parametrization
  BY NamesAssumption DEF Typed, TypeOK
<1>2. PICK v \in Vectors : heap' = Append(heap, Apply(names, heap[1], v))
  BY DEF Build
<1>3. Apply(names, heap[1], v) \in Parametrization /\ DOMAIN Apply(names, heap[1], v) = DOMAIN heap[1]
  BY <1>1, ApplyTyped
<1>4. /\ heap' \in Seq(Parametrization) /\ Len(heap') = Len(heap) + 1
      /\ heap'[1] = heap[1] /\ heap'[Len(heap')] = Apply(names, heap[1], v)
      /\ \A a \in DOMAIN heap : a \in DOMAIN heap' /\ heap'[a] = heap[a]
  <2> DEFINE q == Apply(names, heap[1], v)
  <2>1. heap' = Append(heap, q) /\ q \in Parametrization
    BY <1>2, <1>3
  <2>2. /\ heap' \in Seq(Parametrization) /\ Len(heap') = Len(heap) + 1
        /\ heap'[1] = heap[1] /\ heap'[Len(heap')] = q
        /\ \A a \in DOMAIN heap : a \in DOMAIN heap' /\ heap'[a] = heap[a]
    <3> HIDE DEF q
    <3>1. QED
      BY <1>1, <2>1
  <2>3. QED
    BY <2>2
<1>5. QED
  BY <1>2, <1>3, <1>4

LEMMA ModifyStep ==
  ASSUME Typed, Modify
  PROVE  /\ heap' \in Seq(Parametrization) /\ Len(heap') = Len(heap)
         /\ DOMAIN heap'[1] = DOMAIN heap[1]
<1>1. /\ names \in Seq(Parameters) /\ heap \in Seq(Parametrization)
      /\ Len(heap) >= 2 /\ heap[1] \in Parametrization
  BY NamesAssumption DEF Typed, TypeOK
<1>2. PICK v \in Vectors : heap' = [heap EXCEPT ![1] = Apply(names, heap[1], v)]
  BY DEF Modify
<1>3. Apply(names, heap[1], v) \in Parametrization /\ DOMAIN Apply(names, heap[1], v) = DOMAIN heap[1]
  BY <1>1, ApplyTyped
<1>4. QED
  <2> DEFINE q == Apply(names, heap[1], v)
  <2>1. heap' = [heap EXCEPT ![1] = q] /\ q \in Parametrization /\ DOMAIN q = DOMAIN heap[1]
    BY <1>2, <1>3
  <2> HIDE DEF q
  <2>2. QED
    BY <1>1, <2>1

(* The file of the gripper at work, when it has its quality.               *)
LEMMA FileTyped ==
  ASSUME Typed, pc = "save"
  PROVE  File(gripper) \in [class : Classes, params : Parametrization,
                            quality : SUBSET WorkCell, line : Seq(Values)]
<1>1. /\ names \in Seq(Parameters) /\ gripper.class \in Classes
      /\ heap[gripper.params] \in Parametrization /\ gripper.quality \in SUBSET WorkCell
  BY NamesAssumption DEF Typed, TypeOK
<1>2. Logged(VectorOf(gripper)) \in Seq(Values)
  <2> DEFINE v == VectorOf(gripper)
  <2>1. v \in Seq(Values)
    BY <1>1, VectorTyped DEF Typed, NamesKnown, Busy, VectorOf
  <2> HIDE DEF v
  <2>2. Len(v) \in Nat /\ v \in [1..Len(v) -> Values]
    BY <2>1
  <2>3. Logged(v) \in [1..Len(v) -> Values]
    BY <2>2, PrintedAssumption DEF Logged
  <2>4. QED
    BY <2>2, <2>3, SeqDef DEF v
<1>3. SavedClass(gripper.class) \in Classes
  BY <1>1 DEF SavedClass, Classes, HasFingers
<1>4. QED
  BY <1>1, <1>2, <1>3 DEF File

LEMMA TypedPreserved == Typed /\ [Next]_vars => Typed'
<1> SUFFICES ASSUME Typed, [Next]_vars PROVE Typed'
  OBVIOUS
<1> USE DEF Busy, Ended
<1>1. CASE UNCHANGED vars
  BY <1>1 DEF vars, settings, Typed, TypeOK, NamesKnown, Knows
<1>2. CASE ReadGuess
  BY <1>2 DEF ReadGuess, settings, Typed, TypeOK, NamesKnown, Knows
<1>3. CASE Build
  <2>1. PICK v \in Vectors :
          /\ DOMAIN Apply(names, heap[1], v) = DOMAIN heap[1]
          /\ heap' \in Seq(Parametrization) /\ Len(heap') = Len(heap) + 1
          /\ heap'[1] = heap[1]
          /\ heap'[Len(heap')] = Apply(names, heap[1], v)
    BY <1>3, BuildStep
  <2>2. gripper' = [class |-> CloneClass(class), params |-> Len(heap'), quality |-> {}]
        /\ CloneClass(class) \in Classes
    BY <1>3 DEF Build, CloneClass, Typed, TypeOK, Classes
  <2>3. TypeOK'
    <3>1. /\ Len(heap) \in Nat /\ Len(heap') \in 1..Len(heap')
          /\ generator \in 1..Len(heap')
      BY <2>1 DEF Typed, TypeOK
    <3>2. gripper' \in [class : Classes, params : 1..Len(heap'), quality : SUBSET WorkCell]
      BY <2>2, <3>1
    <3>3. tries' \in Nat /\ final' \in BOOLEAN
      <4>1. \/ tries' = tries + 1 /\ final' = final
            \/ final' = TRUE /\ tries' = tries
        BY <1>3 DEF Build, AskOrEnd
      <4>2. tries \in Nat /\ final \in BOOLEAN
        BY DEF Typed, TypeOK
      <4>3. tries' \in Nat
        BY <4>1, <4>2
      <4>4. final' \in BOOLEAN
        BY <4>1, <4>2, Zenon
      <4>5. QED
        BY <4>3, <4>4
    <3>4. QED
      BY <1>3, <2>1, <3>1, <3>2, <3>3 DEF Build, settings, Typed, TypeOK
  <2>4. Knows(heap[1])
    BY <1>3 DEF Build, Typed, NamesKnown
  <2>5. Knows(heap[1])' /\ Knows(heap[gripper.params])'
    BY <1>3, <2>1, <2>2, <2>4 DEF Build, settings, Knows
  <2>6. NamesKnown'
    BY <1>3, <2>5 DEF Build, settings, NamesKnown
  <2>7. QED
    BY <2>3, <2>6 DEF Typed
<1>4. CASE Modify
  <2>1. /\ heap' \in Seq(Parametrization) /\ Len(heap') = Len(heap)
        /\ DOMAIN heap'[1] = DOMAIN heap[1]
    BY <1>4, ModifyStep
  <2>2. TypeOK'
    BY <1>4, <2>1 DEF Modify, settings, Typed, TypeOK
  <2>3. Knows(heap[1])'
    BY <1>4, <2>1 DEF Modify, settings, Knows
  <2>4. NamesKnown'
    BY <1>4, <2>3 DEF Modify, settings, Typed, NamesKnown
  <2>5. QED
    BY <2>2, <2>4 DEF Typed
<1>5. CASE MakeFingers
  <2>1. heap[gripper.params] \in Parametrization /\ gripper.params \in 1..Len(heap)
    BY DEF Typed, TypeOK
  <2>2. scene' \in WorkCell /\ generator' \in 1..Len(heap)
    <3>1. CASE HasFingers(gripper.class)
      <4>1. /\ generator' = gripper.params /\ CanMesh(heap[gripper.params])
            /\ scene' = [scene EXCEPT !.fingers = {Mesh(heap[gripper.params])}]
        BY <1>5, <3>1 DEF MakeFingers, Generators
      <4>2. Mesh(heap[gripper.params]) \in Parametrization
        BY <2>1, <4>1, MountTyped
      <4>3. QED
        BY <2>1, <4>1, <4>2 DEF Typed, TypeOK, WorkCell
    <3>2. CASE ~HasFingers(gripper.class)
      BY <1>5, <3>2 DEF MakeFingers, Typed, TypeOK
    <3>3. QED
      BY <3>1, <3>2
  <2>3. QED
    BY <1>5, <2>2 DEF MakeFingers, settings, Typed, TypeOK, NamesKnown, Knows
<1>6. CASE SetDevice
  <2>1. heap[gripper.params] \in Parametrization
    BY DEF Typed, TypeOK
  <2>2. scene' \in WorkCell
    <3>1. CASE HasDevice(gripper.class)
      <4>1. /\ CanMove(heap[gripper.params])
            /\ scene' = [scene EXCEPT !.device = {Device(heap[gripper.params])}]
        BY <1>6, <3>1 DEF SetDevice
      <4>2. Device(heap[gripper.params]) \in Parametrization
        BY <2>1, <4>1, MountTyped
      <4>3. QED
        BY <4>1, <4>2 DEF Typed, TypeOK, WorkCell
    <3>2. CASE ~HasDevice(gripper.class)
      BY <1>6, <3>2 DEF SetDevice, Typed, TypeOK
    <3>3. QED
      BY <3>1, <3>2
  <2>3. QED
    BY <1>6, <2>2 DEF SetDevice, settings, Typed, TypeOK, NamesKnown, Knows
<1>7. CASE Simulate
  BY <1>7 DEF Simulate, settings, Typed, TypeOK, NamesKnown, Knows
<1>8. CASE SaveStep
  <2>1. File(gripper) \in [class : Classes, params : Parametrization,
                           quality : SUBSET WorkCell, line : Seq(Values)]
    BY <1>8, FileTyped DEF SaveStep
  <2>2. TypeOK'
    BY <1>8, <2>1 DEF SaveStep, settings, Typed, TypeOK
  <2>3. NamesKnown'
    BY <1>8 DEF SaveStep, settings, Typed, NamesKnown, Knows
  <2>4. QED
    BY <2>2, <2>3 DEF Typed
<1>9. CASE SaveFound
  <2>1. File(gripper) \in [class : Classes, params : Parametrization,
                           quality : SUBSET WorkCell, line : Seq(Values)]
    BY <1>9, FileTyped DEF SaveFound
  <2>2. TypeOK'
    <3>1. tries' \in Nat /\ found' \in Nat
      <4>1. PICK good \in BOOLEAN : /\ found' = IF good THEN found + 1 ELSE found
                                    /\ tries' = tries + 1
        BY <1>9 DEF SaveFound, Tried
      <4>2. QED
        BY <4>1 DEF Typed, TypeOK
    <3>2. saved' \in Seq([class : Classes, params : Parametrization,
                          quality : SUBSET WorkCell, line : Seq(Values)])
      <4>1. saved' = Append(saved, File(gripper)) \/ saved' = saved
        BY <1>9 DEF SaveFound
      <4>2. saved \in Seq([class : Classes, params : Parametrization,
                          quality : SUBSET WorkCell, line : Seq(Values)])
        BY DEF Typed, TypeOK
      <4>3. CASE saved' = Append(saved, File(gripper))
        BY <2>1, <4>2, <4>3
      <4>4. CASE saved' = saved
        BY <4>2, <4>4
      <4>5. QED
        BY <4>1, <4>3, <4>4
    <3>3. pc' \in {"ask", "ended"}
      BY <1>9 DEF SaveFound
    <3>4. QED
      BY <1>9, <3>1, <3>2, <3>3 DEF SaveFound, settings, Typed, TypeOK
  <2>3. NamesKnown'
    BY <1>9 DEF SaveFound, settings, Typed, NamesKnown, Knows
  <2>4. QED
    BY <2>2, <2>3 DEF Typed
<1>10. CASE SaveEvaluated
  <2>1. File(gripper) \in [class : Classes, params : Parametrization,
                           quality : SUBSET WorkCell, line : Seq(Values)]
    BY <1>10, FileTyped DEF SaveEvaluated
  <2>2. TypeOK'
    BY <1>10, <2>1 DEF SaveEvaluated, settings, Typed, TypeOK
  <2>3. NamesKnown'
    BY <1>10 DEF SaveEvaluated, settings, Typed, NamesKnown, Knows
  <2>4. QED
    BY <2>2, <2>3 DEF Typed
<1>11. CASE Throws
  BY <1>11 DEF Throws, settings, Typed, TypeOK, NamesKnown, Knows
<1>12. QED
  BY <1>1, <1>2, <1>3, <1>4, <1>5, <1>6, <1>7, <1>8, <1>9, <1>10, <1>11 DEF Next

(* Pointers point to objects, parametrizations stay parametrizations, and  *)
(* no file is short of a value, whatever is cloned, changed and mounted.   *)
THEOREM TypeCorrect == Spec => []TypeOK
<1>1. Typed => TypeOK
  BY DEF Typed
<1>2. QED
  BY <1>1, InitTyped, TypedPreserved, PTL DEF Spec, Safety
----------------------------------------------------------------------------
(* Files.                                                                  *)

(* Only what the class mounts is ever changed in the work cell, and what   *)
(* is mounted so far comes from the gripper at work.                       *)
MountedSoFar ==
  /\ program # "optimize" => gripper.class = class
  /\ pc \in Busy => gripper.class = Worker
  /\ ~HasFingers(Worker) => scene.fingers = {}
  /\ ~HasDevice(Worker) => scene.device = {}
  /\ pc \in {"device", "simulate", "save"} /\ HasFingers(Worker) =>
       scene.fingers = {Mesh(heap[gripper.params])}
  /\ pc \in {"simulate", "save"} /\ HasDevice(Worker) =>
       scene.device = {Device(heap[gripper.params])}
  /\ pc = "save" => gripper.quality = {scene}

FilesInv == MountedSoFar /\ FilesReproduce

LEMMA SavedClassIsClass == \A c \in Classes : SavedClass(c) = c
BY DEF Classes, SavedClass, HasFingers

(* The file of the gripper at work reproduces its quality.                 *)
LEMMA FileReproduces ==
  ASSUME Typed, MountedSoFar, pc = "save"
  PROVE  File(gripper).quality = {Mounted(File(gripper).class, File(gripper).params)}
<1>1. SavedClass(gripper.class) = gripper.class /\ gripper.class = Worker
  BY SavedClassIsClass DEF Typed, TypeOK, MountedSoFar, Busy
<1>2. scene = Mounted(Worker, heap[gripper.params])
  <2>1. scene = [fingers |-> scene.fingers, device |-> scene.device]
    BY DEF Typed, TypeOK, WorkCell
  <2>2. scene.fingers = IF HasFingers(Worker) THEN {Mesh(heap[gripper.params])} ELSE {}
    BY DEF MountedSoFar
  <2>3. scene.device = IF HasDevice(Worker) THEN {Device(heap[gripper.params])} ELSE {}
    BY DEF MountedSoFar
  <2>4. QED
    BY <2>1, <2>2, <2>3 DEF Mounted
<1>3. gripper.quality = {scene}
  BY DEF MountedSoFar
<1>4. QED
  BY <1>1, <1>2, <1>3 DEF File

(* A file that is added reproduces its quality, and those there are go on  *)
(* doing so.                                                               *)
LEMMA FilesAdded ==
  ASSUME Typed, MountedSoFar, FilesReproduce, pc = "save", UNCHANGED scripted,
         saved' = Append(saved, File(gripper)) \/ saved' = saved
  PROVE  FilesReproduce'
<1> DEFINE Good(f) == f.quality = {Mounted(f.class, f.params)}
<1> DEFINE f0 == File(gripper)
<1>1. Good(f0)
  BY FileReproduces
<1>2. \A k \in DOMAIN saved : Good(saved[k])
  BY DEF FilesReproduce
<1>3. \A k \in DOMAIN saved' : Good(saved'[k])
  <2>1. saved \in Seq([class : Classes, params : Parametrization,
                       quality : SUBSET WorkCell, line : Seq(Values)])
    BY DEF Typed, TypeOK
  <2>2. saved' = Append(saved, f0) \/ saved' = saved
    OBVIOUS
  <2> HIDE DEF Good, f0
  <2>3. QED
    BY <1>1, <1>2, <2>1, <2>2
<1>4. QED
  BY <1>3 DEF FilesReproduce, Mounted, Mesh, Device

LEMMA InitFiles == Init => FilesInv
BY DEF Init, FilesInv, MountedSoFar, FilesReproduce, Busy, Worker
LEMMA FilesPreserved == Typed /\ FilesInv /\ [Next]_vars => FilesInv'
<1> SUFFICES ASSUME Typed, FilesInv, [Next]_vars PROVE FilesInv'
  OBVIOUS
<1> USE DEF Busy
<1>1. CASE UNCHANGED vars
  BY <1>1 DEF vars, settings, FilesInv, MountedSoFar, FilesReproduce, Worker, Mounted, Mesh, Device
<1>2. ASSUME UNCHANGED <<settings, saved>> PROVE FilesReproduce'
  BY <1>2 DEF settings, FilesInv, FilesReproduce, Mounted, Mesh, Device
<1>3. CASE ReadGuess
  <2>1. MountedSoFar'
    BY <1>3 DEF ReadGuess, settings, FilesInv, MountedSoFar, Worker
  <2>2. QED
    BY <1>2, <1>3, <2>1 DEF ReadGuess, FilesInv
<1>4. CASE Build
  <2>1. gripper'.class = CloneClass(class) /\ Worker' = CloneClass(class) /\ Worker' = Worker
    BY <1>4 DEF Build, settings, Worker
  <2>2. MountedSoFar'
    BY <1>4, <2>1 DEF Build, settings, FilesInv, MountedSoFar
  <2>3. QED
    BY <1>2, <1>4, <2>2 DEF Build, FilesInv
<1>5. CASE Modify
  <2>1. program # "optimize" /\ gripper' = gripper /\ Worker' = Worker
    BY <1>5 DEF Modify, settings, Worker
  <2>2. MountedSoFar'
    BY <1>5, <2>1 DEF Modify, settings, FilesInv, MountedSoFar, Worker
  <2>3. QED
    BY <1>2, <1>5, <2>2 DEF Modify, FilesInv
<1>6. CASE MakeFingers
  <2>1. gripper.class = Worker /\ Worker' = Worker
    BY <1>6 DEF MakeFingers, settings, FilesInv, MountedSoFar, Worker
  <2>2. Mesh(heap[gripper.params])' = Mesh(heap[gripper.params])
    BY <1>6 DEF MakeFingers, settings, Mesh
  <2>3. /\ scene'.device = scene.device
        /\ HasFingers(Worker) => scene'.fingers = {Mesh(heap[gripper.params])}
        /\ ~HasFingers(Worker) => scene'.fingers = scene.fingers
    BY <1>6, <2>1 DEF MakeFingers, Generators, Typed, TypeOK, WorkCell
  <2>4. MountedSoFar'
    BY <1>6, <2>1, <2>2, <2>3 DEF MakeFingers, settings, FilesInv, MountedSoFar
  <2>5. QED
    BY <1>2, <1>6, <2>4 DEF MakeFingers, FilesInv
<1>7. CASE SetDevice
  <2>1. gripper.class = Worker /\ Worker' = Worker
    BY <1>7 DEF SetDevice, settings, FilesInv, MountedSoFar, Worker
  <2>2. /\ Mesh(heap[gripper.params])' = Mesh(heap[gripper.params])
        /\ Device(heap[gripper.params])' = Device(heap[gripper.params])
    BY <1>7 DEF SetDevice, settings, Mesh, Device
  <2>3. /\ scene'.fingers = scene.fingers
        /\ HasDevice(Worker) => scene'.device = {Device(heap[gripper.params])}
        /\ ~HasDevice(Worker) => scene'.device = scene.device
    BY <1>7, <2>1 DEF SetDevice, Typed, TypeOK, WorkCell
  <2>4. MountedSoFar'
    BY <1>7, <2>1, <2>2, <2>3 DEF SetDevice, settings, FilesInv, MountedSoFar
  <2>5. QED
    BY <1>2, <1>7, <2>4 DEF SetDevice, FilesInv
<1>8. CASE Simulate
  <2>1. /\ gripper'.class = gripper.class /\ gripper'.params = gripper.params
        /\ gripper'.quality = {scene} /\ Worker' = Worker
    BY <1>8 DEF Simulate, settings, Typed, TypeOK, Worker
  <2>2. /\ Mesh(heap[gripper.params])' = Mesh(heap[gripper.params])
        /\ Device(heap[gripper.params])' = Device(heap[gripper.params])
    BY <1>8, <2>1 DEF Simulate, settings, Mesh, Device
  <2>3. MountedSoFar'
    BY <1>8, <2>1, <2>2 DEF Simulate, settings, FilesInv, MountedSoFar
  <2>4. QED
    BY <1>2, <1>8, <2>3 DEF Simulate, FilesInv
<1>9. CASE SaveStep \/ SaveFound \/ SaveEvaluated
  <2>1. /\ pc = "save" /\ UNCHANGED scripted /\ pc' \notin Busy
        /\ gripper' = gripper /\ scene' = scene /\ UNCHANGED settings
        /\ saved' = Append(saved, File(gripper)) \/ saved' = saved
    BY <1>9 DEF SaveStep, SaveFound, SaveEvaluated, settings
  <2>2. Worker' = Worker
    BY <2>1 DEF settings, Worker
  <2>3. FilesReproduce'
    BY <2>1, FilesAdded DEF FilesInv
  <2>4. MountedSoFar'
    BY <2>1, <2>2 DEF settings, FilesInv, MountedSoFar
  <2>5. QED
    BY <2>3, <2>4 DEF FilesInv
<1>10. CASE Throws
  <2>1. MountedSoFar'
    BY <1>10 DEF Throws, settings, FilesInv, MountedSoFar, Worker
  <2>2. QED
    BY <1>2, <1>10, <2>1 DEF Throws, FilesInv
<1>11. QED
  BY <1>1, <1>3, <1>4, <1>5, <1>6, <1>7, <1>8, <1>9, <1>10 DEF Next

(* Mounted anew, a saved gripper is what it was simulated as, whatever the *)
(* process had built before.                                               *)
THEOREM FilesAreReproducible == Spec => []FilesReproduce
<1>1. FilesInv => FilesReproduce
  BY DEF FilesInv
<1>2. QED
  BY <1>1, InitTyped, TypedPreserved, InitFiles, FilesPreserved, PTL DEF Spec, Safety

----------------------------------------------------------------------------
(* Searches.                                                               *)

(* A search only adds parametrizations; the other tools change theirs only *)
(* between two evaluations.                                                *)
THEOREM BuiltGrippersAreKept == Spec => BuiltIsKept
<1>1. ASSUME Typed, [Next]_vars
      PROVE  [ \/ program # "optimize" /\ pc \in {"start", "ask"}
               \/ \A a \in DOMAIN heap : a \in DOMAIN heap' /\ heap'[a] = heap[a] ]_vars
  <2>1. CASE heap' = heap
    BY <2>1
  <2>2. CASE Build
    BY <1>1, <2>2, BuildStep
  <2>3. CASE Modify
    BY <2>3 DEF Modify
  <2>4. QED
    BY <1>1, <2>1, <2>2, <2>3 DEF Next, ReadGuess, MakeFingers, SetDevice, Simulate, SaveStep,
       SaveFound, SaveEvaluated, Throws, vars
<1>2. QED
  BY <1>1, InitTyped, TypedPreserved, PTL DEF Spec, Safety, BuiltIsKept

(* The gripper at work is the prototype with a vector; so are its files.   *)
LogInv ==
  program = "optimize" =>
  /\ pc \in Busy => \E v \in Vectors : heap[gripper.params] = Apply(names, heap[1], v)
  /\ \A k \in DOMAIN saved : Apply(names, heap[1], saved[k].line) = Rounded(saved[k].params)

LEMMA InitLog == Init => LogInv
BY DEF Init, LogInv, Busy
(* Steps that neither build, nor change, nor save.                         *)
LEMMA LogSame ==
  ASSUME LogInv, UNCHANGED <<settings, heap, saved>>, gripper'.params = gripper.params,
         pc' \in Busy => pc \in Busy
  PROVE  LogInv'
<1>1. Vectors' = Vectors
  BY DEF settings, Vectors
<1>2. QED
  BY <1>1 DEF LogInv, Rounded, settings

LEMMA LogPreserved == Typed /\ LogInv /\ [Next]_vars => LogInv'
<1> SUFFICES ASSUME Typed, LogInv, [Next]_vars PROVE LogInv'
  OBVIOUS
<1> USE DEF Busy
<1>1. CASE UNCHANGED vars
  BY <1>1, LogSame DEF vars, settings
<1>2. CASE ReadGuess \/ MakeFingers \/ SetDevice \/ Throws
  <2>1. /\ UNCHANGED <<settings, heap, saved, gripper>>
        /\ pc' \in Busy => pc \in Busy
    BY <1>2 DEF ReadGuess, MakeFingers, SetDevice, Throws
  <2>2. QED
    BY <2>1, LogSame
<1>3. CASE Simulate
  <2>1. gripper'.params = gripper.params
    BY <1>3 DEF Simulate, Typed, TypeOK
  <2>2. QED
    BY <1>3, <2>1, LogSame DEF Simulate
<1>4. CASE Build
  <2>1. PICK v \in Vectors :
          /\ heap'[1] = heap[1]
          /\ heap'[Len(heap')] = Apply(names, heap[1], v)
    BY <1>4, BuildStep
  <2>2. gripper'.params = Len(heap') /\ UNCHANGED <<settings, saved>>
    BY <1>4 DEF Build
  <2>3. program = "optimize" /\ program' = program
    BY <1>4 DEF Build, settings
  <2>4. \E w \in Vectors' : heap'[gripper'.params] = Apply(names', heap'[1], w)
    BY <2>1, <2>2 DEF settings, Vectors
  <2>5. \A k \in DOMAIN saved : Apply(names, heap[1], saved[k].line) = Rounded(saved[k].params)
    BY <2>3 DEF LogInv
  <2>6. QED
    BY <2>1, <2>2, <2>4, <2>5 DEF LogInv, Rounded, settings
<1>5. CASE Modify \/ SaveFound \/ SaveEvaluated
  <2>1. program' # "optimize"
    BY <1>5 DEF Modify, SaveFound, SaveEvaluated, settings
  <2>2. QED
    BY <2>1 DEF LogInv
<1>6. CASE SaveStep
  <2>1. /\ pc = "save" /\ program = "optimize" /\ pc' \notin Busy
        /\ saved' = Append(saved, File(gripper)) /\ UNCHANGED <<settings, heap>>
    BY <1>6 DEF SaveStep, settings
  <2>2. PICK v \in Vectors : heap[gripper.params] = Apply(names, heap[1], v)
    BY <2>1 DEF LogInv
  <2>3. names \in Seq(Parameters) /\ Knows(heap[1])
    BY <2>1, NamesAssumption DEF Typed, TypeOK, NamesKnown
  <2>4. Apply(names, heap[1], Logged(VectorOf(gripper))) = Rounded(heap[gripper.params])
    BY <2>2, <2>3, ApplyReadBack DEF VectorOf
  <2>5. Apply(names, heap[1], File(gripper).line) = Rounded(File(gripper).params)
    BY <2>4 DEF File
  <2>6. \A k \in DOMAIN saved' : Apply(names, heap[1], saved'[k].line) = Rounded(saved'[k].params)
    <3> DEFINE f0 == File(gripper)
    <3> DEFINE Good(f) == Apply(names, heap[1], f.line) = Rounded(f.params)
    <3>1. \A k \in DOMAIN saved : Good(saved[k])
      BY <2>1 DEF LogInv
    <3>2. saved' = Append(saved, f0) /\ Good(f0)
      BY <2>1, <2>5
    <3>3. saved \in Seq([class : Classes, params : Parametrization,
                         quality : SUBSET WorkCell, line : Seq(Values)])
      BY DEF Typed, TypeOK
    <3>4. \A k \in DOMAIN saved' : Good(saved'[k])
      <4> HIDE DEF Good, f0
      <4>1. QED
        BY <3>1, <3>2, <3>3
    <3>5. QED
      BY <3>4
  <2>7. QED
    BY <2>1, <2>6 DEF LogInv, Rounded, settings
<1>7. QED
  BY <1>1, <1>2, <1>3, <1>4, <1>5, <1>6 DEF Next

(* With the prototype, a line of the log gives back the parameters of the  *)
(* step's file up to the six digits of the log, whatever names are listed  *)
(* and however often.                                                      *)
THEOREM LogIsEnough == Spec => []LogRebuildsRounded
<1>1. LogInv => LogRebuildsRounded
  BY DEF LogInv, LogRebuildsRounded
<1>2. QED
  BY <1>1, InitTyped, TypedPreserved, InitLog, LogPreserved, PTL DEF Spec, Safety

----------------------------------------------------------------------------
(* The programs run down.                                                  *)

(* A search asks for no more grippers than it may.                         *)
Few == program = "optimize" => tries <= NTries

LEMMA FewPreserved ==
  ASSUME TypeOK, Few, [Next]_vars
  PROVE  Few'
<1> USE BoundsAssumption
<1>1. CASE Build
  BY <1>1 DEF Build, AskOrEnd, settings, Few, TypeOK
<1>2. CASE SaveFound
  BY <1>2 DEF SaveFound, settings, Few
<1>3. CASE UNCHANGED <<program, tries>>
  BY <1>3 DEF Few
<1>4. QED
  BY <1>1, <1>2, <1>3 DEF Next, ReadGuess, Modify, MakeFingers, SetDevice, Simulate, SaveStep,
     SaveEvaluated, Throws, settings, vars

LEMMA StepsToPlaces ==
  /\ StepsTo("start") = 6 /\ StepsTo("ask") = 5 /\ StepsTo("fingers") = 4
  /\ StepsTo("device") = 3 /\ StepsTo("simulate") = 2 /\ StepsTo("save") = 1
<1>1. StepsTo("start") = 6
  BY DEF StepsTo
<1>2. StepsTo("ask") = 5
  BY DEF StepsTo
<1>3. StepsTo("fingers") = 4
  BY DEF StepsTo
<1>4. StepsTo("device") = 3
  BY DEF StepsTo
<1>5. StepsTo("simulate") = 2
  BY DEF StepsTo
<1>6. StepsTo("save") = 1
  BY DEF StepsTo
<1>7. QED
  BY <1>1, <1>2, <1>3, <1>4, <1>5, <1>6

LEMMA AfterTyped == TypeOK /\ Few => GrippersAfter \in Nat
<1> SUFFICES ASSUME TypeOK, Few PROVE GrippersAfter \in Nat
  OBVIOUS
<1> USE BoundsAssumption DEF TypeOK
<1>1. CASE program = "optimize"
  BY <1>1 DEF GrippersAfter, Few
<1>2. CASE program = "generate"
  BY <1>2 DEF GrippersAfter
<1>3. CASE program = "evaluate"
  BY <1>3 DEF GrippersAfter
<1>4. QED
  BY <1>1, <1>2, <1>3, ProgramsAssumption

(* The steps left are a number, and none are left only at the end.         *)
LEMMA LeftTyped ==
  ASSUME TypeOK, Few
  PROVE  Left \in Nat /\ (Left = 0 => pc \in Ended)
<1>1. CASE pc \in Ended
  BY <1>1 DEF Left
<1>2. CASE pc \notin Ended
  <2>1. StepsTo(pc) \in 1 .. 6
    BY <1>2, StepsToPlaces DEF TypeOK
  <2>2. QED
    BY <1>2, <2>1, AfterTyped DEF Left
<1>3. QED
  BY <1>1, <1>2

(* Inside an evaluation, from one place to the next.                       *)
LEMMA NextPlace ==
  ASSUME TypeOK, Few,
         UNCHANGED <<program, tries, final>>,
         \/ pc = "start" /\ pc' = "ask" /\ program = "optimize"
         \/ pc = "start" /\ pc' = "fingers" /\ program # "optimize"
         \/ pc = "ask" /\ pc' = "fingers" /\ program # "optimize"
         \/ pc = "fingers" /\ pc' = "device"
         \/ pc = "device" /\ pc' = "simulate"
         \/ pc = "simulate" /\ pc' = "save"
  PROVE  Left' < Left
<1>1. GrippersAfter' = GrippersAfter
  <2>1. CASE program = "optimize"
    BY <2>1 DEF GrippersAfter
  <2>2. CASE program # "optimize"
    <3>1. CASE program = "generate"
      BY <3>1 DEF GrippersAfter
    <3>2. CASE program = "evaluate"
      BY <3>2 DEF GrippersAfter
    <3>3. QED
      BY <2>2, <3>1, <3>2, ProgramsAssumption DEF TypeOK
  <2>3. QED
    BY <2>1, <2>2
<1>2. GrippersAfter \in Nat
  BY AfterTyped
<1>3. /\ pc \notin Ended /\ pc' \notin Ended
      /\ StepsTo(pc) \in 1 .. 6 /\ StepsTo(pc') \in 1 .. 6 /\ StepsTo(pc') < StepsTo(pc)
  BY StepsToPlaces DEF Ended
<1>4. Left = 6 * GrippersAfter + StepsTo(pc)
  BY <1>3 DEF Left
<1>5. Left' = 6 * GrippersAfter' + StepsTo(pc')
  BY <1>3 DEF Left
<1>6. QED
  BY <1>1, <1>2, <1>3, <1>4, <1>5

(* The end, wherever it is met.                                            *)
LEMMA ToTheEnd ==
  ASSUME TypeOK, Few, pc \notin Ended, pc' \in Ended
  PROVE  Left' < Left
<1>1. Left \in Nat /\ Left # 0
  BY LeftTyped
<1>2. Left' = 0
  BY DEF Left
<1>3. QED
  BY <1>1, <1>2

(* The search asks for one more gripper, or for its result.                *)
LEMMA AskedForOne ==
  ASSUME TypeOK, Few, Build
  PROVE  Left' < Left
<1> USE BoundsAssumption
<1>1. /\ pc = "ask" /\ pc' = "fingers" /\ program = "optimize" /\ program' = "optimize"
      /\ tries \in Nat /\ tries <= NTries
  BY DEF Build, settings, TypeOK, Few
<1>2. GrippersAfter = IF final THEN 0 ELSE NTries - tries
  BY <1>1 DEF GrippersAfter
<1>3. GrippersAfter' = IF final' THEN 0 ELSE NTries + 1 - tries'
  BY <1>1 DEF GrippersAfter
<1>4. Left = 6 * GrippersAfter + 5
  BY <1>1, StepsToPlaces DEF Left, Ended
<1>5. Left' = 6 * GrippersAfter' + 4
  BY <1>1, StepsToPlaces DEF Left, Ended
<1>6. CASE tries' = tries + 1 /\ final' = final
  BY <1>1, <1>2, <1>3, <1>4, <1>5, <1>6
<1>7. CASE final' = TRUE /\ tries' = tries
  BY <1>1, <1>2, <1>3, <1>4, <1>5, <1>7
<1>8. QED
  BY <1>6, <1>7 DEF Build, AskOrEnd

(* A gripper is saved, or was not good enough, and another is asked for.   *)
LEMMA SavedOne ==
  ASSUME TypeOK, Few, SaveStep \/ SaveFound \/ SaveEvaluated
  PROVE  Left' < Left
<1> USE BoundsAssumption
<1>1. CASE pc' \in Ended
  BY <1>1, ToTheEnd DEF SaveStep, SaveFound, SaveEvaluated, Ended
<1>2. CASE SaveStep /\ pc' \notin Ended
  <2>1. /\ pc = "save" /\ pc' = "ask" /\ program = "optimize" /\ program' = "optimize"
        /\ ~final /\ ~final' /\ tries' = tries /\ tries \in Nat
    BY <1>2 DEF SaveStep, settings, Ended, TypeOK
  <2>2. GrippersAfter = NTries + 1 - tries
    BY <2>1 DEF GrippersAfter
  <2>3. GrippersAfter' = NTries - tries
    BY <2>1 DEF GrippersAfter
  <2>4. Left = 6 * GrippersAfter + 1
    BY <2>1, StepsToPlaces DEF Left, Ended
  <2>5. Left' = 6 * GrippersAfter' + 5
    BY <2>1, StepsToPlaces DEF Left, Ended
  <2>6. QED
    BY <2>1, <2>2, <2>3, <2>4, <2>5
<1>3. CASE SaveFound /\ pc' \notin Ended
  <2>1. /\ pc = "save" /\ pc' = "ask" /\ program = "generate" /\ program' = "generate"
        /\ tries' = tries + 1 /\ tries' < NTries /\ tries \in Nat
    BY <1>3 DEF SaveFound, Tried, settings, Ended, TypeOK
  <2>2. GrippersAfter = NTries - tries - 1
    BY <2>1 DEF GrippersAfter
  <2>3. GrippersAfter' = NTries - tries - 2
    BY <2>1 DEF GrippersAfter
  <2>4. Left = 6 * GrippersAfter + 1
    BY <2>1, StepsToPlaces DEF Left, Ended
  <2>5. Left' = 6 * GrippersAfter' + 5
    BY <2>1, StepsToPlaces DEF Left, Ended
  <2>6. QED
    BY <2>1, <2>2, <2>3, <2>4, <2>5
<1>4. QED
  BY <1>1, <1>2, <1>3 DEF SaveEvaluated, Ended

(* For every number of grippers and of tries, each step of each of the     *)
(* three programs leaves fewer steps: none of them can go on for ever.     *)
THEOREM ProgramsRunDown == Spec => ProgramRunsDown
<1>1. Init => Typed /\ Few
  BY InitTyped, BoundsAssumption DEF Init, Few
<1>2. Typed /\ Few /\ [Next]_vars => (Typed /\ Few)'
  BY TypedPreserved, FewPreserved DEF Typed
<1>3. ASSUME Typed /\ Few, [Next]_vars PROVE [Left' < Left]_vars
  <2>1. TypeOK /\ Few
    BY <1>3 DEF Typed
  <2>2. CASE ReadGuess
    <3>1. CASE pc' = "ask"
      BY <2>1, <2>2, <3>1, NextPlace DEF ReadGuess, settings
    <3>2. CASE pc' # "ask"
      BY <2>1, <2>2, <3>2, ToTheEnd DEF ReadGuess, Ended
    <3>3. QED
      BY <3>1, <3>2
  <2>3. CASE Modify \/ MakeFingers \/ SetDevice \/ Simulate
    BY <2>1, <2>3, NextPlace DEF Modify, MakeFingers, SetDevice, Simulate, settings
  <2>4. CASE Throws
    BY <2>1, <2>4, ToTheEnd DEF Throws, Ended
  <2>5. QED
    BY <1>3, <2>1, <2>2, <2>3, <2>4, AskedForOne, SavedOne DEF Next
<1>4. QED
  BY <1>1, <1>2, <1>3, PTL DEF Spec, Safety, ProgramRunsDown
=============================================================================
