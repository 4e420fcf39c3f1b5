------------------------- MODULE OptimizationProofs -------------------------
(***************************************************************************)
(* For every number of parameters, every limit and all qualities: what a   *)
(* search returns no evaluated point beats, it exceeds its limit by one    *)
(* turn at most, and it is a Search.                                       *)
(***************************************************************************)
EXTENDS Optimization, TLAPS

(* All points so far have a number for a value.                            *)
Numbers(es) == \A i \in 1..Len(es) : ValueOf(es, i) # NaN

(* None of the first m points beats point i.                               *)
NoneBeats(es, m, i) == \A j \in 1..m : ~Beats(es, j, i)

(* Every point is matched by one of the first m vertices.                  *)
Covered(es, vs, m) == \A i \in 1..Len(es) : \E k \in 1..m : ~Beats(es, i, vs[k])

(* The values are numbers or NaN, so that the order on them is total but   *)
(* for the NaN.                                                            *)
LEMMA Values == ASSUME NEW es \in Seq(Evaluation), NEW i \in 1..Len(es)
                PROVE  ValueOf(es, i) \in Int \cup {NaN}
<1>1. es[i] \in Evaluation
  OBVIOUS
<1>2. \A q \in Quality : q \in Int \cup {NaN} /\ Reverted(q) \in Int \cup {NaN}
  BY QualityAssumption DEF Reverted
<1>3. es[i].value \in Value
  BY <1>1 DEF Evaluation
<1>4. QED
  BY <1>2, <1>3 DEF Value, ValueOf

(* One more evaluation changes nothing for the points before.              *)
LEMMA Extend ==
  ASSUME NEW es \in Seq(Evaluation), NEW e \in Evaluation
  PROVE  /\ Append(es, e) \in Seq(Evaluation)
         /\ Len(Append(es, e)) = Len(es) + 1
         /\ \A i \in 1..Len(es) : ValueOf(Append(es, e), i) = ValueOf(es, i)
         /\ \A i, j \in 1..Len(es) :
              Beats(Append(es, e), i, j) <=> Beats(es, i, j)
         /\ Numbers(Append(es, e)) => Numbers(es)
<1>1. /\ Append(es, e) \in Seq(Evaluation)
      /\ Len(Append(es, e)) = Len(es) + 1
      /\ \A i \in 1..Len(es) : Append(es, e)[i] = es[i]
  OBVIOUS
<1>2. \A i \in 1..Len(es) : ValueOf(Append(es, e), i) = ValueOf(es, i)
  BY <1>1 DEF ValueOf
<1>3. \A i, j \in 1..Len(es) : Beats(Append(es, e), i, j) <=> Beats(es, i, j)
  BY <1>2 DEF Beats
<1>4. ASSUME Numbers(Append(es, e)) PROVE Numbers(es)
  <2>1. \A i \in 1..Len(es) : i \in 1..Len(Append(es, e))
    BY <1>1
  <2>2. QED
    BY <1>2, <1>4, <2>1 DEF Numbers
<1>5. QED
  BY <1>1, <1>2, <1>3, <1>4

(* What does not beat a number that does not beat a third point does not   *)
(* beat the third point either.                                            *)
LEMMA Transitive ==
  ASSUME NEW es \in Seq(Evaluation),
         NEW i \in 1..Len(es), NEW j \in 1..Len(es), NEW k \in 1..Len(es),
         ValueOf(es, j) # NaN, ~Beats(es, i, j), ~Beats(es, j, k)
  PROVE  ~Beats(es, i, k)
<1>1. /\ ValueOf(es, i) \in Int \cup {NaN}
      /\ ValueOf(es, j) \in Int \cup {NaN}
      /\ ValueOf(es, k) \in Int \cup {NaN}
  BY Values
<1>2. QED
  BY <1>1 DEF Beats, Less

(* A point does not beat itself, nor a point that it was beaten by.        *)
LEMMA Asymmetric ==
  ASSUME NEW es \in Seq(Evaluation), NEW i \in 1..Len(es), NEW j \in 1..Len(es)
  PROVE  ~Beats(es, i, i) /\ (Beats(es, i, j) => ~Beats(es, j, i))
<1>1. ValueOf(es, i) \in Int \cup {NaN} /\ ValueOf(es, j) \in Int \cup {NaN}
  BY Values
<1>2. QED
  BY <1>1 DEF Beats, Less

(* The better one of two points is beaten by neither, and is a number if   *)
(* the first one is.                                                       *)
LEMMA BetterOfTwo ==
  ASSUME NEW es \in Seq(Evaluation), NEW i \in 1..Len(es), NEW j \in 1..Len(es),
         ValueOf(es, i) # NaN
  PROVE  LET b == Better(es, i, j)
         IN  /\ b \in 1..Len(es)
             /\ ValueOf(es, b) # NaN
             /\ ~Beats(es, i, b)
             /\ ~Beats(es, j, b)
<1>1. ValueOf(es, i) \in Int \cup {NaN} /\ ValueOf(es, j) \in Int \cup {NaN}
  BY Values
<1>2. QED
  BY <1>1 DEF Better, Beats, Less

(* The best so far and a new point: the better one is the best so far.     *)
LEMMA BetterIsBest ==
  ASSUME NEW es \in Seq(Evaluation), NEW m \in Nat, m < Len(es),
         NEW b \in 1..m, ValueOf(es, b) # NaN, NoneBeats(es, m, b)
  PROVE  LET c == Better(es, b, m + 1)
         IN  /\ c \in 1..m + 1
             /\ ValueOf(es, c) # NaN
             /\ NoneBeats(es, m + 1, c)
<1> DEFINE c == Better(es, b, m + 1)
<1>1. c \in {b, m + 1} /\ c \in 1..m + 1
  BY DEF Better
<1>2. c \in 1..Len(es) /\ ValueOf(es, c) # NaN /\ ~Beats(es, b, c) /\ ~Beats(es, m + 1, c)
  <2>1. b \in 1..Len(es) /\ m + 1 \in 1..Len(es)
    OBVIOUS
  <2>2. QED
    BY <2>1, BetterOfTwo
<1>3. ASSUME NEW j \in 1..m PROVE ~Beats(es, j, c)
  <2>1. ~Beats(es, j, b)
    BY DEF NoneBeats
  <2>2. j \in 1..Len(es) /\ b \in 1..Len(es)
    OBVIOUS
  <2>3. QED
    BY <1>2, <2>1, <2>2, Transitive
<1>4. NoneBeats(es, m + 1, c)
  BY <1>2, <1>3 DEF NoneBeats
<1>5. QED
  BY <1>1, <1>2, <1>4

(* Sorting: the vertices are the same ones, and none of them beats the     *)
(* first.                                                                  *)
LEMMA Sorted ==
  ASSUME NEW es \in Seq(Evaluation), NEW vs \in [1..Dim + 1 -> 1..Len(es)],
         NEW t \in Sorts(es, vs)
  PROVE  /\ t \in [1..Dim + 1 -> 1..Len(es)]
         /\ Numbers(es) => \A k \in 1..Dim + 1 : ~Beats(es, vs[k], t[1])
<1> USE DimAssumption
<1>1. PICK p \in Shuffles : t = [i \in 1..Dim + 1 |-> vs[p[i]]]
  BY DEF Sorts
<1>2. p \in [1..Dim + 1 -> 1..Dim + 1] /\ \A i \in 1..Dim + 1 : \E j \in 1..Dim + 1 : p[j] = i
  BY DEF Shuffles
<1>3. t \in [1..Dim + 1 -> 1..Len(es)]
  BY <1>1, <1>2
<1>4. ASSUME Numbers(es), NEW k \in 1..Dim + 1
      PROVE  ~Beats(es, vs[k], t[1])
  <2>1. \A i \in 1..Dim + 1 : ValueOf(es, vs[i]) # NaN
    BY <1>4 DEF Numbers
  <2>2. \A i, j \in 1..Dim + 1 : i < j => ~Beats(es, t[j], t[i])
    BY <2>1 DEF Sorts
  <2>3. PICK j \in 1..Dim + 1 : p[j] = k
    BY <1>2
  <2>4. t[j] = vs[k]
    BY <1>1, <2>3
  <2>5. CASE j = 1
    <3>1. t[1] \in 1..Len(es)
      BY <1>3
    <3>2. QED
      BY <2>4, <2>5, <3>1, Asymmetric
  <2>6. CASE j # 1
    BY <2>2, <2>4, <2>6
  <2>7. QED
    BY <2>5, <2>6
<1>5. QED
  BY <1>3, <1>4

(* The first of the sorted vertices is the best point of all.              *)
LEMMA FirstIsBest ==
  ASSUME NEW es \in Seq(Evaluation), NEW vs \in [1..Dim + 1 -> 1..Len(es)],
         NEW t \in Sorts(es, vs), Numbers(es), Covered(es, vs, Dim + 1)
  PROVE  NoneBeats(es, Len(es), t[1])
<1> USE DimAssumption
<1>1. t \in [1..Dim + 1 -> 1..Len(es)] /\ \A k \in 1..Dim + 1 : ~Beats(es, vs[k], t[1])
  BY Sorted
<1>2. ASSUME NEW i \in 1..Len(es) PROVE ~Beats(es, i, t[1])
  <2>1. PICK k \in 1..Dim + 1 : ~Beats(es, i, vs[k])
    BY DEF Covered
  <2>2. vs[k] \in 1..Len(es) /\ t[1] \in 1..Len(es) /\ ~Beats(es, vs[k], t[1])
    BY <1>1
  <2>3. ValueOf(es, vs[k]) # NaN
    BY <2>2 DEF Numbers
  <2>4. QED
    BY <2>1, <2>2, <2>3, Transitive
<1>3. QED
  BY <1>2 DEF NoneBeats

----------------------------------------------------------------------------
(* Which optimizer is where, and which points its variables name.          *)
Turning == {"reflect", "expand", "contract", "reduce"}

Phase ==
  /\ pc \in {"minus", "plus"} => optimizer \in {"coord", "powell"}
  /\ pc = "neighbour" => optimizer = "simu"
  /\ pc \in Turning => optimizer = "simplex"
  /\ pc = "nodes" => optimizer = "rbf"
  /\ pc = "model" => optimizer \in {"bobyqa", "rbf"}
  /\ pc = "guess" => Len(evals) <= IF optimizer = "simplex" THEN Dim ELSE 0

Named ==
  /\ pc = "guess" => \A i \in Points : vertices[i] = i
  /\ pc \in Turning => vertices \in [1..Dim + 1 -> Points]
  /\ pc \in {"minus", "neighbour"} \/ Found => best \in Points
  /\ pc = "plus" => best \in 1..Len(evals) - 1
  /\ pc = "neighbour" => current \in Points
  /\ pc \in {"expand", "contract", "reduce"} => Len(evals) > 0

Shape == TypeOK /\ Phase /\ Named

(* What an evaluation does, whoever asks for it.                           *)
LEMMA Evaluated ==
  ASSUME TypeOK, NEW e \in Answers, Evaluate(e)
  PROVE  /\ e \in Evaluation
         /\ evals' = Append(evals, e)
         /\ evals' \in Seq(Evaluation)
         /\ Len(evals') = Len(evals) + 1
         /\ Len(evals) \in Nat
         /\ log' \in Seq([point : Nat, q : Quality \cup {NaN}])
<1>1. e \in Evaluation
  BY DEF Answers
<1>2. evals \in Seq(Evaluation) /\ evals' = Append(evals, e)
  BY DEF TypeOK, Evaluate
<1>3. evals' \in Seq(Evaluation) /\ Len(evals') = Len(evals) + 1 /\ Len(evals) \in Nat
  BY <1>1, <1>2
<1> DEFINE entry == [point |-> Len(evals) + 1, q |-> e.q]
           entries == [point : Nat, q : Quality \cup {NaN}]
<1>4. entry \in entries
  BY <1>1, <1>3 DEF Evaluation
<1>5. log' \in Seq(entries)
  <2>1. log \in Seq(entries)
    BY DEF TypeOK
  <2>2. log' = log \/ log' = Append(log, entry)
    BY DEF Evaluate
  <2>3. QED
    <3> HIDE DEF entry, entries
    <3> QED
      BY <1>4, <2>1, <2>2
<1>6. QED
  BY <1>1, <1>2, <1>3, <1>5

(* The end of a turn of the simplex.                                       *)
LEMMA TurnShape ==
  ASSUME TypeOK, NEW es \in Seq(Evaluation), NEW vs \in [1..Dim + 1 -> 1..Len(es)],
         EndTurn(es, vs)
  PROVE  /\ vertices' \in [1..Dim + 1 -> 1..Len(es)]
         /\ best' = vertices'[1]
         /\ best' \in 1..Len(es)
         /\ pc' \in {"mapped", "reflect"}
         /\ pc' = "reflect" => Len(es) < MaxEvaluations
<1>1. vertices' \in Sorts(es, vs) /\ best' = vertices'[1]
  BY DEF EndTurn
<1>2. vertices' \in [1..Dim + 1 -> 1..Len(es)]
  BY <1>1, Sorted
<1>3. best' \in 1..Len(es)
  BY <1>1, <1>2, DimAssumption
<1>4. Len(es) \in Nat
  OBVIOUS
<1>5. pc' \in {"mapped", "reflect"} /\ (pc' = "reflect" => Len(es) < MaxEvaluations)
  BY <1>4, MaxAssumption DEF EndTurn
<1>6. QED
  BY <1>1, <1>2, <1>3, <1>5

LEMMA InitShape == Init => Shape
<1> SUFFICES ASSUME Init PROVE Shape
  OBVIOUS
<1>1. evals = <<>> /\ Len(evals) = 0 /\ log = <<>>
  BY DEF Init
<1>2. TypeOK
  BY <1>1, DimAssumption DEF Init, TypeOK
<1>3. Phase /\ Named
  BY <1>1, DimAssumption DEF Init, Phase, Named, Turning, Found, Points
<1>4. QED
  BY <1>2, <1>3 DEF Shape

(* Points keep their numbers.                                              *)
LEMMA Grows ==
  ASSUME TypeOK, NEW e \in Answers, Evaluate(e)
  PROVE  /\ 0..Len(evals) \subseteq 0..Len(evals')
         /\ 1..Len(evals) \subseteq 1..Len(evals')
         /\ Len(evals') \in 1..Len(evals')
         /\ vertices \in [1..Dim + 1 -> 0..Len(evals')]
<1>1. Len(evals') = Len(evals) + 1 /\ Len(evals) \in Nat
  BY Evaluated
<1>2. 0..Len(evals) \subseteq 0..Len(evals')
  BY <1>1
<1>3. vertices \in [1..Dim + 1 -> 0..Len(evals)]
  BY DEF TypeOK
<1>4. QED
  BY <1>1, <1>2, <1>3

LEMMA ShapeOfDescent ==
  ASSUME Shape, TryMinus \/ TryPlus \/ Anneal \/ AskGuess
  PROVE  Shape'
<1> USE DimAssumption
<1> USE DEF Shape
<1>1. PICK e \in Answers : Evaluate(e)
  BY DEF TryMinus, TryPlus, Anneal, AskGuess
<1>2. /\ evals' \in Seq(Evaluation)
      /\ Len(evals') = Len(evals) + 1
      /\ Len(evals) \in Nat
      /\ log' \in Seq([point : Nat, q : Quality \cup {NaN}])
  BY <1>1, Evaluated
<1>3. /\ 0..Len(evals) \subseteq 0..Len(evals')
      /\ vertices' \in [1..Dim + 1 -> 0..Len(evals')]
  BY <1>1, Grows DEF TryMinus, TryPlus, Anneal, AskGuess
<1>4. CASE AskGuess
  <2>1. /\ pc' \in {"minus", "neighbour", "model"}
        /\ pc' = "minus" => optimizer \in {"coord", "powell"}
        /\ pc' = "neighbour" => optimizer = "simu"
        /\ pc' = "model" => optimizer = "bobyqa"
    BY <1>4, OptimizersAssumption DEF AskGuess, TypeOK
  <2>2. UNCHANGED <<optimizer, dir, constrained, next, saved>> /\ best' = 1 /\ current' = 1
    BY <1>4 DEF AskGuess, settings
  <2>3. TypeOK'
    BY <1>2, <1>3, <2>1, <2>2 DEF TypeOK
  <2>4. (Phase /\ Named)'
    BY <1>2, <2>1, <2>2 DEF Phase, Named, Turning, Found, Points
  <2>5. QED
    BY <2>3, <2>4
<1>5. CASE TryMinus
  <2>1. /\ pc = "minus" /\ pc' = "plus"
        /\ UNCHANGED <<optimizer, dir, constrained, best, current, vertices, next, saved>>
    BY <1>5 DEF TryMinus, settings
  <2>2. TypeOK'
    BY <1>2, <1>3, <2>1 DEF TypeOK
  <2>3. (Phase /\ Named)'
    BY <1>2, <2>1 DEF Phase, Named, Turning, Found, Points
  <2>4. QED
    BY <2>2, <2>3
<1>6. CASE TryPlus
  <2>1. /\ pc = "plus" /\ pc' \in {"minus", "mapped"}
        /\ UNCHANGED <<optimizer, dir, constrained, current, vertices, next, saved>>
    BY <1>6 DEF TryPlus, settings
  <2>2. best \in 1..Len(evals) - 1
    BY <2>1 DEF Named
  <2>3. best' \in {best, Len(evals), Len(evals) + 1}
    BY <1>6 DEF TryPlus, Better
  <2>4. best' \in 1..Len(evals')
    BY <1>2, <2>2, <2>3
  <2>5. TypeOK'
    BY <1>2, <1>3, <2>1, <2>4 DEF TypeOK
  <2>6. (Phase /\ Named)'
    BY <1>2, <2>1, <2>4 DEF Phase, Named, Turning, Found, Points
  <2>7. QED
    BY <2>5, <2>6
<1>7. CASE Anneal
  <2>1. /\ pc = "neighbour" /\ pc' \in {"neighbour", "mapped"}
        /\ UNCHANGED <<optimizer, dir, constrained, vertices, next, saved>>
    BY <1>7 DEF Anneal, settings
  <2>2. best \in Points /\ current \in Points
    BY <2>1 DEF Named
  <2>3. current' \in {current, Len(evals) + 1} /\ best' \in {best, current'}
    BY <1>7 DEF Anneal, Better
  <2>4. best' \in 1..Len(evals') /\ current' \in 1..Len(evals')
    BY <1>2, <2>2, <2>3 DEF Points
  <2>5. TypeOK'
    BY <1>2, <1>3, <2>1, <2>4 DEF TypeOK
  <2>6. (Phase /\ Named)'
    BY <1>2, <2>1, <2>4 DEF Phase, Named, Turning, Found, Points
  <2>7. QED
    BY <2>5, <2>6
<1>8. QED
  BY <1>4, <1>5, <1>6, <1>7

(* The last vertex is evaluated: vertex i is point i, for all of them.     *)
LEMMA Built ==
  ASSUME Shape, NEW e \in Answers, BuildSimplex, pc' # "guess", Evaluate(e)
  PROVE  /\ Len(evals') = Dim + 1
         /\ [vertices EXCEPT ![Len(evals')] = Len(evals')] = [i \in 1..Dim + 1 |-> i]
         /\ pc' = "reflect"
         /\ vertices' \in Sorts(evals', [i \in 1..Dim + 1 |-> i])
<1> USE DimAssumption DEF Shape
<1>1. Len(evals) \in Nat /\ Len(evals') = Len(evals) + 1 /\ evals' = Append(evals, e)
  BY Evaluated
<1>2. Len(evals) <= Dim
  BY DEF BuildSimplex, Phase
<1>3. PICK f \in Answers :
        /\ evals' = Append(evals, f)
        /\ ~(Len(evals) + 1 <= Dim)
        /\ pc' = "reflect"
        /\ vertices' \in Sorts(Append(evals, f),
                              [vertices EXCEPT ![Len(evals) + 1] = Len(evals) + 1])
  BY DEF BuildSimplex, Evaluate
<1>4. Len(evals') = Dim + 1
  BY <1>1, <1>2, <1>3
<1>5. vertices \in [1..Dim + 1 -> 0..Len(evals)] /\ \A i \in 1..Dim : vertices[i] = i
  BY <1>1, <1>4 DEF TypeOK, Named, BuildSimplex, Points
<1>6. [vertices EXCEPT ![Dim + 1] = Dim + 1] = [i \in 1..Dim + 1 |-> i]
  <2>1. \A i \in 1..Dim + 1 : i \in 1..Dim \/ i = Dim + 1
    OBVIOUS
  <2>2. QED
    BY <1>5, <2>1
<1>7. QED
  BY <1>1, <1>3, <1>4, <1>6

LEMMA ShapeOfBuilding == Shape /\ BuildSimplex => Shape'
<1> SUFFICES ASSUME Shape, BuildSimplex PROVE Shape'
  OBVIOUS
<1> USE DimAssumption DEF Shape
<1>1. PICK e \in Answers :
        /\ Evaluate(e)
        /\ \/ /\ Len(evals) + 1 <= Dim
              /\ vertices' = [vertices EXCEPT ![Len(evals) + 1] = Len(evals) + 1]
              /\ pc' = "guess"
           \/ pc' # "guess"
  BY DEF BuildSimplex
<1>2. /\ evals' \in Seq(Evaluation)
      /\ Len(evals') = Len(evals) + 1
      /\ Len(evals) \in Nat
      /\ log' \in Seq([point : Nat, q : Quality \cup {NaN}])
  BY <1>1, Evaluated
<1>3. /\ pc = "guess" /\ optimizer = "simplex"
      /\ UNCHANGED <<optimizer, dir, constrained, best, current, next, saved>>
  BY DEF BuildSimplex, settings
<1>4. 0..Len(evals) \subseteq 0..Len(evals')
  BY <1>2
<1>5. CASE pc' = "guess"
  <2>1. /\ Len(evals) + 1 <= Dim
        /\ vertices' = [vertices EXCEPT ![Len(evals) + 1] = Len(evals) + 1]
    BY <1>1, <1>5
  <2>2. vertices \in [1..Dim + 1 -> 0..Len(evals')]
    BY <1>1, Grows
  <2>3. vertices' \in [1..Dim + 1 -> 0..Len(evals')]
    BY <1>2, <2>1, <2>2
  <2>4. TypeOK'
    BY <1>2, <1>3, <1>4, <1>5, <2>3 DEF TypeOK
  <2>5. \A i \in 1..Len(evals) : vertices[i] = i
    BY <1>3 DEF Named, Points
  <2>6. \A i \in 1..Len(evals') : vertices'[i] = i
    BY <1>2, <2>1, <2>2, <2>5
  <2>7. (Phase /\ Named)'
    BY <1>2, <1>3, <1>5, <2>1, <2>6 DEF Phase, Named, Turning, Found, Points
  <2>8. QED
    BY <2>4, <2>7
<1>6. CASE pc' # "guess"
  <2> DEFINE vs == [i \in 1..Dim + 1 |-> i]
  <2>1. Len(evals') = Dim + 1 /\ pc' = "reflect" /\ vertices' \in Sorts(evals', vs)
    BY <1>1, <1>6, Built
  <2>2. vs \in [1..Dim + 1 -> 1..Len(evals')]
    BY <2>1
  <2>3. vertices' \in [1..Dim + 1 -> 1..Len(evals')]
    BY <1>2, <2>1, <2>2, Sorted
  <2>4. 1..Len(evals') \subseteq 0..Len(evals')
    BY <1>2
  <2>5. vertices' \in [1..Dim + 1 -> 0..Len(evals')]
    BY <2>3, <2>4
  <2>6. TypeOK'
    BY <1>2, <1>3, <1>4, <2>1, <2>5 DEF TypeOK
  <2>7. (Phase /\ Named)'
    BY <1>2, <1>3, <2>1, <2>3 DEF Phase, Named, Turning, Found, Points
  <2>8. QED
    BY <2>6, <2>7
<1>7. QED
  BY <1>5, <1>6

(* A step of a turn: it ends the turn, or goes on with vertices that are   *)
(* points.                                                                 *)
GoesOn(es) == /\ pc' \in {"expand", "contract", "reduce"}
              /\ best' = best
              /\ vertices' \in [1..Dim + 1 -> 1..Len(es)]

TurnEnds(es) == \E vs \in [1..Dim + 1 -> 1..Len(es)] : EndTurn(es, vs)

LEMMA TurnSteps ==
  ASSUME Shape, Reflect \/ Expand \/ Contract \/ Reduce
  PROVE  \E e \in Answers :
           /\ Evaluate(e)
           /\ TurnEnds(evals') \/ GoesOn(evals')
           /\ UNCHANGED <<settings, current, saved>>
           /\ next' \in 2..Dim + 1
<1> USE DimAssumption DEF Shape
<1>1. PICK e \in Answers : Evaluate(e)
  BY DEF Reflect, Expand, Contract, Reduce
<1> DEFINE n == Len(evals) + 1
           es == Append(evals, e)
<1>2. evals' = es /\ Len(es) = n /\ Len(evals) \in Nat
  BY <1>1, Evaluated
<1>3. vertices \in [1..Dim + 1 -> 1..Len(evals)]
  BY DEF Reflect, Expand, Contract, Reduce, Named, Turning, Points
<1>4. 1..Len(evals) \subseteq 1..n
  BY <1>2
<1>5. /\ ReplaceWorst(n) \in [1..Dim + 1 -> 1..n]
      /\ Len(evals) > 0 => ReplaceWorst(n - 1) \in [1..Dim + 1 -> 1..n]
  BY <1>2, <1>3, <1>4 DEF ReplaceWorst
<1>6. next \in 2..Dim + 1 /\ UNCHANGED <<settings, current, saved>>
  BY DEF TypeOK, Reflect, Expand, Contract, Reduce
<1>7. CASE Reflect
  <2>1. PICK f \in Answers :
          /\ evals' = Append(evals, f)
          /\ \/ pc' = "expand" /\ UNCHANGED <<best, vertices>>
             \/ EndTurn(Append(evals, f), ReplaceWorst(Len(Append(evals, f))))
             \/ pc' = "contract" /\ UNCHANGED <<best, vertices>>
          /\ UNCHANGED next
    BY <1>7 DEF Reflect, Evaluate
  <2>2. Append(evals, f) = es
    BY <1>2, <2>1
  <2>3. ReplaceWorst(n) \in [1..Dim + 1 -> 1..n]
    BY <1>2, <1>5
  <2>4. TurnEnds(evals') \/ GoesOn(evals')
    BY <1>2, <1>3, <1>4, <2>1, <2>2, <2>3 DEF TurnEnds, GoesOn
  <2>5. QED
    BY <1>1, <1>6, <2>1, <2>4
<1>8. CASE Expand
  <2>1. PICK f \in Answers :
          /\ evals' = Append(evals, f)
          /\ EndTurn(Append(evals, f),
                     ReplaceWorst(IF Beats(Append(evals, f), n, n - 1) THEN n ELSE n - 1))
          /\ UNCHANGED next
    BY <1>8 DEF Expand, Evaluate
  <2>2. Len(evals) > 0
    BY <1>8 DEF Expand, Named
  <2>3. ReplaceWorst(n) \in [1..Dim + 1 -> 1..n] /\ ReplaceWorst(n - 1) \in [1..Dim + 1 -> 1..n]
    BY <1>2, <1>5, <2>2
  <2>4. TurnEnds(evals')
    BY <1>2, <2>1, <2>3 DEF TurnEnds
  <2>5. QED
    BY <1>1, <1>6, <2>1, <2>4
<1>9. CASE Contract
  <2>1. PICK f \in Answers :
          /\ evals' = Append(evals, f)
          /\ \/ /\ EndTurn(Append(evals, f), ReplaceWorst(Len(Append(evals, f))))
                /\ UNCHANGED next
             \/ pc' = "reduce" /\ next' = 2 /\ UNCHANGED <<best, vertices>>
    BY <1>9 DEF Contract, Evaluate
  <2>2. Append(evals, f) = es
    BY <1>2, <2>1
  <2>3. ReplaceWorst(n) \in [1..Dim + 1 -> 1..n]
    BY <1>2, <1>5
  <2>4. TurnEnds(evals') \/ GoesOn(evals')
    BY <1>2, <1>3, <1>4, <2>1, <2>2, <2>3 DEF TurnEnds, GoesOn
  <2>5. QED
    BY <1>1, <1>6, <2>1, <2>4
<1>10. CASE Reduce
  <2> DEFINE vs == [vertices EXCEPT ![next] = n]
  <2>1. PICK f \in Answers :
          /\ evals' = Append(evals, f)
          /\ \/ /\ EndTurn(Append(evals, f),
                         [vertices EXCEPT ![next] = Len(Append(evals, f))])
                /\ UNCHANGED next
             \/ /\ next # Dim + 1
                /\ vertices' = [vertices EXCEPT ![next] = Len(Append(evals, f))]
                /\ next' = next + 1
                /\ UNCHANGED <<best, pc>>
    BY <1>10 DEF Reduce, Evaluate
  <2>2. Append(evals, f) = es
    BY <1>2, <2>1
  <2>3. vs \in [1..Dim + 1 -> 1..n]
    BY <1>2, <1>3, <1>4, <1>6
  <2>4. pc = "reduce"
    BY <1>10 DEF Reduce
  <2>5. TurnEnds(evals') \/ GoesOn(evals')
    BY <1>2, <2>1, <2>2, <2>3, <2>4 DEF TurnEnds, GoesOn
  <2>6. next' \in 2..Dim + 1
    BY <1>6, <2>1
  <2>7. QED
    BY <1>1, <1>6, <2>5, <2>6
<1>11. QED
  BY <1>7, <1>8, <1>9, <1>10

LEMMA ShapeOfTurn == Shape /\ (Reflect \/ Expand \/ Contract \/ Reduce) => Shape'
<1> SUFFICES ASSUME Shape, Reflect \/ Expand \/ Contract \/ Reduce PROVE Shape'
  OBVIOUS
<1> USE DimAssumption DEF Shape
<1>1. PICK e \in Answers :
        /\ Evaluate(e)
        /\ TurnEnds(evals') \/ GoesOn(evals')
        /\ UNCHANGED <<settings, current, saved>>
        /\ next' \in 2..Dim + 1
  BY TurnSteps
<1>2. /\ evals' \in Seq(Evaluation)
      /\ Len(evals') = Len(evals) + 1
      /\ Len(evals) \in Nat
      /\ log' \in Seq([point : Nat, q : Quality \cup {NaN}])
  BY <1>1, Evaluated
<1>3. optimizer = "simplex" /\ UNCHANGED <<optimizer, dir, constrained, current, saved>>
  BY <1>1 DEF settings, Reflect, Expand, Contract, Reduce, Phase, Turning
<1>4. 0..Len(evals) \subseteq 0..Len(evals') /\ 1..Len(evals') \subseteq 0..Len(evals')
  BY <1>2
<1>5. /\ vertices' \in [1..Dim + 1 -> 1..Len(evals')]
      /\ best' \in 0..Len(evals')
      /\ pc' \in {"expand", "contract", "reduce", "mapped", "reflect"}
      /\ pc' = "mapped" => best' \in 1..Len(evals')
  <2>1. CASE TurnEnds(evals')
    BY <1>2, <1>4, <2>1, TurnShape DEF TurnEnds
  <2>2. CASE GoesOn(evals')
    BY <1>4, <2>2 DEF GoesOn, TypeOK
  <2>3. QED
    BY <1>1, <2>1, <2>2
<1>6. vertices' \in [1..Dim + 1 -> 0..Len(evals')]
  BY <1>4, <1>5
<1>7. TypeOK'
  BY <1>1, <1>2, <1>3, <1>4, <1>5, <1>6 DEF TypeOK
<1>8. (Phase /\ Named)'
  BY <1>2, <1>3, <1>5 DEF Phase, Named, Turning, Found, Points
<1>9. QED
  BY <1>7, <1>8

LEMMA ShapeOfLibraries == Shape /\ (Bobyqa \/ Rbf) => Shape'
<1> SUFFICES ASSUME Shape, Bobyqa \/ Rbf PROVE Shape'
  OBVIOUS
<1> USE DimAssumption DEF Shape
<1>1. optimizer \in {"bobyqa", "rbf"}
  BY DEF Bobyqa, Rbf
<1>2. CASE LibraryAsks \/ RbfNodes
  <2>1. PICK e \in Answers : Evaluate(e)
    BY <1>2 DEF LibraryAsks, RbfNodes
  <2>2. /\ evals' \in Seq(Evaluation)
        /\ Len(evals') = Len(evals) + 1
        /\ Len(evals) \in Nat
        /\ log' \in Seq([point : Nat, q : Quality \cup {NaN}])
        /\ 0..Len(evals) \subseteq 0..Len(evals')
        /\ vertices \in [1..Dim + 1 -> 0..Len(evals')]
    BY <2>1, Evaluated, Grows
  <2>3. /\ UNCHANGED <<optimizer, dir, constrained, best, current, vertices, saved>>
        /\ pc' \in {"model", "nodes"}
    BY <1>2 DEF LibraryAsks, RbfNodes, settings
  <2>4. pc' = "nodes" => optimizer = "rbf"
    <3>1. CASE LibraryAsks
      BY <3>1 DEF LibraryAsks
    <3>2. CASE RbfNodes
      BY <1>1, <3>2 DEF RbfNodes, Bobyqa, Rbf, LibraryAsks, LibraryReturns, Throws, Evaluate,
         Ended
    <3>3. QED
      BY <1>2, <3>1, <3>2
  <2>5. next' \in 2..Dim + 1
    BY <1>2 DEF LibraryAsks, RbfNodes, TypeOK
  <2>6. TypeOK'
    BY <2>2, <2>3, <2>5 DEF TypeOK
  <2>7. (Phase /\ Named)'
    BY <1>1, <2>2, <2>3, <2>4 DEF Phase, Named, Turning, Found, Points
  <2>8. QED
    BY <2>6, <2>7
<1>3. CASE LibraryReturns
  <2>1. /\ best' \in 1..Len(evals) /\ pc' = "mapped"
        /\ UNCHANGED <<optimizer, dir, constrained, evals, log, current, vertices, next, saved>>
    BY <1>3 DEF LibraryReturns, settings
  <2>2. Len(evals) \in Nat
    BY DEF TypeOK
  <2>3. TypeOK'
    BY <2>1, <2>2 DEF TypeOK
  <2>4. (Phase /\ Named)'
    BY <2>1 DEF Phase, Named, Turning, Found, Points
  <2>5. QED
    BY <2>3, <2>4
<1>4. CASE pc = "model" /\ Throws
  <2>1. /\ pc' = "aborted"
        /\ UNCHANGED <<optimizer, dir, constrained, evals, log, best, current, vertices,
                       next, saved>>
    BY <1>4 DEF Throws, settings
  <2>2. TypeOK'
    BY <2>1 DEF TypeOK, Ended
  <2>3. (Phase /\ Named)'
    BY <2>1 DEF Phase, Named, Turning, Found, Points
  <2>4. QED
    BY <2>2, <2>3
<1>5. QED
  BY <1>2, <1>3, <1>4 DEF Bobyqa, Rbf

LEMMA ShapeOfEnd == Shape /\ (SaveResult \/ Throws \/ UNCHANGED vars) => Shape'
<1> SUFFICES ASSUME Shape, SaveResult \/ Throws \/ UNCHANGED vars PROVE Shape'
  OBVIOUS
<1> USE DEF Shape
<1>1. CASE SaveResult
  <2>1. /\ pc = "mapped" /\ pc' = "saved" /\ saved' = best
        /\ UNCHANGED <<optimizer, dir, constrained, evals, log, best, current, vertices, next>>
    BY <1>1 DEF SaveResult, settings
  <2>2. TypeOK'
    BY <2>1 DEF TypeOK, Ended
  <2>3. (Phase /\ Named)'
    BY <2>1 DEF Phase, Named, Turning, Found, Points
  <2>4. QED
    BY <2>2, <2>3
<1>2. CASE Throws
  <2>1. /\ pc \notin Ended /\ pc' = IF pc = "mapped" THEN "lost" ELSE "aborted"
        /\ UNCHANGED <<optimizer, dir, constrained, evals, log, best, current, vertices,
                       next, saved>>
    BY <1>2 DEF Throws, settings
  <2>2. TypeOK'
    BY <2>1 DEF TypeOK, Ended
  <2>3. (Phase /\ Named)'
    BY <2>1 DEF Phase, Named, Turning, Found, Points
  <2>4. QED
    BY <2>2, <2>3
<1>3. CASE UNCHANGED vars
  BY <1>3 DEF vars, TypeOK, Phase, Named, Turning, Found, Points, Ended
<1>4. QED
  BY <1>1, <1>2, <1>3

LEMMA ShapePreserved == Shape /\ [Next]_vars => Shape'
BY ShapeOfDescent, ShapeOfBuilding, ShapeOfTurn, ShapeOfLibraries, ShapeOfEnd
   DEF Next, Proceed, CoordinateDescent, Powell

(* The type invariant: every point named is an evaluated one.              *)
THEOREM TypeCorrect == Spec => []TypeOK
<1>1. Shape => TypeOK
  BY DEF Shape
<1>2. QED
  BY <1>1, InitShape, ShapePreserved, PTL DEF Spec

----------------------------------------------------------------------------
(* The best point so far while the search goes on.                         *)
DescentInv ==
  pc \in {"minus", "plus", "neighbour"} /\ ValueOf(evals, 1) # NaN =>
    /\ ValueOf(evals, best) # NaN
    /\ NoneBeats(evals, IF pc = "plus" THEN Len(evals) - 1 ELSE Len(evals), best)
    /\ pc = "neighbour" => ValueOf(evals, current) # NaN

(* Within a turn: the reflected point comes before the first vertex in     *)
(* "expand"; the reduced ones stand before the vertex that comes next.     *)
SimplexInv ==
  Numbers(evals) =>
    /\ pc \in {"reflect", "contract"} => NoneBeats(evals, Len(evals), vertices[1])
    /\ pc = "expand" => /\ NoneBeats(evals, Len(evals) - 1, vertices[1])
                        /\ Beats(evals, Len(evals), vertices[1])
    /\ pc = "reduce" => Covered(evals, vertices, next - 1)

FoundInv ==
  Found /\ (Numbers(evals) \/ (optimizer \in Tracking /\ ValueOf(evals, 1) # NaN)) =>
    ValueOf(evals, best) # NaN /\ NoneBeats(evals, Len(evals), best)

BestInv == DescentInv /\ SimplexInv /\ FoundInv

(* The first value is a number after an evaluation if it was one before.   *)
LEMMA FirstStays ==
  ASSUME Shape, NEW e \in Answers, Evaluate(e), Len(evals) > 0
  PROVE  /\ ValueOf(evals', 1) = ValueOf(evals, 1)
         /\ \A i \in 1..Len(evals) : ValueOf(evals', i) = ValueOf(evals, i)
         /\ \A i, j \in 1..Len(evals) : Beats(evals', i, j) <=> Beats(evals, i, j)
<1>1. e \in Evaluation /\ evals \in Seq(Evaluation) /\ evals' = Append(evals, e)
  BY Evaluated DEF Shape, TypeOK
<1>2. Len(evals) \in Nat /\ 1 \in 1..Len(evals)
  BY <1>1
<1>3. QED
  BY <1>1, <1>2, Extend

LEMMA GuessBest == Shape /\ BestInv /\ AskGuess => BestInv'
<1> SUFFICES ASSUME Shape, BestInv, AskGuess PROVE BestInv'
  OBVIOUS
<1> USE DEF Shape
<1>1. PICK e \in Answers : Evaluate(e)
  BY DEF AskGuess
<1>2. evals' \in Seq(Evaluation) /\ Len(evals') = Len(evals) + 1 /\ Len(evals) \in Nat
  BY <1>1, Evaluated
<1>3. Len(evals') = 1
  BY <1>2 DEF AskGuess, Phase
<1>4. best' = 1 /\ current' = 1 /\ pc' \in {"minus", "neighbour", "model"}
  BY DEF AskGuess
<1>5. ~Beats(evals', 1, 1)
  BY <1>2, <1>3, Asymmetric
<1>6. NoneBeats(evals', 1, 1)
  BY <1>5 DEF NoneBeats
<1>7. DescentInv'
  BY <1>3, <1>4, <1>6 DEF DescentInv
<1>8. SimplexInv' /\ FoundInv'
  BY <1>4 DEF SimplexInv, FoundInv, Found
<1>9. QED
  BY <1>7, <1>8 DEF BestInv

LEMMA MinusBest == Shape /\ BestInv /\ TryMinus => BestInv'
<1> SUFFICES ASSUME Shape, BestInv, TryMinus PROVE BestInv'
  OBVIOUS
<1> USE DEF Shape
<1>1. PICK e \in Answers : Evaluate(e)
  BY DEF TryMinus
<1>2. Len(evals') = Len(evals) + 1 /\ Len(evals) \in Nat
  BY <1>1, Evaluated
<1>3. pc = "minus" /\ pc' = "plus" /\ best' = best
  BY DEF TryMinus
<1>4. best \in 1..Len(evals) /\ Len(evals) > 0
  BY <1>2, <1>3 DEF Named, Points
<1>5. /\ ValueOf(evals', 1) = ValueOf(evals, 1)
      /\ ValueOf(evals', best) = ValueOf(evals, best)
      /\ \A i, j \in 1..Len(evals) : Beats(evals', i, j) <=> Beats(evals, i, j)
  BY <1>1, <1>4, FirstStays
<1>6. ASSUME ValueOf(evals', 1) # NaN
      PROVE  ValueOf(evals', best') # NaN /\ NoneBeats(evals', Len(evals') - 1, best')
  <2>1. ValueOf(evals, best) # NaN /\ NoneBeats(evals, Len(evals), best)
    BY <1>3, <1>5, <1>6 DEF BestInv, DescentInv
  <2>2. Len(evals') - 1 = Len(evals)
    BY <1>2
  <2>3. QED
    BY <1>3, <1>4, <1>5, <2>1, <2>2 DEF NoneBeats
<1>7. DescentInv'
  BY <1>3, <1>6 DEF DescentInv
<1>8. SimplexInv' /\ FoundInv'
  BY <1>3 DEF SimplexInv, FoundInv, Found
<1>9. QED
  BY <1>7, <1>8 DEF BestInv

LEMMA PlusBest == Shape /\ BestInv /\ TryPlus => BestInv'
<1> SUFFICES ASSUME Shape, BestInv, TryPlus PROVE BestInv'
  OBVIOUS
<1> USE DEF Shape
<1> DEFINE n == Len(evals)
<1>1. PICK e \in Answers :
        /\ Evaluate(e)
        /\ best' = Better(Append(evals, e), Better(Append(evals, e), best, n), n + 1)
  BY DEF TryPlus
<1>2. /\ evals' \in Seq(Evaluation) /\ evals' = Append(evals, e)
      /\ Len(evals') = n + 1 /\ n \in Nat
  BY <1>1, Evaluated
<1>3. /\ pc = "plus" /\ pc' \in {"minus", "mapped"}
      /\ optimizer \in {"coord", "powell"} /\ optimizer' = optimizer
  BY DEF TryPlus, settings, Phase
<1>4. best \in 1..n - 1 /\ n - 1 \in Nat /\ n > 0
  BY <1>2, <1>3 DEF Named
<1>5. /\ ValueOf(evals', 1) = ValueOf(evals, 1)
      /\ ValueOf(evals', best) = ValueOf(evals, best)
      /\ \A i, j \in 1..n : Beats(evals', i, j) <=> Beats(evals, i, j)
  BY <1>1, <1>4, FirstStays
<1>6. ASSUME ValueOf(evals', 1) # NaN
      PROVE  ValueOf(evals', best') # NaN /\ NoneBeats(evals', Len(evals'), best')
  <2>1. ValueOf(evals, best) # NaN /\ NoneBeats(evals, n - 1, best)
    BY <1>3, <1>5, <1>6 DEF BestInv, DescentInv
  <2>2. ValueOf(evals', best) # NaN /\ NoneBeats(evals', n - 1, best)
    BY <1>4, <1>5, <2>1 DEF NoneBeats
  <2> DEFINE b == Better(evals', best, n)
  <2>3. b \in 1..n /\ ValueOf(evals', b) # NaN /\ NoneBeats(evals', n, b)
    <3>1. n - 1 < Len(evals') /\ (n - 1) + 1 = n
      BY <1>2
    <3>2. QED
      BY <1>2, <1>4, <2>2, <3>1, BetterIsBest
  <2>4. best' = Better(evals', b, n + 1)
    BY <1>1, <1>2
  <2>5. ValueOf(evals', best') # NaN /\ NoneBeats(evals', n + 1, best')
    <3>1. n < Len(evals')
      BY <1>2
    <3>2. QED
      BY <1>2, <2>3, <2>4, <3>1, BetterIsBest
  <2>6. QED
    BY <1>2, <2>5
<1>7. DescentInv'
  BY <1>3, <1>6 DEF DescentInv
<1>8. SimplexInv'
  BY <1>3 DEF SimplexInv
<1>9. FoundInv'
  <2>1. Numbers(evals') => ValueOf(evals', 1) # NaN
    BY <1>2 DEF Numbers
  <2>2. QED
    BY <1>6, <2>1 DEF FoundInv
<1>10. QED
  BY <1>7, <1>8, <1>9 DEF BestInv

LEMMA AnnealBest == Shape /\ BestInv /\ Anneal => BestInv'
<1> SUFFICES ASSUME Shape, BestInv, Anneal PROVE BestInv'
  OBVIOUS
<1> USE DEF Shape
<1> DEFINE n == Len(evals) + 1
<1>1. PICK e \in Answers, accept \in BOOLEAN :
        /\ Evaluate(e)
        /\ accept \in MayAccept(Append(evals, e), n, current)
        /\ current' = IF accept THEN n ELSE current
        /\ best' = Better(Append(evals, e), best, current')
  BY DEF Anneal, MayAccept
<1>2. /\ evals' \in Seq(Evaluation) /\ evals' = Append(evals, e)
      /\ Len(evals') = n /\ Len(evals) \in Nat
  BY <1>1, Evaluated
<1>3. pc = "neighbour" /\ pc' \in {"neighbour", "mapped"}
  BY DEF Anneal
<1>4. best \in 1..Len(evals) /\ current \in 1..Len(evals) /\ Len(evals) > 0
  BY <1>2, <1>3 DEF Named, Points
<1>5. /\ ValueOf(evals', 1) = ValueOf(evals, 1)
      /\ ValueOf(evals', best) = ValueOf(evals, best)
      /\ ValueOf(evals', current) = ValueOf(evals, current)
      /\ \A i, j \in 1..Len(evals) : Beats(evals', i, j) <=> Beats(evals, i, j)
  BY <1>1, <1>4, FirstStays
<1>6. ASSUME ValueOf(evals', 1) # NaN
      PROVE  /\ ValueOf(evals', best') # NaN
             /\ NoneBeats(evals', Len(evals'), best')
             /\ ValueOf(evals', current') # NaN
  <2>1. /\ ValueOf(evals, best) # NaN /\ NoneBeats(evals, Len(evals), best)
        /\ ValueOf(evals, current) # NaN
    BY <1>3, <1>5, <1>6 DEF BestInv, DescentInv
  <2>2. /\ ValueOf(evals', best) # NaN /\ NoneBeats(evals', Len(evals), best)
        /\ ValueOf(evals', current) # NaN
    BY <1>4, <1>5, <2>1 DEF NoneBeats
  <2>3. CASE accept
    <3>1. current' = n /\ best' = Better(evals', best, n)
      BY <1>1, <1>2, <2>3
    <3>2. ValueOf(evals', n) # NaN
      <4>1. CASE Beats(evals', n, current)
        BY <4>1 DEF Beats, Less
      <4>2. CASE ~Beats(evals', n, current)
        BY <1>1, <1>2, <2>3, <4>2 DEF MayAccept
      <4>3. QED
        BY <4>1, <4>2
    <3>3. ValueOf(evals', best') # NaN /\ NoneBeats(evals', n, best')
      <4>1. Len(evals) < Len(evals')
        BY <1>2
      <4>2. QED
        BY <1>2, <1>4, <2>2, <3>1, <4>1, BetterIsBest
    <3>4. QED
      BY <1>2, <3>1, <3>2, <3>3
  <2>4. CASE ~accept
    <3>1. current' = current /\ ~Beats(evals', n, current)
      BY <1>1, <1>2, <2>4 DEF MayAccept
    <3>2. ~Beats(evals', current, best)
      BY <1>4, <2>2 DEF NoneBeats
    <3>3. best' = best
      BY <1>1, <1>2, <3>1, <3>2 DEF Better
    <3>4. ~Beats(evals', n, best)
      <4>1. n \in 1..Len(evals') /\ best \in 1..Len(evals') /\ current \in 1..Len(evals')
        BY <1>2, <1>4
      <4>2. QED
        BY <1>2, <2>2, <3>1, <3>2, <4>1, Transitive
    <3>5. NoneBeats(evals', n, best)
      BY <1>2, <2>2, <3>4 DEF NoneBeats
    <3>6. QED
      BY <1>2, <2>2, <3>1, <3>3, <3>5
  <2>5. QED
    BY <2>3, <2>4
<1>7. DescentInv'
  BY <1>3, <1>6 DEF DescentInv
<1>8. SimplexInv'
  BY <1>3 DEF SimplexInv
<1>9. FoundInv'
  <2>1. Numbers(evals') => ValueOf(evals', 1) # NaN
    BY <1>2 DEF Numbers
  <2>2. QED
    BY <1>6, <2>1 DEF FoundInv
<1>10. QED
  BY <1>7, <1>8, <1>9 DEF BestInv

(* A turn that ends with every point matched by a vertex.                  *)
LEMMA TurnEndsBest ==
  ASSUME TypeOK, NEW vs \in [1..Dim + 1 -> 1..Len(evals')],
         evals' \in Seq(Evaluation), EndTurn(evals', vs), optimizer' = "simplex",
         Numbers(evals') => Covered(evals', vs, Dim + 1)
  PROVE  BestInv'
<1>1. /\ best' = vertices'[1] /\ vertices' \in Sorts(evals', vs)
      /\ best' \in 1..Len(evals')
      /\ pc' \in {"mapped", "reflect"}
  BY TurnShape DEF EndTurn
<1>2. ASSUME Numbers(evals')
      PROVE  ValueOf(evals', best') # NaN /\ NoneBeats(evals', Len(evals'), best')
  BY <1>1, <1>2, FirstIsBest DEF Numbers
<1>3. DescentInv' /\ SimplexInv'
  BY <1>1, <1>2 DEF DescentInv, SimplexInv
<1>4. FoundInv'
  BY <1>2 DEF FoundInv, Tracking
<1>5. QED
  BY <1>3, <1>4 DEF BestInv

LEMMA BuildBest == Shape /\ BestInv /\ BuildSimplex => BestInv'
<1> SUFFICES ASSUME Shape, BestInv, BuildSimplex PROVE BestInv'
  OBVIOUS
<1> USE DimAssumption DEF Shape
<1>1. PICK e \in Answers : Evaluate(e)
  BY DEF BuildSimplex
<1>2. evals' \in Seq(Evaluation) /\ Len(evals') \in Nat
  BY <1>1, Evaluated
<1>3. optimizer' = "simplex"
  BY DEF BuildSimplex, settings
<1>4. CASE pc' = "guess"
  BY <1>4 DEF BestInv, DescentInv, SimplexInv, FoundInv, Found
<1>5. CASE pc' # "guess"
  <2> DEFINE vs == [i \in 1..Dim + 1 |-> i]
  <2>1. Len(evals') = Dim + 1 /\ pc' = "reflect" /\ vertices' \in Sorts(evals', vs)
    BY <1>1, <1>5, Built
  <2>2. vs \in [1..Dim + 1 -> 1..Len(evals')]
    BY <2>1
  <2>3. Covered(evals', vs, Dim + 1)
    <3>1. ASSUME NEW i \in 1..Len(evals') PROVE ~Beats(evals', i, vs[i])
      BY <1>2, <2>1, Asymmetric
    <3>2. QED
      BY <2>1, <3>1 DEF Covered
  <2>4. Numbers(evals') => NoneBeats(evals', Len(evals'), vertices'[1])
    BY <1>2, <2>1, <2>2, <2>3, FirstIsBest
  <2>5. QED
    BY <2>1, <2>4 DEF BestInv, DescentInv, SimplexInv, FoundInv, Found
<1>6. QED
  BY <1>4, <1>5

(* In a turn: what an evaluation leaves as it was.                         *)
LEMMA InTurn ==
  ASSUME Shape, NEW e \in Answers, Evaluate(e), pc \in Turning
  PROVE  /\ evals' = Append(evals, e)
         /\ evals' \in Seq(Evaluation)
         /\ Len(evals') = Len(evals) + 1
         /\ Len(evals) \in Nat \ {0}
         /\ vertices \in [1..Dim + 1 -> 1..Len(evals)]
         /\ \A i, j \in 1..Len(evals) : Beats(evals', i, j) <=> Beats(evals, i, j)
         /\ Numbers(evals') => Numbers(evals)
<1> USE DimAssumption DEF Shape
<1>1. /\ evals' = Append(evals, e)
      /\ evals' \in Seq(Evaluation)
      /\ Len(evals') = Len(evals) + 1
      /\ Len(evals) \in Nat
      /\ e \in Evaluation
  BY Evaluated
<1>2. vertices \in [1..Dim + 1 -> 1..Len(evals)]
  BY DEF Named, Points
<1>3. Len(evals) # 0
  <2>1. vertices[1] \in 1..Len(evals)
    BY <1>2
  <2>2. QED
    BY <1>1, <2>1
<1>4. evals \in Seq(Evaluation)
  BY DEF TypeOK
<1>5. QED
  BY <1>1, <1>2, <1>3, <1>4, Extend

(* The first vertex stands in for every point that does not beat it, and   *)
(* the newest point for itself.                                            *)
LEMMA FirstCovers ==
  ASSUME NEW es \in Seq(Evaluation), NEW n \in Nat, Len(es) = n + 1,
         NEW vs \in [1..Dim + 1 -> 1..n + 1],
         NEW k \in 1..Dim + 1, ~Beats(es, n + 1, vs[k]),
         NoneBeats(es, n, vs[1]) \/ NoneBeats(es, n, vs[Dim + 1])
  PROVE  Covered(es, vs, Dim + 1)
<1>1. 1 \in 1..Dim + 1 /\ Dim + 1 \in 1..Dim + 1
  BY DimAssumption
<1>2. ASSUME NEW i \in 1..Len(es) PROVE \E m \in 1..Dim + 1 : ~Beats(es, i, vs[m])
  <2>1. CASE i = n + 1
    BY <2>1
  <2>2. CASE i \in 1..n
    BY <1>1, <2>2 DEF NoneBeats
  <2>3. QED
    BY <2>1, <2>2
<1>3. QED
  BY <1>2 DEF Covered

LEMMA ReflectBest == Shape /\ BestInv /\ Reflect => BestInv'
<1> SUFFICES ASSUME Shape, BestInv, Reflect PROVE BestInv'
  OBVIOUS
<1> USE DimAssumption
<1> DEFINE n == Len(evals)
<1>1. PICK e \in Answers :
        /\ Evaluate(e)
        /\ LET es == Append(evals, e)
           IN  \/ /\ Beats(es, Len(es), vertices[1])
                  /\ pc' = "expand"
                  /\ UNCHANGED <<best, vertices>>
               \/ EndTurn(es, ReplaceWorst(Len(es)))
               \/ /\ ~Beats(es, Len(es), vertices[1])
                  /\ pc' = "contract"
                  /\ UNCHANGED <<best, vertices>>
  BY DEF Reflect
<1>2. /\ pc = "reflect" /\ pc \in Turning
      /\ optimizer = "simplex" /\ optimizer' = "simplex" /\ TypeOK
  BY DEF Reflect, settings, Turning, Shape, Phase
<1>3. /\ evals' = Append(evals, e)
      /\ evals' \in Seq(Evaluation)
      /\ Len(evals') = n + 1
      /\ n \in Nat \ {0}
      /\ vertices \in [1..Dim + 1 -> 1..n]
      /\ \A i, j \in 1..n : Beats(evals', i, j) <=> Beats(evals, i, j)
      /\ Numbers(evals') => Numbers(evals)
  BY <1>1, <1>2, InTurn
<1>4. vertices[1] \in 1..n
  BY <1>3
<1>5. Numbers(evals') => NoneBeats(evals', n, vertices[1])
  BY <1>2, <1>3, <1>4 DEF BestInv, SimplexInv, NoneBeats
<1>6. CASE EndTurn(evals', ReplaceWorst(n + 1))
  <2> DEFINE vs == ReplaceWorst(n + 1)
  <2>1. /\ vs \in [1..Dim + 1 -> 1..n + 1]
        /\ vs[1] = vertices[1] /\ vs[Dim + 1] = n + 1
    BY <1>3 DEF ReplaceWorst
  <2>2. ~Beats(evals', n + 1, vs[Dim + 1])
    <3>1. n + 1 \in 1..Len(evals')
      BY <1>3
    <3>2. ~Beats(evals', n + 1, n + 1)
      BY <1>3, <3>1, Asymmetric
    <3>3. QED
      BY <2>1, <3>2
  <2>3. Numbers(evals') => Covered(evals', vs, Dim + 1)
    <3>1. Dim + 1 \in 1..Dim + 1 /\ n \in Nat
      BY <1>3
    <3> HIDE DEF vs
    <3>2. QED
      BY <1>3, <1>5, <2>1, <2>2, <3>1, FirstCovers
  <2> HIDE DEF vs
  <2>4. QED
    BY <1>2, <1>3, <1>6, <2>1, <2>3, TurnEndsBest DEF vs
<1>7. CASE pc' = "expand" /\ vertices' = vertices /\ Beats(evals', n + 1, vertices[1])
  <2>1. Numbers(evals') => NoneBeats(evals', Len(evals') - 1, vertices'[1])
    BY <1>3, <1>5, <1>7
  <2>2. QED
    BY <1>3, <1>7, <2>1 DEF BestInv, DescentInv, SimplexInv, FoundInv, Found
<1>8. CASE pc' = "contract" /\ vertices' = vertices /\ ~Beats(evals', n + 1, vertices[1])
  <2>1. Numbers(evals') => NoneBeats(evals', Len(evals'), vertices'[1])
    BY <1>3, <1>5, <1>8 DEF NoneBeats
  <2>2. QED
    BY <1>8, <2>1 DEF BestInv, DescentInv, SimplexInv, FoundInv, Found
<1>9. QED
  BY <1>1, <1>3, <1>6, <1>7, <1>8

LEMMA ExpandBest == Shape /\ BestInv /\ Expand => BestInv'
<1> SUFFICES ASSUME Shape, BestInv, Expand PROVE BestInv'
  OBVIOUS
<1> USE DimAssumption
<1> DEFINE n == Len(evals)
<1>1. PICK e \in Answers :
        /\ Evaluate(e)
        /\ EndTurn(Append(evals, e),
                   ReplaceWorst(IF Beats(Append(evals, e), n + 1, n + 1 - 1) THEN n + 1
                                ELSE n + 1 - 1))
  BY DEF Expand
<1>2. /\ pc = "expand" /\ pc \in Turning
      /\ optimizer = "simplex" /\ optimizer' = "simplex" /\ TypeOK
  BY DEF Expand, settings, Turning, Shape, Phase
<1>3. /\ evals' = Append(evals, e)
      /\ evals' \in Seq(Evaluation)
      /\ Len(evals') = n + 1
      /\ n \in Nat \ {0}
      /\ vertices \in [1..Dim + 1 -> 1..n]
      /\ \A i, j \in 1..n : Beats(evals', i, j) <=> Beats(evals, i, j)
      /\ Numbers(evals') => Numbers(evals)
  BY <1>1, <1>2, InTurn
<1> DEFINE b == IF Beats(evals', n + 1, n) THEN n + 1 ELSE n
           vs == ReplaceWorst(b)
<1>4. /\ vertices[1] \in 1..n + 1 /\ n \in 1..n + 1 /\ n + 1 \in 1..n + 1
      /\ b \in 1..n + 1 /\ n + 1 - 1 = n
  BY <1>3
<1>5. vs \in [1..Dim + 1 -> 1..n + 1] /\ vs[Dim + 1] = b
  <2>1. 1..n \subseteq 1..n + 1
    BY <1>3
  <2> HIDE DEF b
  <2>2. QED
    BY <1>3, <1>4, <2>1 DEF ReplaceWorst
<1>6. ASSUME Numbers(evals') PROVE Covered(evals', vs, Dim + 1)
  <2>1. NoneBeats(evals, n - 1, vertices[1]) /\ Beats(evals, n, vertices[1])
    BY <1>2, <1>3, <1>6 DEF BestInv, SimplexInv
  <2>2. /\ ValueOf(evals', n) # NaN /\ ValueOf(evals', vertices[1]) # NaN
        /\ ~Beats(evals', vertices[1], n)
    <3>1. Beats(evals', n, vertices[1])
      BY <1>3, <2>1
    <3>2. QED
      BY <1>3, <1>4, <1>6, <3>1, Asymmetric DEF Numbers
  <2>3. ASSUME NEW j \in 1..n PROVE ~Beats(evals', j, n)
    <3>1. CASE j = n
      BY <1>3, <1>4, <3>1, Asymmetric
    <3>2. CASE j # n
      <4>1. j \in 1..n - 1 /\ j \in 1..n + 1
        BY <1>3, <3>2
      <4>2. ~Beats(evals', j, vertices[1])
        BY <1>3, <2>1, <4>1 DEF NoneBeats
      <4>3. QED
        BY <1>3, <1>4, <2>2, <4>1, <4>2, Transitive
    <3>3. QED
      BY <3>1, <3>2
  <2>4. NoneBeats(evals', n, b) /\ ~Beats(evals', n + 1, b)
    <3>1. CASE Beats(evals', n + 1, n)
      <4>1. b = n + 1 /\ ~Beats(evals', n, n + 1) /\ ~Beats(evals', n + 1, n + 1)
        BY <1>3, <1>4, <3>1, Asymmetric
      <4>2. ASSUME NEW j \in 1..n PROVE ~Beats(evals', j, n + 1)
        <5>1. j \in 1..n + 1 /\ ~Beats(evals', j, n)
          BY <1>3, <2>3
        <5>2. QED
          BY <1>3, <1>4, <2>2, <4>1, <5>1, Transitive
      <4>3. QED
        BY <4>1, <4>2 DEF NoneBeats
    <3>2. CASE ~Beats(evals', n + 1, n)
      BY <2>3, <3>2 DEF NoneBeats
    <3>3. QED
      BY <3>1, <3>2
  <2>5. Dim + 1 \in 1..Dim + 1 /\ n \in Nat
    BY <1>3
  <2> HIDE DEF vs, b
  <2>6. QED
    BY <1>3, <1>5, <2>4, <2>5, FirstCovers
<1>7. EndTurn(evals', vs)
  BY <1>1, <1>3, <1>4
<1> HIDE DEF vs, b
<1>8. QED
  BY <1>2, <1>3, <1>5, <1>6, <1>7, TurnEndsBest

LEMMA ContractBest == Shape /\ BestInv /\ Contract => BestInv'
<1> SUFFICES ASSUME Shape, BestInv, Contract PROVE BestInv'
  OBVIOUS
<1> USE DimAssumption
<1> DEFINE n == Len(evals)
<1>1. PICK e \in Answers :
        /\ Evaluate(e)
        /\ LET es == Append(evals, e)
           IN  \/ /\ Beats(es, Len(es), Worst)
                  /\ EndTurn(es, ReplaceWorst(Len(es)))
               \/ /\ ~Beats(es, Len(es), Worst)
                  /\ pc' = "reduce" /\ next' = 2
                  /\ UNCHANGED <<best, vertices>>
  BY DEF Contract
<1>2. /\ pc = "contract" /\ pc \in Turning
      /\ optimizer = "simplex" /\ optimizer' = "simplex" /\ TypeOK
  BY DEF Contract, settings, Turning, Shape, Phase
<1>3. /\ evals' = Append(evals, e)
      /\ evals' \in Seq(Evaluation)
      /\ Len(evals') = n + 1
      /\ n \in Nat \ {0}
      /\ vertices \in [1..Dim + 1 -> 1..n]
      /\ \A i, j \in 1..n : Beats(evals', i, j) <=> Beats(evals, i, j)
      /\ Numbers(evals') => Numbers(evals)
  BY <1>1, <1>2, InTurn
<1>4. /\ vertices[1] \in 1..n /\ Worst \in 1..n /\ 1..n \subseteq 1..n + 1
      /\ n + 1 \in 1..n + 1
  BY <1>3 DEF Worst
<1>5. Numbers(evals') => NoneBeats(evals', n, vertices[1])
  BY <1>2, <1>3, <1>4 DEF BestInv, SimplexInv, NoneBeats
<1>6. CASE EndTurn(evals', ReplaceWorst(n + 1))
  <2> DEFINE vs == ReplaceWorst(n + 1)
  <2>1. /\ vs \in [1..Dim + 1 -> 1..n + 1]
        /\ vs[1] = vertices[1] /\ vs[Dim + 1] = n + 1
    BY <1>3 DEF ReplaceWorst
  <2>2. ~Beats(evals', n + 1, vs[Dim + 1])
    <3>1. ~Beats(evals', n + 1, n + 1)
      BY <1>3, <1>4, Asymmetric
    <3>2. QED
      BY <2>1, <3>1
  <2>3. Numbers(evals') => Covered(evals', vs, Dim + 1)
    <3>1. Dim + 1 \in 1..Dim + 1 /\ n \in Nat
      BY <1>3
    <3> HIDE DEF vs
    <3>2. QED
      BY <1>3, <1>5, <2>1, <2>2, <3>1, FirstCovers
  <2> HIDE DEF vs
  <2>4. QED
    BY <1>2, <1>3, <1>6, <2>1, <2>3, TurnEndsBest DEF vs
<1>7. CASE /\ ~Beats(evals', n + 1, Worst)
           /\ pc' = "reduce" /\ next' = 2 /\ vertices' = vertices
  <2>1. ASSUME Numbers(evals') PROVE Covered(evals', vertices, 1)
    <3>1. ~Beats(evals', Worst, vertices[1]) /\ ValueOf(evals', Worst) # NaN
      BY <1>3, <1>4, <1>5, <2>1 DEF NoneBeats, Numbers
    <3>2. ~Beats(evals', n + 1, vertices[1])
      BY <1>3, <1>4, <1>7, <3>1, Transitive
    <3>3. ASSUME NEW i \in 1..n + 1 PROVE ~Beats(evals', i, vertices[1])
      BY <1>3, <1>5, <2>1, <3>2 DEF NoneBeats
    <3>4. QED
      BY <1>3, <3>3 DEF Covered
  <2>2. next' - 1 = 1
    BY <1>7
  <2>3. QED
    BY <1>7, <2>1, <2>2 DEF BestInv, DescentInv, SimplexInv, FoundInv, Found
<1>8. QED
  BY <1>1, <1>3, <1>6, <1>7

LEMMA ReduceBest == Shape /\ BestInv /\ Reduce => BestInv'
<1> SUFFICES ASSUME Shape, BestInv, Reduce PROVE BestInv'
  OBVIOUS
<1> USE DimAssumption
<1> DEFINE n == Len(evals)
           vs == [vertices EXCEPT ![next] = n + 1]
<1>1. PICK e \in Answers :
        /\ Evaluate(e)
        /\ LET es == Append(evals, e)
               us == [vertices EXCEPT ![next] = Len(es)]
           IN  \/ next = Dim + 1 /\ EndTurn(es, us)
               \/ /\ next # Dim + 1 /\ vertices' = us
                  /\ next' = next + 1
                  /\ UNCHANGED <<best, pc>>
  BY DEF Reduce
<1>2. /\ pc = "reduce" /\ pc \in Turning /\ next \in 2..Dim + 1
      /\ optimizer = "simplex" /\ optimizer' = "simplex" /\ TypeOK
  BY DEF Reduce, settings, Turning, Shape, Phase, TypeOK
<1>3. /\ evals' = Append(evals, e)
      /\ evals' \in Seq(Evaluation)
      /\ Len(evals') = n + 1
      /\ n \in Nat \ {0}
      /\ vertices \in [1..Dim + 1 -> 1..n]
      /\ \A i, j \in 1..n : Beats(evals', i, j) <=> Beats(evals, i, j)
      /\ Numbers(evals') => Numbers(evals)
  BY <1>1, <1>2, InTurn
<1>4. 1..n \subseteq 1..n + 1 /\ n + 1 \in 1..n + 1
  BY <1>3
<1>5. /\ vs \in [1..Dim + 1 -> 1..n + 1]
      /\ vs[next] = n + 1
      /\ \A k \in 1..next - 1 : vs[k] = vertices[k]
  BY <1>2, <1>3, <1>4
<1>6. ASSUME Numbers(evals') PROVE Covered(evals', vs, next)
  <2>1. Covered(evals, vertices, next - 1)
    BY <1>2, <1>3, <1>6 DEF BestInv, SimplexInv
  <2>2. ASSUME NEW i \in 1..n PROVE \E k \in 1..next : ~Beats(evals', i, vs[k])
    <3>1. PICK k \in 1..next - 1 : ~Beats(evals, i, vertices[k])
      BY <2>1 DEF Covered
    <3>2. k \in 1..Dim + 1 /\ k \in 1..next
      BY <1>2
    <3>3. vertices[k] \in 1..n
      BY <1>3, <3>2
    <3>4. ~Beats(evals', i, vs[k])
      BY <1>3, <1>5, <3>1, <3>3
    <3>5. QED
      BY <3>2, <3>4
  <2>3. ~Beats(evals', n + 1, vs[next])
    <3>1. ~Beats(evals', n + 1, n + 1)
      BY <1>3, <1>4, Asymmetric
    <3>2. QED
      BY <1>5, <3>1
  <2>4. next \in 1..next
    BY <1>2
  <2>5. \A i \in 1..n + 1 : i \in 1..n \/ i = n + 1
    BY <1>3
  <2> HIDE DEF vs
  <2>6. QED
    BY <1>3, <2>2, <2>3, <2>4, <2>5 DEF Covered
<1>7. CASE next = Dim + 1 /\ EndTurn(evals', vs)
  <2> HIDE DEF vs
  <2>1. QED
    BY <1>2, <1>3, <1>5, <1>6, <1>7, TurnEndsBest
<1>8. CASE vertices' = vs /\ next' = next + 1 /\ pc' = pc
  <2>1. next' - 1 = next
    BY <1>2, <1>8
  <2> HIDE DEF vs
  <2>2. SimplexInv'
    BY <1>2, <1>6, <1>8, <2>1 DEF SimplexInv
  <2>3. QED
    BY <1>2, <1>8, <2>2 DEF BestInv, DescentInv, FoundInv, Found
<1>9. QED
  BY <1>1, <1>3, <1>7, <1>8

LEMMA LibraryBest == Shape /\ BestInv /\ (Bobyqa \/ Rbf) => BestInv'
<1> SUFFICES ASSUME Shape, BestInv, Bobyqa \/ Rbf PROVE BestInv'
  OBVIOUS
<1>1. optimizer \in {"bobyqa", "rbf"}
  BY DEF Bobyqa, Rbf
<1>2. CASE LibraryAsks \/ RbfNodes
  <2>1. pc' \in {"model", "nodes"}
    BY <1>2 DEF LibraryAsks, RbfNodes
  <2>2. QED
    BY <2>1 DEF BestInv, DescentInv, SimplexInv, FoundInv, Found
<1>3. CASE LibraryReturns
  <2>1. /\ best' \in 1..Len(evals) /\ pc' = "mapped" /\ evals' = evals /\ optimizer' = optimizer
        /\ Numbers(evals) => NoneBeats(evals, Len(evals), best')
    BY <1>3 DEF LibraryReturns, settings, Numbers, NoneBeats
  <2>2. FoundInv'
    BY <1>1, <2>1 DEF FoundInv, Tracking, Numbers
  <2>3. QED
    BY <2>1, <2>2 DEF BestInv, DescentInv, SimplexInv
<1>4. CASE pc = "model" /\ Throws
  <2>1. pc' = "aborted"
    BY <1>4 DEF Throws
  <2>2. QED
    BY <2>1 DEF BestInv, DescentInv, SimplexInv, FoundInv, Found
<1>5. QED
  BY <1>2, <1>3, <1>4 DEF Bobyqa, Rbf

LEMMA EndBest == Shape /\ BestInv /\ (SaveResult \/ Throws \/ UNCHANGED vars) => BestInv'
<1> SUFFICES ASSUME Shape, BestInv, SaveResult \/ Throws \/ UNCHANGED vars PROVE BestInv'
  OBVIOUS
<1>1. /\ UNCHANGED <<optimizer, evals, best, current, vertices, next>>
      /\ pc' = pc \/ pc' = "aborted" \/ (Found /\ pc' \in {"saved", "lost"})
  BY DEF SaveResult, Throws, vars, settings, Found
<1>2. DescentInv'
  BY <1>1 DEF BestInv, DescentInv
<1>3. SimplexInv'
  BY <1>1 DEF BestInv, SimplexInv
<1>4. FoundInv'
  BY <1>1 DEF BestInv, FoundInv, Found
<1>5. QED
  BY <1>2, <1>3, <1>4 DEF BestInv

LEMMA InitBest == Init => BestInv
BY DEF Init, BestInv, DescentInv, SimplexInv, FoundInv, Found

LEMMA BestPreserved == Shape /\ BestInv /\ [Next]_vars => BestInv'
BY GuessBest, MinusBest, PlusBest, AnnealBest, BuildBest, ReflectBest, ExpandBest,
   ContractBest, ReduceBest, LibraryBest, EndBest
   DEF Next, Proceed, CoordinateDescent, Powell

LEMMA BestInvIsEnough == Shape /\ BestInv => BestIsReturned
<1> SUFFICES ASSUME Shape, BestInv, Found,
                    \/ \A i \in Points : IsNumber(i)
                    \/ optimizer \in Tracking /\ IsNumber(1)
             PROVE  best \in Points /\ IsNumber(best) /\ \A i \in Points : ~Beats(evals, i, best)
  BY DEF BestIsReturned
<1>1. Numbers(evals) \/ (optimizer \in Tracking /\ ValueOf(evals, 1) # NaN)
  BY DEF Numbers, IsNumber, Points
<1>2. ValueOf(evals, best) # NaN /\ NoneBeats(evals, Len(evals), best)
  BY <1>1 DEF BestInv, FoundInv
<1>3. best \in Points
  BY DEF Shape, Named
<1>4. QED
  BY <1>2, <1>3 DEF NoneBeats, IsNumber, Points

(* The point a search returns is a number that no evaluated point beats.   *)
THEOREM ReturnsTheBest == Spec => []BestIsReturned
BY InitShape, ShapePreserved, InitBest, BestPreserved, BestInvIsEnough, PTL DEF Spec

----------------------------------------------------------------------------
(* How many evaluations may have been made at every place.                 *)
BudgetInv ==
  /\ pc = "minus" => Len(evals) <= AtLeast(1)
  /\ pc = "plus" => Len(evals) <= AtLeast(1) + 1
  /\ pc = "neighbour" => Len(evals) < AtLeast(2)
  /\ pc = "reflect" => Len(evals) < AtLeast(Dim + 2)
  /\ pc \in {"expand", "contract"} => Len(evals) <= AtLeast(Dim + 2)
  /\ pc = "reduce" => Len(evals) < AtLeast(Dim + 2) + next
  /\ pc = "nodes" => Len(evals) < AtLeast(1) + next - 1
  /\ WithinBudget

LEMMA InitBudget == Init => BudgetInv
<1> SUFFICES ASSUME Init PROVE BudgetInv
  OBVIOUS
<1>1. pc = "guess" /\ Len(evals) = 0 /\ optimizer \in Optimizers
  BY DEF Init
<1>2. WithinBudget
  BY <1>1, OptimizersAssumption, DimAssumption, MaxAssumption
     DEF WithinBudget, Budget, AtLeast
<1>3. QED
  BY <1>1, <1>2 DEF BudgetInv

LEMMA BudgetPreserved == Shape /\ BudgetInv /\ [Next]_vars => BudgetInv'
<1> SUFFICES ASSUME Shape, BudgetInv, [Next]_vars PROVE BudgetInv'
  OBVIOUS
<1> USE OptimizersAssumption, DimAssumption, MaxAssumption
<1> DEFINE n == Len(evals)
<1>0. /\ AtLeast(Dim + 2) \in Nat /\ AtLeast(Dim + 2) >= Dim + 2
      /\ AtLeast(Dim + 2) >= MaxEvaluations
  BY DEF AtLeast
<1>1. /\ n \in Nat /\ next \in 2..Dim + 1 /\ optimizer \in Optimizers
      /\ optimizer' = optimizer
  BY DEF Shape, TypeOK, Next, Proceed, AskGuess, CoordinateDescent, Powell, TryMinus, TryPlus,
     Anneal, BuildSimplex, Reflect, Expand, Contract, Reduce, Bobyqa, Rbf, LibraryAsks,
     LibraryReturns, RbfNodes, SaveResult, Throws, vars, settings
<1>2. \A e \in Answers : Evaluate(e) => Len(evals') = n + 1
  BY Evaluated DEF Shape
<1>3. \A es, vs : EndTurn(es, vs) =>
        pc' = "mapped" \/ (pc' = "reflect" /\ ~(Len(es) >= MaxEvaluations))
  BY DEF EndTurn
<1>4. CASE AskGuess
  <2>1. Len(evals') = 1 /\ pc' \in {"minus", "neighbour", "model"} /\ optimizer # "simplex"
    <3>1. pc' \in {"minus", "neighbour", "model"} /\ optimizer # "simplex"
      BY <1>1, <1>4 DEF AskGuess
    <3>2. n <= 0
      BY <1>4, <3>1 DEF AskGuess, Shape, Phase
    <3>3. Len(evals') = n + 1
      BY <1>2, <1>4 DEF AskGuess
    <3>4. QED
      BY <1>1, <3>1, <3>2, <3>3
  <2>2. QED
    BY <1>1, <2>1 DEF BudgetInv, WithinBudget, Budget, AtLeast
<1>5. CASE TryMinus
  <2>1. /\ Len(evals') = n + 1 /\ pc = "minus" /\ pc' = "plus"
        /\ optimizer \in {"coord", "powell"}
    BY <1>2, <1>5 DEF TryMinus, Shape, Phase
  <2>2. QED
    BY <1>1, <2>1 DEF BudgetInv, WithinBudget, Budget, AtLeast
<1>6. CASE TryPlus
  <2>1. /\ Len(evals') = n + 1 /\ pc = "plus" /\ optimizer \in {"coord", "powell"}
        /\ pc' = "mapped" \/ (pc' = "minus" /\ ~(n + 1 > MaxEvaluations))
    BY <1>2, <1>6 DEF TryPlus, Shape, Phase
  <2>2. QED
    BY <1>1, <2>1 DEF BudgetInv, WithinBudget, Budget, AtLeast
<1>7. CASE Anneal
  <2>1. /\ Len(evals') = n + 1 /\ pc = "neighbour" /\ optimizer = "simu"
        /\ pc' = "mapped" \/ (pc' = "neighbour" /\ n + 1 < MaxEvaluations)
    BY <1>2, <1>7 DEF Anneal, Shape, Phase
  <2>2. QED
    BY <1>1, <2>1 DEF BudgetInv, WithinBudget, Budget, AtLeast
<1>8. CASE BuildSimplex
  <2>1. /\ Len(evals') = n + 1 /\ pc = "guess" /\ optimizer = "simplex" /\ n <= Dim
        /\ pc' \in {"guess", "reflect"}
    BY <1>2, <1>8 DEF BuildSimplex, Shape, Phase
  <2>2. QED
    BY <1>1, <2>1 DEF BudgetInv, WithinBudget, Budget, AtLeast
<1>9. CASE Reflect
  <2>1. /\ Len(evals') = n + 1 /\ pc = "reflect" /\ optimizer = "simplex"
        /\ pc' \in {"expand", "contract", "mapped"} \/
             (pc' = "reflect" /\ ~(Len(evals') >= MaxEvaluations))
    BY <1>2, <1>3, <1>9 DEF Reflect, Evaluate, Shape, Phase, Turning
  <2>2. n + 1 <= AtLeast(Dim + 2)
    BY <1>1, <1>0, <2>1 DEF BudgetInv
  <2>3. WithinBudget'
    BY <1>1, <1>0, <2>1, <2>2 DEF WithinBudget, Budget
  <2>4. QED
    BY <1>1, <1>0, <2>1, <2>2, <2>3 DEF BudgetInv
<1>10. CASE Expand
  <2>1. /\ Len(evals') = n + 1 /\ pc = "expand" /\ optimizer = "simplex"
        /\ pc' = "mapped" \/ (pc' = "reflect" /\ ~(Len(evals') >= MaxEvaluations))
    BY <1>2, <1>3, <1>10 DEF Expand, Evaluate, Shape, Phase, Turning
  <2>2. n + 1 <= AtLeast(Dim + 2) + 1
    BY <1>1, <1>0, <2>1 DEF BudgetInv
  <2>3. WithinBudget'
    BY <1>1, <1>0, <2>1, <2>2 DEF WithinBudget, Budget
  <2>4. QED
    BY <1>1, <1>0, <2>1, <2>2, <2>3 DEF BudgetInv
<1>11. CASE Contract
  <2>1. /\ Len(evals') = n + 1 /\ pc = "contract" /\ optimizer = "simplex"
        /\ \/ pc' = "mapped"
           \/ pc' = "reflect" /\ ~(Len(evals') >= MaxEvaluations)
           \/ pc' = "reduce" /\ next' = 2
    BY <1>2, <1>3, <1>11 DEF Contract, Evaluate, Shape, Phase, Turning
  <2>2. n + 1 <= AtLeast(Dim + 2) + 1
    BY <1>1, <1>0, <2>1 DEF BudgetInv
  <2>3. WithinBudget'
    BY <1>1, <1>0, <2>1, <2>2 DEF WithinBudget, Budget
  <2>4. QED
    BY <1>1, <1>0, <2>1, <2>2, <2>3 DEF BudgetInv
<1>12. CASE Reduce
  <2>1. /\ Len(evals') = n + 1 /\ pc = "reduce" /\ optimizer = "simplex"
        /\ \/ pc' = "mapped"
           \/ pc' = "reflect" /\ ~(Len(evals') >= MaxEvaluations)
           \/ pc' = "reduce" /\ next' = next + 1 /\ next # Dim + 1
    BY <1>2, <1>3, <1>12 DEF Reduce, Evaluate, Shape, Phase, Turning
  <2>2. n + 1 <= AtLeast(Dim + 2) + next
    BY <1>1, <1>0, <2>1 DEF BudgetInv
  <2>3. WithinBudget'
    BY <1>1, <1>0, <2>1, <2>2 DEF WithinBudget, Budget
  <2>4. QED
    BY <1>1, <1>0, <2>1, <2>2, <2>3 DEF BudgetInv
<1>13. CASE optimizer \in {"bobyqa", "rbf"} /\ LibraryAsks
  <2>1. Len(evals') = n + 1 /\ pc' = "model" /\ n < MaxEvaluations
    BY <1>2, <1>13 DEF LibraryAsks
  <2>2. QED
    BY <1>1, <1>13, <2>1 DEF BudgetInv, WithinBudget, Budget, AtLeast
<1>14. CASE optimizer = "rbf" /\ RbfNodes
  <2> DEFINE node == IF pc = "nodes" THEN next ELSE 1
  <2>1. /\ Len(evals') = n + 1
        /\ pc = "nodes" \/ n < MaxEvaluations \/ n = 0
        /\ IF node <= Dim THEN next' = node + 1 /\ pc' = "nodes" ELSE pc' = "model"
    BY <1>2, <1>14 DEF RbfNodes, Shape, Phase
  <2>2. n < AtLeast(1) + node - 1
    BY <1>1, <2>1 DEF BudgetInv, AtLeast
  <2>3. node \in 1..Dim + 1
    BY <1>1
  <2> HIDE DEF node
  <2>4. QED
    BY <1>1, <1>14, <2>1, <2>2, <2>3 DEF BudgetInv, WithinBudget, Budget, AtLeast
<1>15. CASE LibraryReturns \/ SaveResult \/ Throws
  <2>1. evals' = evals /\ pc' \in {"mapped", "saved", "lost", "aborted"}
    BY <1>15 DEF LibraryReturns, SaveResult, Throws
  <2>2. WithinBudget'
    BY <1>1, <2>1 DEF BudgetInv, WithinBudget, Budget, AtLeast
  <2>3. QED
    BY <2>1, <2>2 DEF BudgetInv
<1>16. CASE UNCHANGED vars
  BY <1>16 DEF vars, BudgetInv, WithinBudget, Budget, AtLeast
<1>17. QED
  BY <1>4, <1>5, <1>6, <1>7, <1>8, <1>9, <1>10, <1>11, <1>12, <1>13, <1>14, <1>15, <1>16
     DEF Next, Proceed, CoordinateDescent, Powell, Bobyqa, Rbf

(* No search makes more evaluations than its limit and one turn allow.     *)
THEOREM KeepsBudget == Spec => []WithinBudget
<1>1. BudgetInv => WithinBudget
  BY DEF BudgetInv
<1>2. QED
  BY <1>1, InitShape, ShapePreserved, InitBudget, BudgetPreserved, PTL DEF Spec

----------------------------------------------------------------------------
(* The log holds the points that met the constraint, with the qualities    *)
(* the optimizer's values were made of; the file holds the point returned. *)
LogInv ==
  /\ \A k \in 1..Len(log) :
       /\ log[k].point \in Points
       /\ evals[log[k].point].met
       /\ evals[log[k].point].q = log[k].q
  /\ \A i \in Points : evals[i].met => \E k \in 1..Len(log) : log[k].point = i
  /\ \A i \in Points : evals[i].value = Objective(evals[i])

SavedInv == pc = "saved" => saved = best

LEMMA InitLog == Init => LogInv /\ SavedInv
BY DEF Init, LogInv, SavedInv, Points

LEMMA LogGrows ==
  ASSUME Shape, LogInv, NEW e \in Answers, Evaluate(e), dir' = dir
  PROVE  LogInv'
<1> DEFINE n == Len(evals)
           entry == [point |-> n + 1, q |-> e.q]
<1>1. /\ evals' = Append(evals, e) /\ evals \in Seq(Evaluation) /\ e \in Evaluation
      /\ Len(evals') = n + 1 /\ n \in Nat
  BY Evaluated DEF Shape, TypeOK
<1>2. \A i \in 1..n : evals'[i] = evals[i]
  BY <1>1
<1>3. evals'[n + 1] = e
  BY <1>1
<1>4. e.value = Objective(e)
  BY DEF Answers
<1>5. (\A i \in Points : evals[i].value = Objective(evals[i]))'
  <2>1. ASSUME NEW i \in 1..n + 1 PROVE (evals[i].value = Objective(evals[i]))'
    <3>1. CASE i \in 1..n
      <4>1. evals[i].value = Objective(evals[i])
        BY <3>1 DEF LogInv, Points
      <4>2. QED
        BY <1>2, <3>1, <4>1 DEF Objective
    <3>2. CASE i = n + 1
      BY <1>3, <1>4, <3>2 DEF Objective
    <3>3. QED
      BY <3>1, <3>2
  <2>2. QED
    BY <1>1, <2>1 DEF Points
<1>6. CASE e.met
  <2>1. log' = Append(log, entry)
    BY <1>6 DEF Evaluate
  <2>2. /\ Len(log) \in Nat /\ Len(log') = Len(log) + 1
        /\ \A k \in 1..Len(log) : log'[k] = log[k]
        /\ log'[Len(log) + 1] = entry
    BY <2>1 DEF Shape, TypeOK
  <2>3. \A k \in 1..Len(log') :
          /\ log'[k].point \in 1..n + 1
          /\ evals'[log'[k].point].met
          /\ evals'[log'[k].point].q = log'[k].q
    <3>1. ASSUME NEW k \in 1..Len(log)
          PROVE  /\ log'[k].point \in 1..n + 1
                 /\ evals'[log'[k].point].met
                 /\ evals'[log'[k].point].q = log'[k].q
      <4>1. /\ log'[k] = log[k]
            /\ log[k].point \in 1..n
            /\ evals[log[k].point].met
            /\ evals[log[k].point].q = log[k].q
        BY <2>2 DEF LogInv, Points
      <4>2. QED
        BY <1>1, <1>2, <4>1
    <3>2. /\ entry.point \in 1..n + 1
          /\ evals'[entry.point].met
          /\ evals'[entry.point].q = entry.q
      BY <1>1, <1>3, <1>6
    <3>3. QED
      BY <2>2, <3>1, <3>2
  <2>4. ASSUME NEW i \in 1..n + 1, evals'[i].met
        PROVE  \E k \in 1..Len(log') : log'[k].point = i
    <3>1. CASE i \in 1..n
      <4>1. PICK k \in 1..Len(log) : log[k].point = i
        BY <1>2, <2>4, <3>1 DEF LogInv, Points
      <4>2. k \in 1..Len(log') /\ log'[k].point = i
        BY <2>2, <4>1
      <4>3. QED
        BY <4>2
    <3>2. CASE i = n + 1
      <4>1. Len(log) + 1 \in 1..Len(log') /\ log'[Len(log) + 1].point = i
        BY <2>2, <3>2
      <4>2. QED
        BY <4>1
    <3>3. QED
      BY <3>1, <3>2
  <2>5. QED
    BY <1>1, <1>5, <2>3, <2>4 DEF LogInv, Points
<1>7. CASE ~e.met
  <2>1. log' = log
    BY <1>7 DEF Evaluate
  <2>2. ASSUME NEW k \in 1..Len(log')
        PROVE  /\ log'[k].point \in 1..n + 1
               /\ evals'[log'[k].point].met
               /\ evals'[log'[k].point].q = log'[k].q
    <3>1. /\ log'[k] = log[k]
          /\ log[k].point \in 1..n
          /\ evals[log[k].point].met
          /\ evals[log[k].point].q = log[k].q
      BY <2>1 DEF LogInv, Points
    <3>2. QED
      BY <1>1, <1>2, <3>1
  <2>3. ASSUME NEW i \in 1..n + 1, evals'[i].met
        PROVE  \E k \in 1..Len(log') : log'[k].point = i
    <3>1. i \in 1..n /\ evals[i].met
      BY <1>2, <1>3, <1>7, <2>3
    <3>2. QED
      BY <2>1, <3>1 DEF LogInv, Points
  <2>4. QED
    BY <1>1, <1>5, <2>2, <2>3 DEF LogInv, Points
<1>8. QED
  BY <1>6, <1>7

LEMMA LogPreserved == Shape /\ LogInv /\ SavedInv /\ [Next]_vars => (LogInv /\ SavedInv)'
<1> SUFFICES ASSUME Shape, LogInv, SavedInv, [Next]_vars PROVE (LogInv /\ SavedInv)'
  OBVIOUS
<1>1. dir' = dir
  BY DEF Next, Proceed, AskGuess, CoordinateDescent, Powell, TryMinus, TryPlus,
     Anneal, BuildSimplex, Reflect, Expand, Contract, Reduce, Bobyqa, Rbf, LibraryAsks,
     LibraryReturns, RbfNodes, SaveResult, Throws, vars, settings
<1>2. LogInv'
  <2>1. CASE \E e \in Answers : Evaluate(e)
    BY <1>1, <2>1, LogGrows
  <2>2. CASE UNCHANGED <<evals, log>>
    BY <1>1, <2>2 DEF LogInv, Points, Objective
  <2>3. QED
    BY <2>1, <2>2
       DEF Next, Proceed, AskGuess, CoordinateDescent, Powell, TryMinus, TryPlus,
       Anneal, BuildSimplex, Reflect, Expand, Contract, Reduce, Bobyqa, Rbf, LibraryAsks,
       LibraryReturns, RbfNodes, SaveResult, Throws, vars
<1>3. SavedInv'
  BY DEF SavedInv, Next, Proceed, AskGuess, CoordinateDescent, Powell, TryMinus, TryPlus,
     Anneal, BuildSimplex, Reflect, Expand, Contract, Reduce, Bobyqa, Rbf, LibraryAsks,
     LibraryReturns, RbfNodes, SaveResult, Throws, vars, EndTurn, Ended
<1>4. QED
  BY <1>2, <1>3

LEMMA SavedIsBest == Shape /\ BestInv /\ LogInv /\ SavedInv => SavedIsBestOfLog
<1> SUFFICES ASSUME Shape, BestInv, LogInv, SavedInv, pc = "saved",
                    \A i \in Points : IsNumber(i),
                    NEW k \in 1..Len(log)
             PROVE  LET entry == {m \in 1..Len(log) : log[m].point = saved}
                    IN  IF entry = {} THEN ~Preferred(log[k].q, 0)
                        ELSE \A m \in entry : ~Preferred(log[k].q, log[m].q)
  BY DEF SavedIsBestOfLog
<1> DEFINE i == log[k].point
<1>1. /\ saved \in Points /\ i \in Points
      /\ evals[i].met /\ evals[i].q = log[k].q
      /\ evals[i].value = Objective(evals[i])
      /\ evals[saved].value = Objective(evals[saved])
  BY DEF LogInv, SavedInv, Shape, Named, Found
<1>2. ~Beats(evals, i, saved)
  BY <1>1, BestInvIsEnough DEF BestIsReturned, Found, SavedInv
<1>3. /\ evals[i].value # NaN /\ evals[saved].value # NaN
      /\ ~(evals[i].value < evals[saved].value)
  BY <1>1, <1>2 DEF Beats, Less, ValueOf, IsNumber
<1>4. /\ evals[i].q \in Quality \cup {NaN} /\ evals[saved].q \in Quality \cup {NaN}
      /\ dir \in {"maximize", "minimize"}
  <2>1. evals \in Seq(Evaluation) /\ dir \in {"maximize", "minimize"}
    BY DEF Shape, TypeOK
  <2> HIDE DEF i
  <2>2. evals[i] \in Evaluation /\ evals[saved] \in Evaluation
    BY <1>1, <2>1 DEF Points
  <2>3. QED
    BY <2>1, <2>2 DEF Evaluation
<1>5. evals[i].q \in Int /\ evals[i].value = IF dir = "maximize" THEN -evals[i].q ELSE evals[i].q
  BY <1>1, <1>3, <1>4, QualityAssumption DEF Objective, Reverted
<1>6. CASE evals[saved].met
  <2>1. /\ evals[saved].q \in Int
        /\ evals[saved].value = IF dir = "maximize" THEN -evals[saved].q ELSE evals[saved].q
    BY <1>1, <1>3, <1>4, <1>6, QualityAssumption DEF Objective, Reverted
  <2>2. ~Preferred(evals[i].q, evals[saved].q)
    BY <1>3, <1>4, <1>5, <2>1 DEF Preferred
  <2>3. \E m \in 1..Len(log) : log[m].point = saved
    BY <1>1, <1>6 DEF LogInv
  <2>4. \A m \in 1..Len(log) : log[m].point = saved => log[m].q = evals[saved].q
    BY DEF LogInv
  <2>5. QED
    BY <1>1, <2>2, <2>3, <2>4
<1>7. CASE ~evals[saved].met
  <2>1. evals[saved].value = 0
    BY <1>1, <1>7 DEF Objective
  <2>2. ~Preferred(evals[i].q, 0)
    BY <1>3, <1>4, <1>5, <2>1 DEF Preferred
  <2>3. \A m \in 1..Len(log) : log[m].point # saved
    BY <1>7 DEF LogInv
  <2>4. QED
    BY <1>1, <2>2, <2>3
<1>8. QED
  BY <1>6, <1>7

(* The gripper in the result file is one of the best in the log, or one    *)
(* outside of the box when nothing in the log is better than 0.0.          *)
THEOREM SavesTheBest == Spec => []SavedIsBestOfLog
BY InitShape, ShapePreserved, InitBest, BestPreserved, InitLog, LogPreserved, SavedIsBest,
   PTL DEF Spec

----------------------------------------------------------------------------
(* The refinement: the values of the points are the values of the search,  *)
(* and the best point is its result once it is found.                      *)
values == [i \in Points |-> ValueOf(evals, i)]
returned == IF Found THEN best ELSE 0

LEMMA ValuesAreSeq ==
  ASSUME NEW es \in Seq(Evaluation)
  PROVE  LET vs == [i \in 1..Len(es) |-> ValueOf(es, i)]
         IN  /\ vs \in Seq(Value)
             /\ Len(vs) = Len(es)
             /\ \A i \in 1..Len(es) : vs[i] = ValueOf(es, i)
<1> DEFINE vs == [i \in 1..Len(es) |-> ValueOf(es, i)]
<1>1. \A i \in 1..Len(es) : es[i] \in Evaluation
  OBVIOUS
<1>2. \A i \in 1..Len(es) : ValueOf(es, i) \in Value
  BY <1>1 DEF ValueOf, Evaluation
<1>3. Len(es) \in Nat /\ vs \in [1..Len(es) -> Value]
  BY <1>2
<1>4. QED
  BY <1>3

(* An evaluation asks for one more value.                                  *)
LEMMA EvaluationAsks ==
  ASSUME TypeOK, NEW e \in Answers, Evaluate(e)
  PROVE  values' = Append(values, e.value) /\ e.value \in Value
<1>1. /\ e \in Evaluation /\ evals \in Seq(Evaluation)
      /\ evals' = Append(evals, e) /\ evals' \in Seq(Evaluation)
      /\ Len(evals') = Len(evals) + 1 /\ Len(evals) \in Nat
  BY Evaluated DEF TypeOK
<1>2. e.value \in Value
  BY <1>1 DEF Evaluation
<1>3. /\ values \in Seq(Value) /\ Len(values) = Len(evals)
      /\ \A i \in 1..Len(evals) : values[i] = ValueOf(evals, i)
  BY <1>1, ValuesAreSeq DEF values, Points
<1>4. /\ values' \in Seq(Value) /\ Len(values') = Len(evals) + 1
      /\ \A i \in 1..Len(evals) + 1 : values'[i] = ValueOf(evals', i)
  BY <1>1, ValuesAreSeq DEF values, Points
<1>5. \A i \in 1..Len(evals) : values'[i] = values[i]
  <2>1. \A i \in 1..Len(evals) : ValueOf(evals', i) = ValueOf(evals, i)
    BY <1>1, Extend
  <2>2. QED
    BY <1>1, <1>3, <1>4, <2>1
<1>6. values'[Len(evals) + 1] = e.value
  BY <1>1, <1>4 DEF ValueOf
<1>7. QED
  BY <1>1, <1>2, <1>3, <1>4, <1>5, <1>6

(* What is found is a result the abstract search may return.               *)
LEMMA FoundIsUnbeaten ==
  Shape /\ BestInv /\ Found
    => best \in 1..Len(values) /\ AbstractSearch!Unbeaten(values, best)
<1> SUFFICES ASSUME Shape, BestInv, Found
             PROVE  best \in 1..Len(values) /\ AbstractSearch!Unbeaten(values, best)
  OBVIOUS
<1>1. /\ evals \in Seq(Evaluation) /\ best \in Points /\ BestIsReturned
  BY BestInvIsEnough DEF Shape, TypeOK, Named
<1>2. Len(values) = Len(evals) /\ \A i \in Points : values[i] = ValueOf(evals, i)
  BY <1>1, ValuesAreSeq DEF values, Points
<1>3. AbstractSearch!Unbeaten(values, best)
  <2> SUFFICES ASSUME \A j \in 1..Len(values) : values[j] # NaN,
                      NEW j \in 1..Len(values)
               PROVE  ~AbstractSearch!Less(values[j], values[best])
    BY DEF AbstractSearch!Unbeaten
  <2>1. \A i \in Points : IsNumber(i)
    BY <1>2 DEF IsNumber, Points
  <2>2. ~Beats(evals, j, best)
    BY <1>1, <1>2, <2>1 DEF BestIsReturned, Points
  <2>3. QED
    BY <1>1, <1>2, <2>2 DEF Beats, Less, AbstractSearch!Less, Points
<1>4. QED
  BY <1>1, <1>2, <1>3 DEF Points

LEMMA StepIsSearch ==
  ASSUME Shape, BestInv, [Next]_vars
  PROVE  \/ values' = values /\ returned' = returned
         \/ AbstractSearch!SearchNext
<1>1. Shape' /\ BestInv'
  BY ShapePreserved, BestPreserved
<1>2. CASE Found
  <2>1. UNCHANGED <<evals, best>> /\ Found'
    BY <1>2 DEF Found, Next, Proceed, AskGuess, CoordinateDescent, Powell, TryMinus,
       TryPlus, Anneal, BuildSimplex, Reflect, Expand, Contract, Reduce, Bobyqa, Rbf,
       LibraryAsks, LibraryReturns, RbfNodes, SaveResult, Throws, vars, Ended
  <2>2. QED
    BY <1>2, <2>1 DEF values, returned, Points
<1>3. CASE ~Found
  <2>1. returned = 0
    BY <1>3 DEF returned
  <2>2. (\E v \in Value : values' = Append(values, v)) \/ values' = values
    <3>1. CASE \E e \in Answers : Evaluate(e)
      BY <3>1, EvaluationAsks DEF Shape
    <3>2. CASE UNCHANGED evals
      BY <3>2 DEF values, Points
    <3>3. QED
      BY <3>1, <3>2
         DEF Next, Proceed, AskGuess, CoordinateDescent, Powell, TryMinus, TryPlus,
         Anneal, BuildSimplex, Reflect, Expand, Contract, Reduce, Bobyqa, Rbf, LibraryAsks,
         LibraryReturns, RbfNodes, SaveResult, Throws, vars
  <2>3. (\E i \in 1..Len(values') : AbstractSearch!Unbeaten(values', i) /\ returned' = i)
          \/ returned' = returned
    <3>1. CASE Found'
      <4>1. (best \in 1..Len(values) /\ AbstractSearch!Unbeaten(values, best))'
        BY <1>1, <3>1, FoundIsUnbeaten, PTL
      <4>2. returned' = best'
        BY <3>1 DEF returned
      <4>3. QED
        BY <4>1, <4>2
    <3>2. CASE ~Found'
      BY <2>1, <3>2 DEF returned
    <3>3. QED
      BY <3>1, <3>2
  <2>4. QED
    BY <2>1, <2>2, <2>3 DEF AbstractSearch!SearchNext, AbstractSearch!Ask,
       AbstractSearch!Return, values, returned
<1>4. QED
  BY <1>2, <1>3

(* Every optimizer is a search: it only adds evaluations, and it returns   *)
(* once, a point that no other beats.                                      *)
THEOREM OptimizersAreSearches == Spec => ImplementsSearch
<1>1. Init => AbstractSearch!SearchInit
  <2> SUFFICES ASSUME Init PROVE AbstractSearch!SearchInit
    OBVIOUS
  <2>1. evals = <<>> /\ ~Found
    BY DEF Init, Found
  <2>2. QED
    BY <2>1 DEF AbstractSearch!SearchInit, Points
<1>2. Shape /\ BestInv /\ [Next]_vars
        => [AbstractSearch!SearchNext]_(AbstractSearch!searchVars)
  BY StepIsSearch DEF AbstractSearch!searchVars, values, returned
<1>3. QED
  BY <1>1, <1>2, InitShape, ShapePreserved, InitBest, BestPreserved, PTL
     DEF Spec, ImplementsSearch, AbstractSearch!SearchSpec
=============================================================================
