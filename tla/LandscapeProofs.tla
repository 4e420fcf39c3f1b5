-------------------------- MODULE LandscapeProofs --------------------------
(***************************************************************************)
(* For every resolution and any number of samplings: rows are of their     *)
(* samples, and what was settled is collected.                             *)
(***************************************************************************)
EXTENDS Landscape, TLAPS

Rows == [sample : Samples, run : 1..Samplings, value : Samples]

(* In sequence only the job the script waits for is at work, and the csv   *)
(* file is open as long as the script runs.                                *)
Alone ==
  way = "sequence" =>
  /\ \A j \in Jobs : job[j] \in Active => pc = "wait" /\ j = Current
  /\ pc # "idle" => csv.state = "open"
  /\ pc = "wait" /\ job[Current] = "writing" => file[i].kind = "empty"
  /\ pc = "wait" /\ job[Current] \in {"saved", "done"} => file[i] = Result(Current)

(* On the cluster a file is of its sample, and of a job that wrote it.     *)
OfSample ==
  way = "cluster" =>
  /\ pc # "wait"
  /\ \A s \in Samples : file[s].kind = "whole" =>
       /\ file[s].value = s
       /\ job[<<file[s].run, s>>] # "none"

(* Sampled so far.                                                         *)
Reached ==
  /\ pc # "idle" => run >= 1
  /\ pc = "wait" => at <= Res /\ job[Current] # "none"
  /\ \A j \in Jobs : job[j] # "none" => j[1] <= run
  /\ pc = "loop" => \A j \in Jobs : j[1] = run /\ j[2] >= at => job[j] = "none"
  /\ pc = "wait" => \A j \in Jobs : j[1] = run /\ j[2] > at => job[j] = "none"

RowsInv ==
  /\ RowsOfTheirSamples
  /\ csv.state = "open" => \A n \in 1..Len(csv.rows) :
       csv.rows[n].sample < IF way = "cluster" THEN k ELSE at

Typed ==
  /\ TypeOK
  /\ \A s \in Samples : file[s].kind = "whole" => file[s].run \in 1..Samplings

Shape == Typed /\ Alone /\ OfSample /\ Reached

LEMMA InitShape == Init => Shape /\ RowsInv
<1> SUFFICES ASSUME Init PROVE Shape /\ RowsInv
  OBVIOUS
<1>1. /\ \A j \in Jobs : job[j] = "none"
      /\ \A s \in Samples : file[s].kind = "absent"
      /\ csv.rows = <<>> /\ Len(csv.rows) = 0 /\ csv.state = "none"
  BY DEF Init, Without
<1>2. TypeOK
  BY <1>1, ResAssumption, SamplingsAssumption
     DEF Init, TypeOK, Samples, Content, Active, Ended
<1>3. QED
  BY <1>1, <1>2 DEF Shape, Typed, Alone, OfSample, Reached, RowsInv, RowsOfTheirSamples,
     Init, Active

(* A row of a file that is whole.                                          *)
LEMMA NewRow ==
  ASSUME Typed, NEW f \in Content, f.kind = "whole", f.run \in 1..Samplings,
         NEW s \in Samples, Write(s, f)
  PROVE  /\ csv'.state = csv.state
         /\ csv'.rows \in Seq(Rows)
         /\ Len(csv.rows) \in Nat
         /\ Len(csv'.rows) = Len(csv.rows) + 1
         /\ \A n \in 1..Len(csv.rows) : csv'.rows[n] = csv.rows[n]
         /\ csv'.rows[Len(csv.rows) + 1] = [sample |-> s, run |-> f.run, value |-> f.value]
<1>1. csv.rows \in Seq(Rows)
  BY DEF Typed, TypeOK, Rows
<1> DEFINE row == [sample |-> s, run |-> f.run, value |-> f.value]
<1>2. row \in Rows
  BY DEF Rows, Content, Result, Without, Jobs
<1>3. csv'.state = csv.state /\ csv'.rows = Append(csv.rows, row)
  BY DEF Write, Row
<1> HIDE DEF row
<1>4. /\ csv'.rows \in Seq(Rows)
      /\ Len(csv.rows) \in Nat
      /\ Len(csv'.rows) = Len(csv.rows) + 1
      /\ \A n \in 1..Len(csv.rows) : csv'.rows[n] = csv.rows[n]
      /\ csv'.rows[Len(csv.rows) + 1] = row
  BY <1>1, <1>2, <1>3
<1>5. QED
  BY <1>3, <1>4 DEF row

----------------------------------------------------------------------------
LEMMA ShapeOfSampler == Shape /\ Sampler => Shape'
<1> SUFFICES ASSUME Shape, Sampler PROVE Shape'
  OBVIOUS
<1> USE ResAssumption, SamplingsAssumption DEF Shape
<1>1. /\ way' = way /\ file' = file /\ k' = k /\ settled' = settled
      /\ way \in Ways /\ way \in {"cluster", "sequence"}
      /\ run \in 0..Samplings /\ at \in 0..Res + 1 /\ i \in 0..at
      /\ job \in [Jobs -> {"none"} \cup Active \cup Ended]
      /\ csv \in [state : {"none", "open", "closed", "broken", "stopped"}, rows : Seq(Rows)]
  BY WaysAssumption DEF Typed, TypeOK, Rows, Sampler, Begin, Submit, Evaluate,
     EvaluationReturns, SamplingEnds, Interrupt, collection
<1>2. Current \in Jobs <=> run >= 1 /\ at <= Res
  BY <1>1 DEF Current, Jobs, Samples
<1>3. (\A s \in Samples : file[s].kind = "whole" => file[s].run \in 1..Samplings)'
  BY <1>1 DEF Typed
<1>4. CASE Begin
  <2>1. /\ run' = run + 1 /\ run' \in 0..Samplings /\ pc = "idle" /\ pc' = "loop"
        /\ at' = 0 /\ i' = 0 /\ job' = job
        /\ csv' = IF way = "sequence" THEN [state |-> "open", rows |-> <<>>] ELSE csv
    BY <1>1, <1>4 DEF Begin, OpenCsv
  <2>2. csv' \in [state : {"none", "open", "closed", "broken", "stopped"}, rows : Seq(Rows)]
    BY <1>1, <2>1
  <2>3. Typed'
    BY <1>1, <1>3, <2>1, <2>2 DEF Typed, TypeOK, Rows
  <2>4. Alone'
    BY <1>1, <2>1 DEF Alone
  <2>5. OfSample'
    BY <1>1, <2>1 DEF OfSample
  <2>6. Reached'
    BY <1>1, <2>1 DEF Reached, Jobs
  <2>7. QED
    BY <2>3, <2>4, <2>5, <2>6
<1>5. CASE Submit
  <2>1. /\ run' = run /\ pc = "loop" /\ pc' = "loop" /\ at <= Res /\ way = "cluster"
        /\ at' = at + 1 /\ i' = i /\ csv' = csv
        /\ \/ job' = job
           \/ job' = [job EXCEPT ![Current] = "running"]
    BY <1>1, <1>5 DEF Submit, collection
  <2>2. Current \in Jobs /\ job[Current] = "none"
    BY <1>1, <1>2, <2>1 DEF Reached, Current
  <2>3. /\ job' \in [Jobs -> {"none"} \cup Active \cup Ended]
        /\ \A j \in Jobs : job'[j] = job[j] \/ (j = Current /\ job'[j] # "none")
    BY <1>1, <2>1, <2>2 DEF Active
  <2>4. Typed'
    BY <1>1, <1>3, <2>1, <2>3 DEF Typed, TypeOK, Rows
  <2>5. Alone'
    BY <1>1, <2>1 DEF Alone
  <2>6. OfSample'
    <3>1. \A s \in Samples : file[s].kind = "whole" => <<file[s].run, s>> \in Jobs
      BY DEF Typed, Jobs
    <3>2. QED
      BY <1>1, <2>1, <2>3, <3>1 DEF OfSample
  <2>7. Reached'
    <3>1. \A j \in Jobs : j[1] = run /\ j[2] >= at + 1 => job'[j] = "none"
      BY <1>1, <2>1, <2>3 DEF Reached, Jobs, Samples, Current
    <3>2. \A j \in Jobs : job'[j] # "none" => j[1] <= run
      BY <1>1, <2>1, <2>3 DEF Reached, Jobs, Current
    <3>3. QED
      BY <1>1, <2>1, <3>1, <3>2 DEF Reached
  <2>8. QED
    BY <2>4, <2>5, <2>6, <2>7
<1>6. CASE Evaluate
  <2>1. /\ run' = run /\ pc = "loop" /\ pc' = "wait" /\ at <= Res /\ way = "sequence"
        /\ at' = at /\ i' = i /\ csv' = csv
        /\ job' = [job EXCEPT ![Current] = "running"]
    BY <1>1, <1>6 DEF Evaluate, collection
  <2>2. Current \in Jobs /\ Current' = Current
    BY <1>1, <1>2, <2>1 DEF Reached, Current
  <2>3. /\ job' \in [Jobs -> {"none"} \cup Active \cup Ended]
        /\ job'[Current] = "running"
        /\ \A j \in Jobs : j # Current => job'[j] = job[j]
    BY <1>1, <2>1, <2>2 DEF Active
  <2>4. Typed'
    BY <1>1, <1>3, <2>1, <2>3 DEF Typed, TypeOK, Rows
  <2>5. Alone'
    BY <1>1, <2>1, <2>2, <2>3 DEF Alone
  <2>6. OfSample'
    BY <1>1, <2>1 DEF OfSample
  <2>7. Reached'
    <3>1. job'[Current'] # "none"
      BY <2>2, <2>3
    <3>2. \A j \in Jobs : job'[j] # "none" => j[1] <= run
      BY <1>1, <2>2, <2>3 DEF Reached, Current
    <3>3. run >= 1
      BY <2>1 DEF Reached
    <3>4. \A j \in Jobs : j[1] = run /\ j[2] > at => job'[j] = "none"
      BY <1>1, <2>1, <2>2, <2>3 DEF Reached, Current, Jobs, Samples
    <3>5. QED
      BY <2>1, <3>1, <3>2, <3>3, <3>4 DEF Reached
  <2>8. QED
    BY <2>4, <2>5, <2>6, <2>7
<1>7. CASE EvaluationReturns
  <2>1. /\ run' = run /\ pc = "wait" /\ pc' = "loop" /\ at' = at + 1 /\ job' = job
        /\ \/ job[Current] = "failed" /\ i' = i /\ csv' = csv
           \/ job[Current] = "done" /\ i' = i + 1 /\ Write(at, file[i])
    BY <1>1, <1>7 DEF EvaluationReturns
  <2>2. /\ way = "sequence" /\ at <= Res /\ i \in Samples /\ at \in Samples /\ run >= 1
        /\ Current \in Jobs
    <3>1. way = "sequence"
      BY <1>1, <2>1 DEF OfSample
    <3>2. at <= Res /\ run >= 1
      BY <2>1 DEF Reached
    <3>3. i \in Samples /\ at \in Samples
      BY <1>1, <3>2 DEF Samples
    <3>4. QED
      BY <1>2, <3>1, <3>2, <3>3
  <2>3. CASE job[Current] = "failed" /\ i' = i /\ csv' = csv
    <3>1. Typed'
      BY <1>1, <1>3, <2>1, <2>2, <2>3 DEF Typed, TypeOK, Rows
    <3>2. (Alone /\ OfSample)'
      <4>1. \A j \in Jobs : job[j] \notin Active
        BY <2>2, <2>3 DEF Alone, Active
      <4>2. QED
        BY <1>1, <2>1, <2>2, <2>3, <4>1 DEF Alone, OfSample
    <3>3. QED
      <4>1. \A j \in Jobs : j[1] = run /\ j[2] >= at + 1 => job[j] = "none"
        BY <1>1, <2>1, <2>2 DEF Reached, Jobs, Samples
      <4>2. Reached'
        BY <1>1, <2>1, <2>2, <4>1 DEF Reached
      <4>3. QED
        BY <3>1, <3>2, <4>2
  <2>4. CASE job[Current] = "done" /\ i' = i + 1 /\ Write(at, file[i])
    <3>1. file[i] = Result(Current) /\ file[i] \in Content
      BY <2>1, <2>2, <2>4 DEF Alone, Typed, TypeOK
    <3>2. csv'.state = csv.state /\ csv'.rows \in Seq(Rows)
      <4>1. file[i].kind = "whole" /\ file[i].run = run /\ run \in 1..Samplings
        BY <1>1, <2>2, <3>1 DEF Result, Current
      <4>2. QED
        BY <2>2, <2>4, <3>1, <4>1, NewRow
    <3>3. csv' \in [state : {"none", "open", "closed", "broken", "stopped"}, rows : Seq(Rows)]
      BY <1>1, <2>4, <3>2 DEF Write
    <3>4. Typed'
      BY <1>1, <1>3, <2>1, <2>2, <2>4, <3>3 DEF Typed, TypeOK, Rows
    <3>5. (Alone /\ OfSample)'
      <4>1. \A j \in Jobs : job[j] \notin Active
        BY <2>2, <2>4 DEF Alone, Active
      <4>2. QED
        BY <1>1, <2>1, <2>2, <2>4, <3>2, <4>1 DEF Alone, OfSample
    <3>6. \A j \in Jobs : j[1] = run /\ j[2] >= at + 1 => job[j] = "none"
      BY <1>1, <2>1, <2>2 DEF Reached, Jobs, Samples
    <3>7. Reached'
      BY <1>1, <2>1, <2>2, <3>6 DEF Reached
    <3>8. QED
      BY <3>4, <3>5, <3>7
  <2>5. QED
    BY <2>1, <2>3, <2>4
<1>8. CASE SamplingEnds
  <2>1. /\ run' = run /\ pc = "loop" /\ pc' = "idle" /\ at' = at /\ i' = i /\ job' = job
        /\ csv' = IF way = "sequence" THEN [csv EXCEPT !.state = "closed"] ELSE csv
    BY <1>1, <1>8 DEF SamplingEnds, Leave
  <2>2. csv' \in [state : {"none", "open", "closed", "broken", "stopped"}, rows : Seq(Rows)]
    BY <1>1, <2>1
  <2>3. Typed'
    BY <1>1, <1>3, <2>1, <2>2 DEF Typed, TypeOK, Rows
  <2>4. (Alone /\ OfSample /\ Reached)'
    BY <1>1, <2>1 DEF Alone, OfSample, Reached
  <2>5. QED
    BY <2>3, <2>4
<1>9. CASE Interrupt
  <2>1. /\ run' = run /\ pc \in {"loop", "wait"} /\ pc' = "idle" /\ at' = at /\ i' = i
        /\ csv' = IF way = "sequence" THEN [csv EXCEPT !.state = "stopped"] ELSE csv
        /\ job' = IF pc = "wait" /\ job[Current] \in Active
                  THEN [job EXCEPT ![Current] = "failed"] ELSE job
    BY <1>1, <1>9 DEF Interrupt, Leave
  <2>2. csv' \in [state : {"none", "open", "closed", "broken", "stopped"}, rows : Seq(Rows)]
    BY <1>1, <2>1
  <2>3. pc = "wait" => Current \in Jobs
    BY <1>2 DEF Reached
  <2>4. /\ job' \in [Jobs -> {"none"} \cup Active \cup Ended]
        /\ \A j \in Jobs : job'[j] = job[j] \/ (job[j] \in Active /\ job'[j] = "failed")
    BY <1>1, <2>1, <2>3 DEF Ended
  <2>5. Typed'
    BY <1>1, <1>3, <2>1, <2>2, <2>4 DEF Typed, TypeOK, Rows
  <2>6. Alone'
    <3>1. ASSUME way = "sequence", NEW j \in Jobs PROVE job'[j] \notin Active
      BY <2>1, <2>3, <2>4, <3>1 DEF Alone, Active
    <3>2. QED
      BY <1>1, <2>1, <3>1 DEF Alone
  <2>7. OfSample'
    <3>1. \A s \in Samples : file[s].kind = "whole" => <<file[s].run, s>> \in Jobs
      BY DEF Typed, Jobs
    <3>2. QED
      BY <1>1, <2>1, <2>4, <3>1 DEF OfSample
  <2>8. Reached'
    BY <1>1, <2>1, <2>4 DEF Reached, Active
  <2>9. QED
    BY <2>5, <2>6, <2>7, <2>8
<1>10. QED
  BY <1>4, <1>5, <1>6, <1>7, <1>8, <1>9 DEF Sampler

(* A step of a job: the files are still of the samples of jobs.            *)
LEMMA JobStep ==
  ASSUME Shape, NEW j \in Jobs, Job(j)
  PROVE  /\ NameOf(j) \in Samples
         /\ UNCHANGED <<way, run, pc, at, i, csv, k, settled>>
         /\ job[j] \in Active
         /\ job' \in [Jobs -> {"none"} \cup Active \cup Ended]
         /\ job'[j] # "none"
         /\ \A l \in Jobs : l # j => job'[l] = job[l]
         /\ \A s \in Samples : s # NameOf(j) => file'[s] = file[s]
         /\ \/ file' = file /\ job'[j] \in {"done", "failed"}
               /\ (job'[j] = "done" => job[j] = "saved")
            \/ /\ file' \in [Samples -> Content]
               /\ \/ file'[NameOf(j)] = Without("empty") /\ job'[j] = "writing"
                  \/ file'[NameOf(j)] = Without("garbled") /\ job'[j] = "failed"
                  \/ /\ file'[NameOf(j)] \in {Result(j), Without("garbled")}
                     /\ job[j] = "writing" /\ job'[j] = "saved"
                     /\ file[NameOf(j)].kind = "empty" => file'[NameOf(j)] = Result(j)
<1> USE DEF Shape
<1>1. /\ job \in [Jobs -> {"none"} \cup Active \cup Ended]
      /\ file \in [Samples -> Content]
      /\ way \in {"cluster", "sequence"}
      /\ at \in 0..Res + 1 /\ i \in 0..at
  BY WaysAssumption DEF Typed, TypeOK
<1>2. job[j] \in Active
  BY DEF Job, JobOpens, JobSaves, JobEnds, JobFails, SetJob, Active
<1>3. NameOf(j) \in Samples
  <2>1. CASE way = "cluster"
    BY <2>1 DEF NameOf, Jobs
  <2>2. CASE way = "sequence"
    <3>1. at <= Res
      BY <1>2, <2>2 DEF Alone, Reached
    <3>2. i \in Samples
      BY <1>1, <3>1, ResAssumption DEF Samples
    <3>3. QED
      BY <2>2, <3>2 DEF NameOf
  <2>3. QED
    BY <1>1, <2>1, <2>2
<1>4. UNCHANGED <<way, run, pc, at, i, csv, k, settled>>
  BY DEF Job, JobOpens, JobSaves, JobEnds, JobFails, sampler, collection
<1>5. \A v \in Active \cup Ended : job' = [job EXCEPT ![j] = v] =>
        /\ job' \in [Jobs -> {"none"} \cup Active \cup Ended]
        /\ job'[j] = v
        /\ \A l \in Jobs : l # j => job'[l] = job[l]
  BY <1>1
<1>6. "none" \notin Active \cup Ended
  BY DEF Active, Ended
<1>7. \A f \in Content : file' = [file EXCEPT ![NameOf(j)] = f] =>
        /\ file' \in [Samples -> Content]
        /\ file'[NameOf(j)] = f
        /\ \A s \in Samples : s # NameOf(j) => file'[s] = file[s]
  BY <1>1, <1>3
<1>8. Without("empty") \in Content /\ Without("garbled") \in Content /\ Result(j) \in Content
  BY DEF Content
<1>9. CASE JobOpens(j)
  <2>1. job' = [job EXCEPT ![j] = "writing"] /\ file' = [file EXCEPT ![NameOf(j)] = Without("empty")]
    BY <1>9 DEF JobOpens, SetJob
  <2>2. "writing" \in Active \cup Ended
    BY DEF Active
  <2>3. QED
    BY <1>2, <1>3, <1>4, <1>5, <1>6, <1>7, <1>8, <2>1, <2>2
<1>10. CASE JobSaves(j)
  <2>1. job[j] = "writing" /\ job' = [job EXCEPT ![j] = "saved"]
    BY <1>10 DEF JobSaves, SetJob
  <2>2. PICK f \in {Result(j), Without("garbled")} :
          /\ file' = [file EXCEPT ![NameOf(j)] = f]
          /\ file[NameOf(j)].kind = "empty" => f = Result(j)
    BY <1>10 DEF JobSaves
  <2>3. "saved" \in Active \cup Ended /\ f \in Content
    BY <1>8 DEF Active
  <2>4. /\ job' \in [Jobs -> {"none"} \cup Active \cup Ended] /\ job'[j] = "saved"
        /\ \A l \in Jobs : l # j => job'[l] = job[l]
    BY <1>5, <2>1, <2>3
  <2>5. /\ file' \in [Samples -> Content] /\ file'[NameOf(j)] = f
        /\ \A s \in Samples : s # NameOf(j) => file'[s] = file[s]
    BY <1>7, <2>2, <2>3
  <2>6. QED
    BY <1>2, <1>3, <1>4, <2>1, <2>2, <2>4, <2>5
<1>11. CASE JobEnds(j)
  <2>1. job[j] = "saved" /\ job' = [job EXCEPT ![j] = "done"] /\ file' = file
    BY <1>11 DEF JobEnds, SetJob
  <2>2. "done" \in Active \cup Ended
    BY DEF Ended
  <2>3. QED
    BY <1>2, <1>3, <1>4, <1>5, <1>6, <2>1, <2>2
<1>12. CASE JobFails(j)
  <2>1. /\ job' = [job EXCEPT ![j] = "failed"]
        /\ file' = file \/ file' = [file EXCEPT ![NameOf(j)] = Without("garbled")]
    BY <1>12 DEF JobFails
  <2>2. "failed" \in Active \cup Ended
    BY DEF Ended
  <2>3. /\ job' \in [Jobs -> {"none"} \cup Active \cup Ended] /\ job'[j] = "failed"
        /\ \A l \in Jobs : l # j => job'[l] = job[l]
    BY <1>5, <2>1, <2>2
  <2>4. CASE file' = file
    BY <1>2, <1>3, <1>4, <2>3, <2>4
  <2>5. CASE file' = [file EXCEPT ![NameOf(j)] = Without("garbled")]
    <3>1. /\ file' \in [Samples -> Content] /\ file'[NameOf(j)] = Without("garbled")
          /\ \A s \in Samples : s # NameOf(j) => file'[s] = file[s]
      BY <1>7, <1>8, <2>5
    <3>2. QED
      BY <1>2, <1>3, <1>4, <2>3, <3>1
  <2>6. QED
    BY <2>1, <2>4, <2>5
<1>13. QED
  BY <1>9, <1>10, <1>11, <1>12 DEF Job

LEMMA ShapeOfJobs == ASSUME Shape, NEW j \in Jobs, Job(j) PROVE Shape'
<1> USE DEF Shape
<1>1. /\ NameOf(j) \in Samples
      /\ UNCHANGED <<way, run, pc, at, i, csv, k, settled>>
      /\ job[j] \in Active /\ job[j] # "none"
      /\ job' \in [Jobs -> {"none"} \cup Active \cup Ended]
      /\ job'[j] # "none"
      /\ \A l \in Jobs : l # j => job'[l] = job[l]
      /\ \A s \in Samples : s # NameOf(j) => file'[s] = file[s]
      /\ Current' = Current
  BY JobStep DEF Active, Current
<1>2. file' \in [Samples -> Content]
  BY JobStep DEF Typed, TypeOK
<1>3. \A l \in Jobs : Result(l).run = l[1] /\ Result(l).value = l[2] /\ l[1] \in 1..Samplings
  BY DEF Result, Jobs
<1>4. \/ file'[NameOf(j)] = file[NameOf(j)]
      \/ file'[NameOf(j)].kind # "whole"
      \/ file'[NameOf(j)] = Result(j)
  BY JobStep DEF Without
<1>5. Typed'
  <2>1. TypeOK'
    BY <1>1, <1>2 DEF Typed, TypeOK
  <2>2. ASSUME NEW s \in Samples, file'[s].kind = "whole" PROVE file'[s].run \in 1..Samplings
    BY <1>1, <1>3, <1>4, <2>2 DEF Typed
  <2>3. QED
    BY <2>1, <2>2 DEF Typed
<1>6. Alone'
  <2> SUFFICES ASSUME way = "sequence" PROVE Alone'
    BY <1>1 DEF Alone
  <2>1. /\ pc = "wait" /\ j = Current /\ NameOf(j) = i
        /\ \A l \in Jobs : l # Current => job'[l] \notin Active
    BY <1>1 DEF Alone, NameOf
  <2>2. job'[j] = "writing" => file'[i].kind = "empty"
    BY <2>1, JobStep DEF Without
  <2>3. job'[j] \in {"saved", "done"} => file'[i] = Result(j)
    <3>1. job[j] = "writing" => file[i].kind = "empty"
      BY <2>1 DEF Alone
    <3>2. job[j] = "saved" => file[i] = Result(j)
      BY <2>1 DEF Alone
    <3>3. QED
      BY <2>1, <3>1, <3>2, JobStep
  <2>4. QED
    BY <1>1, <2>1, <2>2, <2>3 DEF Alone
<1>7. OfSample'
  <2> SUFFICES ASSUME way = "cluster" PROVE OfSample'
    BY <1>1 DEF OfSample
  <2>1. NameOf(j) = j[2]
    BY DEF NameOf
  <2>2. ASSUME NEW s \in Samples, file'[s].kind = "whole"
        PROVE  file'[s].value = s /\ job'[<<file'[s].run, s>>] # "none"
    <3>1. CASE file'[s] = file[s]
      <4>1. <<file[s].run, s>> \in Jobs /\ job[<<file[s].run, s>>] # "none" /\ file[s].value = s
        BY <2>2, <3>1 DEF Typed, OfSample, Jobs
      <4>2. QED
        BY <1>1, <3>1, <4>1
    <3>2. CASE s = j[2] /\ file'[s] = Result(j)
      <4>1. <<file'[s].run, s>> = j
        BY <1>3, <3>2 DEF Jobs
      <4>2. QED
        BY <1>1, <1>3, <3>2, <4>1
    <3>3. QED
      BY <1>1, <1>4, <2>1, <2>2, <3>1, <3>2
  <2>3. QED
    BY <1>1, <2>2 DEF OfSample
<1>8. Reached'
  <2>1. \A l \in Jobs : job'[l] # "none" <=> job[l] # "none"
    BY <1>1
  <2>2. pc = "wait" => Current \in Jobs
    BY DEF Typed, TypeOK, Reached, Current, Jobs, Samples
  <2>3. QED
    BY <1>1, <2>1, <2>2 DEF Reached
<1>9. QED
  BY <1>5, <1>6, <1>7, <1>8

LEMMA CollectStep ==
  ASSUME Shape, Collector
  PROVE  /\ way = "cluster"
         /\ UNCHANGED <<way, run, pc, at, i, job, file>>
         /\ csv' \in [state : {"none", "open", "closed", "broken", "stopped"}, rows : Seq(Rows)]
         /\ k' \in 0..Res + 1
         /\ settled' \subseteq Rows
<1> USE DEF Shape
<1>1. /\ csv \in [state : {"none", "open", "closed", "broken", "stopped"}, rows : Seq(Rows)]
      /\ k \in 0..Res + 1 /\ settled \subseteq Rows /\ file \in [Samples -> Content]
  BY DEF Typed, TypeOK, Rows
<1>2. way = "cluster" /\ UNCHANGED <<way, run, pc, at, i, job, file>>
  BY DEF Collector, StartCollecting, Collect, CollectingEnds, StopCollecting, sampler
<1>3. CASE StartCollecting
  <2>1. k' = 0 /\ csv' = [state |-> "open", rows |-> <<>>]
    BY <1>3 DEF StartCollecting, OpenCsv
  <2>2. csv' \in [state : {"none", "open", "closed", "broken", "stopped"}, rows : Seq(Rows)]
    BY <2>1
  <2>3. settled' \subseteq Rows
    <3>1. ASSUME NEW s \in Samples, Settled(s)
          PROVE  file[s].run \in 1..Samplings /\ file[s].value \in Samples
      BY <1>2, <3>1 DEF Settled, Typed, OfSample
    <3>2. QED
      BY <1>3, <3>1 DEF StartCollecting, Rows
  <2>4. QED
    BY <1>2, <2>1, <2>2, <2>3, ResAssumption
<1>4. CASE Collect
  <2>1. k <= Res /\ settled' = settled
    BY <1>4 DEF Collect
  <2>2. k \in Samples /\ k + 1 \in 0..Res + 1
    BY <1>1, <2>1, ResAssumption DEF Samples
  <2>3. CASE file[k].kind = "whole"
    <3>1. Write(k, file[k]) /\ k' = k + 1
      BY <1>4, <2>3 DEF Collect
    <3>2. file[k] \in Content /\ file[k].run \in 1..Samplings
      BY <1>1, <2>2, <2>3 DEF Typed
    <3>3. csv'.rows \in Seq(Rows)
      BY <2>2, <2>3, <3>1, <3>2, NewRow
    <3>4. csv' \in [state : {"none", "open", "closed", "broken", "stopped"}, rows : Seq(Rows)]
      BY <1>1, <3>1, <3>3 DEF Write
    <3>5. QED
      BY <1>1, <1>2, <2>1, <2>2, <3>1, <3>4
  <2>4. CASE file[k].kind = "absent"
    <3>1. csv' = csv /\ k' = k + 1
      BY <1>4, <2>4 DEF Collect
    <3>2. QED
      BY <1>1, <1>2, <2>1, <2>2, <3>1
  <2>5. CASE file[k].kind \notin {"whole", "absent"}
    <3>1. csv' = [csv EXCEPT !.state = "broken"] /\ k' = k
      BY <1>4, <2>5 DEF Collect, Leave
    <3>2. QED
      BY <1>1, <1>2, <2>1, <3>1
  <2>6. QED
    BY <2>3, <2>4, <2>5
<1>5. CASE CollectingEnds \/ StopCollecting
  <2>1. k' = k /\ settled' = settled /\ \E s \in {"closed", "stopped"} : csv' = [csv EXCEPT !.state = s]
    BY <1>5 DEF CollectingEnds, StopCollecting, Leave
  <2>2. QED
    BY <1>1, <1>2, <2>1
<1>6. QED
  BY <1>3, <1>4, <1>5 DEF Collector

LEMMA ShapeOfCollector == Shape /\ Collector => Shape'
<1> SUFFICES ASSUME Shape, Collector PROVE Shape'
  OBVIOUS
<1> USE DEF Shape
<1>1. /\ way = "cluster" /\ UNCHANGED <<way, run, pc, at, i, job, file>>
      /\ csv' \in [state : {"none", "open", "closed", "broken", "stopped"}, rows : Seq(Rows)]
      /\ k' \in 0..Res + 1
      /\ settled' \subseteq Rows
  BY CollectStep
<1>2. Typed'
  BY <1>1 DEF Typed, TypeOK, Rows
<1>3. (Alone /\ OfSample /\ Reached)'
  BY <1>1 DEF Alone, OfSample, Reached, Current
<1>4. QED
  BY <1>2, <1>3

LEMMA ShapePreserved == Shape /\ [Next]_vars => Shape'
<1> SUFFICES ASSUME Shape, [Next]_vars PROVE Shape'
  OBVIOUS
<1>1. CASE UNCHANGED vars
  BY <1>1 DEF vars, Shape, Typed, TypeOK, Alone, OfSample, Reached, Current
<1>2. QED
  BY <1>1, ShapeOfSampler, ShapeOfJobs, ShapeOfCollector DEF Next

(* Every state of the scripts, the jobs and the files has its type.        *)
THEOREM TypeCorrect == Spec => []TypeOK
<1>1. Shape => TypeOK
  BY DEF Shape, Typed
<1>2. QED
  BY <1>1, InitShape, ShapePreserved, PTL DEF Spec

----------------------------------------------------------------------------

(* A row that is as it should be, of a sample below b.                     *)
Right(r, b) ==
  r.value = r.sample /\ r.sample < b /\ (way = "sequence" => r.run = run)

(* One more row, of a later sample than the rows before.                   *)
LEMMA RowAdded ==
  ASSUME Typed, RowsInv, NEW f \in Content, f.kind = "whole", f.run \in 1..Samplings,
         NEW s \in Samples, Write(s, f), f.value = s,
         s = IF way = "cluster" THEN k ELSE at, csv.state = "open",
         way' = way, run' = run, way = "sequence" => f.run = run
  PROVE  /\ RowsOfTheirSamples'
         /\ \A n \in 1..Len(csv'.rows) : csv'.rows[n].sample < s + 1
<1> DEFINE m == Len(csv.rows)
           new == [sample |-> s, run |-> f.run, value |-> f.value]
<1>1. /\ csv'.rows \in Seq(Rows)
      /\ m \in Nat
      /\ Len(csv'.rows) = m + 1
      /\ \A n \in 1..m : csv'.rows[n] = csv.rows[n]
      /\ csv'.rows[m + 1] = new
  BY NewRow
<1>2. /\ \A n \in 1..m : Right(csv.rows[n], s)
      /\ \A l, n \in 1..m : l < n => csv.rows[l].sample < csv.rows[n].sample
  BY DEF RowsInv, RowsOfTheirSamples, Right
<1>3. \A n \in 1..m + 1 : n \in 1..m \/ n = m + 1
  BY <1>1
<1>4. s \in Int /\ \A n \in 1..m : csv.rows[n].sample \in Int
  <2>1. csv.rows \in Seq(Rows) /\ \A r \in Rows : r.sample \in Int
    BY DEF Typed, TypeOK, Rows, Samples
  <2>2. s \in Int /\ \A n \in 1..m : csv.rows[n] \in Rows
    BY <2>1 DEF Samples
  <2>3. QED
    BY <2>1, <2>2
<1>5. Right(new, s + 1) /\ new.sample = s
  BY <1>4 DEF Right
<1> HIDE DEF m, new
<1>6. \A n \in 1..m + 1 : Right(csv'.rows[n], s + 1)
  <2>1. \A n \in 1..m : Right(csv.rows[n], s + 1)
    BY <1>2, <1>4 DEF Right
  <2>2. QED
    BY <1>1, <1>3, <1>5, <2>1
<1>7. \A l, n \in 1..m + 1 : l < n => csv'.rows[l].sample < csv'.rows[n].sample
  <2> SUFFICES ASSUME NEW l \in 1..m + 1, NEW n \in 1..m + 1, l < n
               PROVE  csv'.rows[l].sample < csv'.rows[n].sample
    OBVIOUS
  <2>1. l \in 1..m
    BY <1>1
  <2>2. csv'.rows[l] = csv.rows[l] /\ csv.rows[l].sample < s
    BY <1>1, <1>2, <2>1 DEF Right
  <2>3. CASE n \in 1..m
    BY <1>1, <1>2, <2>1, <2>3
  <2>4. CASE n = m + 1
    BY <1>1, <1>5, <2>2, <2>4
  <2>5. QED
    BY <1>3, <2>3, <2>4
<1>8. RowsOfTheirSamples'
  <2>1. /\ \A n \in 1..m + 1 : csv'.rows[n].value = csv'.rows[n].sample
        /\ way' = "sequence" => \A n \in 1..m + 1 : csv'.rows[n].run = run'
    BY <1>6 DEF Right
  <2>2. QED
    BY <1>1, <1>7, <2>1 DEF RowsOfTheirSamples
<1>9. QED
  BY <1>1, <1>6, <1>8 DEF Right

LEMMA RowsPreserved == Shape /\ RowsInv /\ [Next]_vars => RowsInv'
<1> SUFFICES ASSUME Shape, RowsInv, [Next]_vars PROVE RowsInv'
  OBVIOUS
<1> USE DEF Shape
<1>1. /\ csv \in [state : {"none", "open", "closed", "broken", "stopped"}, rows : Seq(Rows)]
      /\ way' = way /\ way \in {"cluster", "sequence"} /\ file \in [Samples -> Content]
      /\ k \in 0..Res + 1 /\ at \in 0..Res + 1 /\ i \in 0..at /\ Res \in Nat
  BY WaysAssumption, ResAssumption DEF Typed, TypeOK, Rows, Next, Sampler, Begin, Submit,
     Evaluate, EvaluationReturns, SamplingEnds, Interrupt, Collector, StartCollecting,
     Collect, CollectingEnds, StopCollecting, Job, JobOpens, JobSaves, JobEnds, JobFails, vars
<1>2. \A n \in 1..Len(csv.rows) : csv.rows[n].sample \in Int
  <2>1. csv.rows \in Seq(Rows)
    BY <1>1
  <2>2. \A n \in 1..Len(csv.rows) : csv.rows[n] \in Rows
    BY <2>1
  <2>3. \A r \in Rows : r.sample \in Int
    BY DEF Rows, Samples
  <2>4. QED
    BY <2>2, <2>3
<1>3. ASSUME csv'.rows = csv.rows, run' = run,
             csv'.state = "open" => csv.state = "open" /\ k' >= k /\ at' >= at /\ at' \in Int /\ k' \in Int
      PROVE  RowsInv'
  <2>1. RowsOfTheirSamples'
    BY <1>1, <1>3 DEF RowsInv, RowsOfTheirSamples
  <2>2. ASSUME csv'.state = "open", NEW n \in 1..Len(csv.rows)
        PROVE  csv.rows[n].sample < IF way = "cluster" THEN k' ELSE at'
    <3>1. csv.rows[n].sample < IF way = "cluster" THEN k ELSE at
      BY <1>3, <2>2 DEF RowsInv
    <3>2. csv.rows[n].sample \in Int
      BY <1>2
    <3>3. QED
      BY <1>1, <1>3, <2>2, <3>1, <3>2
  <2>3. QED
    BY <1>1, <1>3, <2>1, <2>2 DEF RowsInv
<1>4. ASSUME csv'.rows = <<>> PROVE RowsInv'
  <2>1. Len(csv'.rows) = 0
    BY <1>4
  <2>2. QED
    BY <2>1 DEF RowsInv, RowsOfTheirSamples
<1>5. ASSUME NEW state \in {"closed", "broken", "stopped"}, Leave(state) PROVE csv'.rows = csv.rows /\ csv'.state = state
  BY <1>1, <1>5 DEF Leave
<1>6. CASE Begin
  <2>1. CASE way = "sequence"
    BY <1>4, <1>6, <2>1 DEF Begin, OpenCsv
  <2>2. CASE way = "cluster"
    <3>1. csv' = csv /\ k' = k
      BY <1>6, <2>2 DEF Begin
    <3>2. RowsOfTheirSamples'
      BY <1>1, <2>2, <3>1 DEF RowsInv, RowsOfTheirSamples
    <3>3. QED
      BY <1>1, <2>2, <3>1, <3>2 DEF RowsInv
  <2>3. QED
    BY <1>1, <2>1, <2>2
<1>7. CASE Submit \/ Evaluate
  <2>1. csv' = csv /\ k' = k /\ run' = run /\ (at' = at \/ at' = at + 1)
    BY <1>7 DEF Submit, Evaluate, collection
  <2>2. QED
    BY <1>1, <1>3, <2>1
<1>8. CASE EvaluationReturns
  <2>1. /\ run' = run /\ pc = "wait" /\ at' = at + 1 /\ k' = k
        /\ \/ job[Current] = "failed" /\ csv' = csv
           \/ job[Current] = "done" /\ Write(at, file[i])
    BY <1>8 DEF EvaluationReturns
  <2>2. way = "sequence" /\ at <= Res /\ run \in 1..Samplings /\ csv.state = "open"
    <3>1. way = "sequence"
      BY <1>1, <2>1 DEF OfSample
    <3>2. QED
      BY <2>1, <3>1, SamplingsAssumption DEF Alone, Reached, Typed, TypeOK
  <2>3. i \in Samples /\ at \in Samples
    BY <1>1, <2>2 DEF Samples
  <2>4. CASE job[Current] = "failed" /\ csv' = csv
    BY <1>1, <1>3, <2>1, <2>4
  <2>5. CASE job[Current] = "done" /\ Write(at, file[i])
    <3>1. file[i] = Result(Current) /\ file[i] \in Content
      BY <1>1, <2>1, <2>2, <2>3, <2>5 DEF Alone
    <3>2. file[i].kind = "whole" /\ file[i].run = run /\ file[i].value = at
      BY <3>1 DEF Result, Current
    <3>3. RowsOfTheirSamples' /\ \A n \in 1..Len(csv'.rows) : csv'.rows[n].sample < at + 1
      BY <1>1, <2>1, <2>2, <2>3, <2>5, <3>1, <3>2, RowAdded
    <3>4. QED
      BY <1>1, <2>1, <2>2, <3>3 DEF RowsInv
  <2>6. QED
    BY <2>1, <2>4, <2>5
<1>9. CASE SamplingEnds \/ Interrupt
  <2>1. csv' = csv \/ (csv'.rows = csv.rows /\ csv'.state # "open")
    BY <1>5, <1>9 DEF SamplingEnds, Interrupt
  <2>2. run' = run /\ at' = at /\ k' = k
    BY <1>9 DEF SamplingEnds, Interrupt
  <2>3. QED
    BY <1>1, <1>3, <2>1, <2>2
<1>10. CASE StartCollecting
  BY <1>4, <1>10 DEF StartCollecting, OpenCsv
<1>11. CASE Collect
  <2>1. /\ way = "cluster" /\ csv.state = "open" /\ k <= Res /\ run' = run /\ at' = at
        /\ \/ file[k].kind # "whole" /\ csv' = csv /\ k' = k + 1
           \/ file[k].kind = "whole" /\ Write(k, file[k]) /\ k' = k + 1
           \/ Leave("broken")
    BY <1>11 DEF Collect, sampler
  <2>2. k \in Samples
    BY <1>1, <2>1 DEF Samples
  <2>3. CASE file[k].kind # "whole" /\ csv' = csv /\ k' = k + 1
    BY <1>1, <1>3, <2>1, <2>3
  <2>4. CASE file[k].kind = "whole" /\ Write(k, file[k]) /\ k' = k + 1
    <3>1. file[k] \in Content /\ file[k].run \in 1..Samplings /\ file[k].value = k
      BY <1>1, <2>1, <2>2, <2>4 DEF Typed, OfSample
    <3>2. RowsOfTheirSamples' /\ \A n \in 1..Len(csv'.rows) : csv'.rows[n].sample < k + 1
      BY <1>1, <2>1, <2>2, <2>4, <3>1, RowAdded
    <3>3. QED
      BY <1>1, <2>1, <2>4, <3>2 DEF RowsInv
  <2>5. CASE Leave("broken")
    BY <1>3, <1>5, <2>1, <2>5
  <2>6. QED
    BY <2>1, <2>3, <2>4, <2>5
<1>12. CASE CollectingEnds \/ StopCollecting
  <2>1. csv'.rows = csv.rows /\ csv'.state # "open" /\ run' = run
    BY <1>5, <1>12 DEF CollectingEnds, StopCollecting, sampler
  <2>2. QED
    BY <1>3, <2>1
<1>13. CASE UNCHANGED vars \/ \E j \in Jobs : Job(j)
  <2>1. csv' = csv /\ k' = k /\ run' = run /\ at' = at
    BY <1>13, JobStep DEF vars
  <2>2. QED
    BY <1>1, <1>3, <2>1
<1>14. QED
  BY <1>6, <1>7, <1>8, <1>9, <1>10, <1>11, <1>12, <1>13 DEF Next, Sampler, Collector

(* A row holds the quality of its sample, whatever fails.                  *)
THEOREM RowsAreOfTheirSamples == Spec => []RowsOfTheirSamples
<1>1. RowsInv => RowsOfTheirSamples
  BY DEF RowsInv
<1>2. QED
  BY <1>1, InitShape, ShapePreserved, RowsPreserved, PTL DEF Spec

----------------------------------------------------------------------------
(* What was settled when the collection began: its job has ended, and only *)
(* jobs of later samplings may touch its file.  What the collector has     *)
(* passed has a row.                                                       *)
Replaced(r) == \E q \in r.run + 1 .. Samplings : job[<<q, r.sample>>] # "none"

Kept(r) ==
  /\ job[<<r.run, r.sample>>] # "none"
  /\ \A q \in 1..r.run : job[<<q, r.sample>>] \notin Active
  /\ file[r.sample].kind # "absent"
  /\ file[r.sample].kind = "whole" => file[r.sample].run >= r.run
  /\ file[r.sample].kind # "whole" => Replaced(r)

HasRow(r) == \E n \in 1..Len(csv.rows) :
               csv.rows[n].sample = r.sample /\ csv.rows[n].run >= r.run

CollectInv ==
  way = "cluster" =>
  /\ \A r \in settled : Kept(r)
  /\ csv.state = "open" => \A r \in settled : r.sample < k => HasRow(r)
  /\ SettledIsCollected

LEMMA InitCollect == Init => CollectInv
<1> SUFFICES ASSUME Init PROVE CollectInv
  OBVIOUS
<1>1. settled = {} /\ csv.state = "none"
  BY DEF Init
<1>2. QED
  BY <1>1 DEF CollectInv, SettledIsCollected

(* A result that is kept stays so while jobs and scripts go on.            *)
LEMMA KeptBySampler ==
  ASSUME Shape, way = "cluster", NEW r \in Rows, Kept(r), Sampler
  PROVE  Kept(r)' /\ (Replaced(r) => Replaced(r)')
<1> USE DEF Shape
<1>1. file' = file /\ r' = r /\ \A q \in 1..Samplings : <<q, r.sample>> \in Jobs
  BY DEF Sampler, Begin, Submit, Evaluate, EvaluationReturns, SamplingEnds, Interrupt, Rows, Jobs
<1>2. job \in [Jobs -> {"none"} \cup Active \cup Ended] /\ r.run \in 1..Samplings /\ r.sample \in Samples
      /\ run \in 0..Samplings
  BY DEF Typed, TypeOK, Rows
<1>3. ASSUME NEW j \in Jobs
      PROVE  (job[j] # "none" => job'[j] # "none")
             /\ (job'[j] \in Active => (job[j] \in Active \/ (j = Current /\ job[j] = "none")))
  <2>1. CASE Submit
    <3>1. /\ pc = "loop" /\ at <= Res
          /\ (job' = job) \/ (job' = [job EXCEPT ![Current] = "running"])
      BY <1>2, <2>1 DEF Submit
    <3>2. Current \in Jobs
      BY <3>1 DEF Typed, TypeOK, Reached, Current, Jobs, Samples
    <3>3. job[Current] = "none"
      BY <3>1, <3>2 DEF Reached, Current, Typed, TypeOK
    <3>4. QED
      BY <1>2, <3>1, <3>2, <3>3 DEF Active
  <2>2. CASE Interrupt
    <3>1. pc # "wait"
      BY DEF OfSample
    <3>2. job' = job
      BY <2>2, <3>1 DEF Interrupt
    <3>3. QED
      BY <3>2
  <2>3. CASE Evaluate
    BY <2>3 DEF Evaluate
  <2>4. CASE Begin \/ EvaluationReturns \/ SamplingEnds
    <3>1. job' = job
      BY <2>4 DEF Begin, EvaluationReturns, SamplingEnds
    <3>2. QED
      BY <3>1
  <2>5. QED
    BY <2>1, <2>2, <2>3, <2>4 DEF Sampler
<1>4. r.run <= run
  <2>1. <<r.run, r.sample>> \in Jobs /\ job[<<r.run, r.sample>>] # "none"
    BY <1>1, <1>2 DEF Kept
  <2>2. QED
    BY <2>1 DEF Reached
<1>5. ASSUME NEW q \in 1..r.run PROVE job'[<<q, r.sample>>] \notin Active
  <2>0. q \in 1..Samplings
    BY <1>2, SamplingsAssumption
  <2>1. <<q, r.sample>> \in Jobs /\ job[<<q, r.sample>>] \notin Active
    BY <1>1, <2>0 DEF Kept
  <2>2. CASE <<q, r.sample>> = Current
    <3>1. q = run /\ r.sample = at
      BY <2>2 DEF Current
    <3>2. q = r.run
      BY <1>2, <1>4, <3>1
    <3>3. job[Current] # "none"
      BY <2>2, <3>2 DEF Kept
    <3>4. QED
      BY <1>3, <2>1, <2>2, <3>3
  <2>3. CASE <<q, r.sample>> # Current
    BY <1>3, <2>1, <2>3
  <2>4. QED
    BY <2>2, <2>3
<1>6. Replaced(r) => Replaced(r)'
  <2> SUFFICES ASSUME NEW q \in r.run + 1 .. Samplings, job[<<q, r.sample>>] # "none"
               PROVE  job'[<<q, r.sample>>] # "none"
    BY DEF Replaced
  <2>1. q \in 1..Samplings
    BY <1>2, SamplingsAssumption
  <2>2. <<q, r.sample>> \in Jobs
    BY <1>1, <2>1
  <2>3. QED
    BY <1>3, <2>2
<1>7. job'[<<r.run, r.sample>>] # "none"
  BY <1>1, <1>2, <1>3 DEF Kept
<1>8. QED
  BY <1>1, <1>5, <1>6, <1>7 DEF Kept

LEMMA KeptByJobs ==
  ASSUME Shape, way = "cluster", NEW r \in Rows, Kept(r), NEW j \in Jobs, Job(j)
  PROVE  Kept(r)' /\ (Replaced(r) => Replaced(r)')
<1>1. /\ job[j] \in Active
      /\ job'[j] # "none"
      /\ \A l \in Jobs : l # j => job'[l] = job[l]
      /\ \A s \in Samples : s # NameOf(j) => file'[s] = file[s]
      /\ NameOf(j) = j[2]
  BY JobStep DEF NameOf
<1>2. \A q \in 1..Samplings : <<q, r.sample>> \in Jobs
  BY DEF Rows, Jobs
<1>3. r.run \in 1..Samplings /\ r.sample \in Samples /\ j[1] \in 1..Samplings
  BY DEF Rows, Jobs
<1>4. j[2] = r.sample => j[1] > r.run
  <2>1. j[2] = r.sample /\ j[1] \in 1..r.run => j = <<j[1], r.sample>>
    BY DEF Jobs
  <2>2. QED
    BY <1>1, <1>3, <2>1 DEF Kept
<1>5. \A q \in 1..r.run : job'[<<q, r.sample>>] = job[<<q, r.sample>>]
  <2> SUFFICES ASSUME NEW q \in 1..r.run PROVE job'[<<q, r.sample>>] = job[<<q, r.sample>>]
    OBVIOUS
  <2>0. q \in 1..Samplings /\ q <= r.run /\ q \in Int
    BY <1>3, SamplingsAssumption
  <2>3. ASSUME <<q, r.sample>> = j PROVE FALSE
    <3>1. j[1] = q /\ j[2] = r.sample
      BY <2>3
    <3>2. QED
      BY <1>3, <1>4, <2>0, <3>1
  <2>1. <<q, r.sample>> # j /\ <<q, r.sample>> \in Jobs
    BY <1>2, <2>0, <2>3
  <2>2. QED
    BY <1>1, <2>1
<1>6. Replaced(r) => Replaced(r)'
  <2> SUFFICES ASSUME NEW q \in r.run + 1 .. Samplings, job[<<q, r.sample>>] # "none"
               PROVE  job'[<<q, r.sample>>] # "none"
    BY DEF Replaced
  <2>1. <<q, r.sample>> \in Jobs
    BY <1>2, <1>3
  <2>2. QED
    BY <1>1, <2>1
<1>7. j[2] = r.sample => Replaced(r)'
  <2>1. j[2] = r.sample => j = <<j[1], r.sample>> /\ j[1] \in r.run + 1 .. Samplings
    BY <1>3, <1>4 DEF Jobs
  <2>2. QED
    BY <1>1, <2>1 DEF Replaced
<1>8. /\ file'[r.sample].kind # "absent"
      /\ file'[r.sample].kind = "whole" => file'[r.sample].run >= r.run
      /\ file'[r.sample].kind # "whole" => Replaced(r)'
  <2>1. CASE j[2] # r.sample
    BY <1>1, <1>3, <1>6, <2>1 DEF Kept
  <2>2. CASE j[2] = r.sample
    <3>1. \/ file'[r.sample] = file[r.sample]
          \/ file'[r.sample] \in {Without("empty"), Without("garbled"), Result(j)}
      BY <1>1, <2>2, JobStep
    <3>2. CASE file'[r.sample] = file[r.sample]
      BY <1>6, <3>2 DEF Kept
    <3>3. CASE file'[r.sample] \in {Without("empty"), Without("garbled"), Result(j)}
      <4>1. file'[r.sample].kind # "absent"
        BY <3>3 DEF Without, Result
      <4>2. file'[r.sample].kind = "whole" => file'[r.sample].run = j[1]
        BY <3>3 DEF Without, Result
      <4>3. QED
        BY <1>3, <1>4, <1>7, <2>2, <4>1, <4>2
    <3>4. QED
      BY <3>1, <3>2, <3>3
  <2>3. QED
    BY <2>1, <2>2
<1>9. QED
  BY <1>3, <1>5, <1>6, <1>8 DEF Kept

LEMMA CollectPreserved == Shape /\ CollectInv /\ [Next]_vars => CollectInv'
<1> SUFFICES ASSUME Shape, CollectInv, [Next]_vars PROVE CollectInv'
  OBVIOUS
<1>1. way' = way
  BY DEF Next, Sampler, Begin, Submit, Evaluate, EvaluationReturns, SamplingEnds, Interrupt,
     Collector, StartCollecting, Collect, CollectingEnds, StopCollecting, Job, JobOpens,
     JobSaves, JobEnds, JobFails, vars
<1> SUFFICES ASSUME way = "cluster" PROVE CollectInv'
  BY <1>1 DEF CollectInv
<1>2. /\ csv \in [state : {"none", "open", "closed", "broken", "stopped"}, rows : Seq(Rows)]
      /\ settled \subseteq Rows /\ k \in 0..Res + 1 /\ Res \in Nat /\ file \in [Samples -> Content]
      /\ \A r \in settled : Kept(r)
  BY ResAssumption DEF Shape, Typed, TypeOK, Rows, CollectInv
<1>3. ASSUME csv' = csv, k' = k, settled' = settled,
             \A r \in settled : Kept(r)' /\ (Replaced(r) => Replaced(r)')
      PROVE  CollectInv'
  <2>1. SettledIsCollected'
    <3>1. ASSUME csv.state = "broken", ~\E s \in Samples : \A r \in settled : r.sample # s
          PROVE  \E r \in settled : Replaced(r)'
      <4>1. \E r \in settled : Replaced(r)
        BY <3>1 DEF CollectInv, SettledIsCollected, Replaced
      <4>2. QED
        BY <1>3, <4>1
    <3>2. QED
      BY <1>1, <1>3, <3>1 DEF CollectInv, SettledIsCollected, Replaced
  <2>2. QED
    BY <1>1, <1>3, <2>1 DEF CollectInv, HasRow
<1>4. CASE Sampler
  <2>1. csv' = csv /\ k' = k /\ settled' = settled
    BY <1>4 DEF Sampler, Begin, Submit, Evaluate, EvaluationReturns, SamplingEnds, Interrupt,
       collection, Shape, OfSample
  <2>2. QED
    BY <1>2, <1>3, <1>4, <2>1, KeptBySampler
<1>5. CASE \E j \in Jobs : Job(j)
  <2>1. csv' = csv /\ k' = k /\ settled' = settled
    BY <1>5, JobStep
  <2>2. QED
    BY <1>2, <1>3, <1>5, <2>1, KeptByJobs
<1>6. CASE UNCHANGED vars
  BY <1>2, <1>3, <1>6 DEF vars, Kept, Replaced
<1>7. ASSUME UNCHANGED <<job, file>> PROVE \A r : Kept(r)' = Kept(r) /\ Replaced(r)' = Replaced(r)
  BY <1>7 DEF Kept, Replaced
<1>8. CASE StartCollecting
  <2>1. /\ csv' = [state |-> "open", rows |-> <<>>] /\ k' = 0 /\ UNCHANGED <<job, file>>
        /\ settled' = {[sample |-> s, run |-> file[s].run, value |-> file[s].value] :
                         s \in {s \in Samples : Settled(s)}}
    BY <1>8 DEF StartCollecting, OpenCsv
  <2>2. ASSUME NEW r \in settled' PROVE Kept(r) /\ r.sample >= 0
    <3>1. PICK s \in Samples :
            Settled(s) /\ r = [sample |-> s, run |-> file[s].run, value |-> file[s].value]
      BY <2>1
    <3>2. r.sample = s /\ r.run = file[s].run /\ r.run \in 1..Samplings
      BY <3>1 DEF Shape, Typed, Settled
    <3>3. QED
      BY <3>1, <3>2, SamplingsAssumption DEF Settled, Kept, Shape, OfSample, Samples
  <2>3. SettledIsCollected'
    BY <2>1 DEF SettledIsCollected
  <2>4. ASSUME NEW r \in settled' PROVE Kept(r)' /\ ~(r.sample < k')
    <3>1. r.sample \in Int
      BY <2>1 DEF Samples
    <3>2. QED
      BY <1>7, <2>1, <2>2, <3>1
  <2>5. QED
    BY <2>3, <2>4 DEF CollectInv
<1>9. CASE Collect
  <2>1. /\ csv.state = "open" /\ k <= Res /\ settled' = settled /\ UNCHANGED <<job, file>>
        /\ \/ file[k].kind = "absent" /\ csv' = csv /\ k' = k + 1
           \/ file[k].kind = "whole" /\ Write(k, file[k]) /\ k' = k + 1
           \/ file[k].kind \notin {"absent", "whole"} /\ Leave("broken") /\ k' = k
    BY <1>9 DEF Collect
  <2>2. k \in Samples /\ \A r \in settled : r.sample \in Int /\ r.run \in Int
    BY <1>2, <2>1 DEF Rows, Samples
  <2>3. \A r \in settled : Kept(r)'
    BY <1>2, <1>7, <2>1
  <2>4. CASE file[k].kind = "absent" /\ csv' = csv /\ k' = k + 1
    <3>1. \A r \in settled : r.sample # k
      BY <1>2, <2>4 DEF Kept
    <3>2. \A r \in settled : r.sample < k + 1 => HasRow(r)
      BY <1>2, <2>1, <2>2, <3>1 DEF CollectInv
    <3>3. SettledIsCollected'
      BY <2>1, <2>4 DEF SettledIsCollected
    <3>4. QED
      BY <2>1, <2>3, <2>4, <3>2, <3>3 DEF CollectInv, HasRow
  <2>5. CASE file[k].kind = "whole" /\ Write(k, file[k]) /\ k' = k + 1
    <3>1. file[k] \in Content /\ file[k].run \in 1..Samplings
      BY <1>2, <2>2, <2>5 DEF Shape, Typed
    <3>2. /\ csv'.state = csv.state
          /\ Len(csv.rows) \in Nat
          /\ Len(csv'.rows) = Len(csv.rows) + 1
          /\ \A n \in 1..Len(csv.rows) : csv'.rows[n] = csv.rows[n]
          /\ csv'.rows[Len(csv.rows) + 1] = [sample |-> k, run |-> file[k].run, value |-> file[k].value]
      BY <2>2, <2>5, <3>1, NewRow DEF Shape
    <3>3. ASSUME NEW r \in settled, r.sample < k + 1 PROVE HasRow(r)'
      <4>1. CASE r.sample < k
        <5>1. PICK n \in 1..Len(csv.rows) : csv.rows[n].sample = r.sample /\ csv.rows[n].run >= r.run
          BY <2>1, <4>1 DEF CollectInv, HasRow
        <5>2. n \in 1..Len(csv'.rows) /\ csv'.rows[n] = csv.rows[n]
          BY <3>2, <5>1
        <5>3. QED
          BY <5>1, <5>2 DEF HasRow
      <4>2. CASE r.sample = k
        <5>1. file[k].run >= r.run
          BY <1>2, <2>5, <4>2 DEF Kept
        <5>2. /\ Len(csv.rows) + 1 \in 1..Len(csv'.rows)
              /\ csv'.rows[Len(csv.rows) + 1].sample = r.sample
              /\ csv'.rows[Len(csv.rows) + 1].run >= r.run
          BY <3>2, <4>2, <5>1
        <5>3. QED
          BY <5>2 DEF HasRow
      <4>3. QED
        BY <1>2, <2>2, <3>3, <4>1, <4>2
    <3>4. SettledIsCollected'
      BY <2>1, <3>2 DEF SettledIsCollected
    <3>5. QED
      BY <2>1, <2>3, <2>5, <3>3, <3>4 DEF CollectInv
  <2>6. CASE file[k].kind \notin {"absent", "whole"} /\ Leave("broken") /\ k' = k
    <3>1. csv'.state = "broken"
      BY <1>2, <2>6 DEF Leave
    <3>2. (\A r \in settled : r.sample # k) \/ \E r \in settled : Replaced(r)
      BY <1>2, <2>6 DEF Kept
    <3>3. SettledIsCollected'
      BY <1>1, <2>1, <2>2, <3>1, <3>2 DEF SettledIsCollected, Replaced
    <3>4. QED
      BY <2>1, <2>3, <3>1, <3>3 DEF CollectInv
  <2>7. QED
    BY <2>1, <2>4, <2>5, <2>6
<1>10. CASE CollectingEnds
  <2>1. /\ csv.state = "open" /\ k > Res /\ settled' = settled /\ UNCHANGED <<job, file>>
        /\ csv'.state = "closed" /\ csv'.rows = csv.rows
    BY <1>2, <1>10 DEF CollectingEnds, Leave
  <2>2. \A r \in settled : Kept(r)'
    BY <1>2, <1>7, <2>1
  <2>3. \A r \in settled : HasRow(r)
    <3>1. \A r \in settled : r.sample < k
      BY <1>2, <2>1 DEF Rows, Samples
    <3>2. QED
      BY <2>1, <3>1 DEF CollectInv
  <2>4. SettledIsCollected'
    BY <2>1, <2>3 DEF SettledIsCollected, HasRow
  <2>5. QED
    BY <2>1, <2>2, <2>4 DEF CollectInv
<1>11. CASE StopCollecting
  <2>1. settled' = settled /\ UNCHANGED <<job, file>> /\ csv'.state = "stopped"
    BY <1>2, <1>11 DEF StopCollecting, Leave
  <2>2. \A r \in settled : Kept(r)'
    BY <1>2, <1>7, <2>1
  <2>3. QED
    BY <2>1, <2>2 DEF CollectInv, SettledIsCollected
<1>12. QED
  BY <1>4, <1>5, <1>6, <1>8, <1>9, <1>10, <1>11 DEF Next, Collector

(* What was settled when a collection began is in the csv file it closes,  *)
(* and it breaks for a reason.                                             *)
THEOREM CollectsTheSettled == Spec => []SettledIsCollected
<1>1. CollectInv => SettledIsCollected
  BY DEF CollectInv, SettledIsCollected
<1>2. QED
  BY <1>1, InitShape, ShapePreserved, InitCollect, CollectPreserved, PTL DEF Spec

----------------------------------------------------------------------------
(* Nothing is done twice.                                                   *)

LEMMA StepsLeftAt ==
  /\ StepsLeft("none") = 4 /\ StepsLeft("running") = 3 /\ StepsLeft("writing") = 2
  /\ StepsLeft("saved") = 1 /\ StepsLeft("done") = 0 /\ StepsLeft("failed") = 0
<1>1. StepsLeft("none") = 4
  BY DEF StepsLeft, Ended
<1>2. StepsLeft("running") = 3
  BY DEF StepsLeft, Ended
<1>3. StepsLeft("writing") = 2
  BY DEF StepsLeft, Ended
<1>4. StepsLeft("saved") = 1
  BY DEF StepsLeft, Ended
<1>5. StepsLeft("done") = 0 /\ StepsLeft("failed") = 0
  BY DEF StepsLeft, Ended
<1>6. QED
  BY <1>1, <1>2, <1>3, <1>4, <1>5

(* The numbers are numbers, and zero only for what has ended.              *)
LEMMA LeftTyped ==
  ASSUME Shape
  PROVE  /\ SamplerLeft \in Nat /\ (SamplerLeft = 0 => pc = "idle")
         /\ CollectorLeft \in Nat
         /\ CollectorLeft = 0 => ~(way = "cluster" /\ csv.state = "open")
         /\ \A j \in Jobs : /\ StepsLeft(job[j]) \in Nat
                            /\ StepsLeft(job[j]) = 0 => job[j] \in Ended
<1>1. at \in 0..Res + 1 /\ k \in 0..Res + 1 /\ job \in [Jobs -> {"none"} \cup Active \cup Ended]
  BY DEF Shape, Typed, TypeOK
<1>2. SamplerLeft \in Nat /\ (SamplerLeft = 0 => pc = "idle")
  BY <1>1, ResAssumption DEF SamplerLeft
<1>3. /\ CollectorLeft \in Nat
      /\ CollectorLeft = 0 => ~(way = "cluster" /\ csv.state = "open")
  BY <1>1, ResAssumption DEF CollectorLeft
<1>4. ASSUME NEW j \in Jobs
      PROVE  StepsLeft(job[j]) \in Nat /\ (StepsLeft(job[j]) = 0 => job[j] \in Ended)
  <2>1. job[j] \in {"none", "running", "writing", "saved", "done", "failed"}
    BY <1>1 DEF Active, Ended
  <2>2. QED
    BY <2>1, StepsLeftAt DEF Ended
<1>5. QED
  BY <1>2, <1>3, <1>4

(* The script that samples: a sample is passed when it was submitted, and  *)
(* when its evaluation has ended one way or the other.                     *)
LEMMA SamplerGoesOn ==
  ASSUME Shape, Submit \/ Evaluate \/ EvaluationReturns \/ SamplingEnds \/ Interrupt
  PROVE  SamplerLeft' < SamplerLeft
<1>1. at \in 0..Res + 1
  BY DEF Shape, Typed, TypeOK
<1>2. CASE Submit
  <2>1. pc = "loop" /\ pc' = "loop" /\ at <= Res /\ at' = at + 1
    BY <1>2 DEF Submit
  <2>2. QED
    BY <1>1, <2>1, ResAssumption DEF SamplerLeft
<1>3. CASE Evaluate
  <2>1. pc = "loop" /\ pc' = "wait" /\ at' = at
    BY <1>3 DEF Evaluate
  <2>2. QED
    BY <1>1, <2>1, ResAssumption DEF SamplerLeft
<1>4. CASE EvaluationReturns
  <2>1. pc = "wait" /\ pc' = "loop" /\ at' = at + 1
    BY <1>4 DEF EvaluationReturns
  <2>2. QED
    BY <1>1, <2>1, ResAssumption DEF SamplerLeft
<1>5. CASE SamplingEnds \/ Interrupt
  <2>1. pc # "idle" /\ pc' = "idle"
    BY <1>5 DEF SamplingEnds, Interrupt
  <2>2. QED
    BY <1>1, <2>1, ResAssumption DEF SamplerLeft
<1>6. QED
  BY <1>2, <1>3, <1>4, <1>5

LEMMA CollectorGoesOn ==
  ASSUME Shape, Collect \/ CollectingEnds \/ StopCollecting
  PROVE  CollectorLeft' < CollectorLeft
<1>1. /\ k \in 0..Res + 1 /\ way = "cluster" /\ way' = "cluster" /\ csv.state = "open"
      /\ csv \in [state : {"none", "open", "closed", "broken", "stopped"}, rows : Seq(Rows)]
  BY DEF Shape, Typed, TypeOK, Rows, Collect, CollectingEnds, StopCollecting
<1>2. CASE Collect
  <2>1. \/ k' = k + 1 /\ csv'.state = "open"
        \/ csv'.state = "broken"
    BY <1>1, <1>2 DEF Collect, Write, Leave
  <2>2. QED
    BY <1>1, <2>1, ResAssumption DEF CollectorLeft
<1>3. CASE CollectingEnds \/ StopCollecting
  <2>1. csv'.state # "open"
    BY <1>1, <1>3 DEF CollectingEnds, StopCollecting, Leave
  <2>2. QED
    BY <1>1, <2>1, ResAssumption DEF CollectorLeft
<1>4. QED
  BY <1>2, <1>3

(* Neither gives back what the other has used up.                          *)
LEMMA ScriptsApart ==
  ASSUME Shape, [Next]_vars
  PROVE  /\ Begin \/ SamplerLeft' <= SamplerLeft
         /\ StartCollecting \/ CollectorLeft' <= CollectorLeft
<1>1. SamplerLeft \in Nat /\ CollectorLeft \in Nat
  BY LeftTyped
<1>2. UNCHANGED <<pc, at>> => SamplerLeft' = SamplerLeft
  BY DEF SamplerLeft
<1>3. UNCHANGED <<way, csv, k>> => CollectorLeft' = CollectorLeft
  BY DEF CollectorLeft
<1>4. CASE Sampler
  <2>1. way' = way /\ k' = k /\ (way = "cluster" => csv' = csv)
    BY <1>4, WaysAssumption DEF Shape, Typed, TypeOK, OfSample, Sampler, Begin, Submit,
       Evaluate, EvaluationReturns, SamplingEnds, Interrupt, collection
  <2>2. CollectorLeft' = CollectorLeft
    BY <2>1 DEF CollectorLeft
  <2>3. Begin \/ SamplerLeft' < SamplerLeft
    BY <1>4, SamplerGoesOn DEF Sampler
  <2>4. QED
    <3>1. ASSUME SamplerLeft' < SamplerLeft PROVE SamplerLeft' <= SamplerLeft
      <4>1. SamplerLeft' \in Int
        <5>1. Shape'
          BY ShapePreserved
        <5>2. at' \in 0..Res + 1
          BY <5>1 DEF Shape, Typed, TypeOK
        <5>3. QED
          BY <5>2, ResAssumption DEF SamplerLeft
      <4>2. QED
        BY <1>1, <3>1, <4>1
    <3>2. QED
      BY <1>1, <2>2, <2>3, <3>1
<1>5. CASE Collector
  <2>1. UNCHANGED <<pc, at>>
    BY <1>5, CollectStep
  <2>2. CASE StartCollecting
    BY <1>1, <1>2, <2>1, <2>2
  <2>3. CASE Collect \/ CollectingEnds \/ StopCollecting
    <3>1. CollectorLeft' < CollectorLeft
      BY <2>3, CollectorGoesOn
    <3>2. CollectorLeft' \in Int
      <4>1. k' \in 0..Res + 1
        BY <1>5, CollectStep
      <4>2. QED
        BY <4>1, ResAssumption DEF CollectorLeft
    <3>3. QED
      BY <1>1, <1>2, <2>1, <3>1, <3>2
  <2>4. QED
    BY <1>5, <2>2, <2>3 DEF Collector
<1>6. ASSUME NEW j \in Jobs, Job(j) PROVE UNCHANGED <<way, pc, at, csv, k>>
  BY <1>6, JobStep
<1>7. CASE UNCHANGED vars
  BY <1>1, <1>2, <1>3, <1>7 DEF vars
<1>8. QED
  BY <1>1, <1>2, <1>3, <1>4, <1>5, <1>6, <1>7 DEF Next

(* A job takes its own steps, and no sampling submits the job of a sample  *)
(* a second time, since what it is still to come to has none yet.          *)
LEMMA JobsOnce ==
  ASSUME Shape, [Next]_vars, NEW j \in Jobs
  PROVE  /\ StepsLeft(job'[j]) <= StepsLeft(job[j])
         /\ Job(j) => StepsLeft(job'[j]) < StepsLeft(job[j])
<1>1. /\ job \in [Jobs -> {"none"} \cup Active \cup Ended]
      /\ run \in 0..Samplings /\ at \in 0..Res + 1
  BY DEF Shape, Typed, TypeOK
<1>2. StepsLeft(job[j]) \in Nat
  BY LeftTyped
<1>3. ASSUME NEW l \in Jobs, Job(l), l # j PROVE job'[j] = job[j]
  BY <1>3, JobStep
<1>4. ASSUME Job(j) PROVE StepsLeft(job'[j]) < StepsLeft(job[j])
  <2>1. \/ job[j] = "running" /\ job'[j] \in {"writing", "failed"}
        \/ job[j] = "writing" /\ job'[j] \in {"saved", "failed"}
        \/ job[j] = "saved" /\ job'[j] \in {"done", "failed"}
    BY <1>1, <1>4 DEF Job, JobOpens, JobSaves, JobEnds, JobFails, SetJob, Active
  <2>2. QED
    BY <2>1, StepsLeftAt
<1>5. CASE Submit \/ Evaluate
  <2>1. /\ run >= 1 /\ at <= Res /\ Current \in Jobs /\ job[Current] = "none"
    <3>1. pc = "loop" /\ at <= Res
      BY <1>5 DEF Submit, Evaluate
    <3>2. run >= 1
      BY <3>1 DEF Shape, Reached
    <3>3. Current \in Jobs
      BY <1>1, <3>1, <3>2, ResAssumption, SamplingsAssumption DEF Current, Jobs, Samples
    <3>4. QED
      BY <1>1, <3>1, <3>2, <3>3 DEF Shape, Reached, Current
  <2>2. job'[j] = job[j] \/ (job[j] = "none" /\ job'[j] = "running")
    BY <1>1, <1>5, <2>1 DEF Submit, Evaluate
  <2>3. QED
    BY <1>2, <1>4, <2>2, StepsLeftAt
<1>6. CASE Interrupt
  <2>1. pc = "wait" => Current \in Jobs
    BY <1>1, ResAssumption, SamplingsAssumption DEF Shape, Reached, Current, Jobs, Samples
  <2>2. job'[j] = job[j] \/ (job[j] \in Active /\ job'[j] = "failed")
    BY <1>1, <1>6, <2>1 DEF Interrupt
  <2>3. job[j] \in Active => StepsLeft(job[j]) > 0
    BY StepsLeftAt DEF Active
  <2>4. QED
    BY <1>2, <1>4, <2>2, <2>3, StepsLeftAt
<1>7. CASE Begin \/ EvaluationReturns \/ SamplingEnds \/ Collector \/ UNCHANGED vars
  <2>1. job' = job
    BY <1>7 DEF Begin, EvaluationReturns, SamplingEnds, Collector, StartCollecting, Collect,
       CollectingEnds, StopCollecting, vars
  <2>2. QED
    BY <1>2, <1>4, <2>1
<1>8. CASE \E l \in Jobs : Job(l)
  <2>1. StepsLeft(job'[j]) = StepsLeft(job[j]) \/ Job(j)
    BY <1>3, <1>8
  <2>2. job'[j] \in {"none"} \cup Active \cup Ended
    BY <1>8, JobStep
  <2>3. StepsLeft(job'[j]) \in Nat
    BY <2>2, StepsLeftAt DEF Active, Ended
  <2>4. QED
    BY <1>2, <1>4, <2>1, <2>3
<1>9. QED
  BY <1>5, <1>6, <1>7, <1>8 DEF Next, Sampler

(* For every resolution and any number of samplings, interrupts, failures  *)
(* and collections: each script and each job runs down, and nothing that   *)
(* goes on beside it winds it up again.                                    *)
THEOREM WorkIsDoneOnce == Spec => WorkRunsDown
<1>1. ASSUME Shape, [Next]_vars
      PROVE  [/\ Submit \/ Evaluate \/ EvaluationReturns \/ SamplingEnds \/ Interrupt =>
                   SamplerLeft' < SamplerLeft
              /\ Begin \/ SamplerLeft' <= SamplerLeft
              /\ Collect \/ CollectingEnds \/ StopCollecting => CollectorLeft' < CollectorLeft
              /\ StartCollecting \/ CollectorLeft' <= CollectorLeft
              /\ \A j \in Jobs :
                   /\ StepsLeft(job'[j]) <= StepsLeft(job[j])
                   /\ Job(j) => StepsLeft(job'[j]) < StepsLeft(job[j])]_vars
  BY <1>1, SamplerGoesOn, CollectorGoesOn, ScriptsApart, JobsOnce
<1>2. QED
  BY <1>1, InitShape, ShapePreserved, PTL DEF Spec, WorkRunsDown
=============================================================================
