----------------------------- MODULE Landscape -----------------------------
(***************************************************************************)
(* A landscape: the quality of a gripper over the samples 0..Res of one of *)
(* its parameters, as rows of a csv file.  It is made in one of two ways.  *)
(* On a cluster easy_landscape_start.py submits a job for every sample and *)
(* easy_landscape_collect.py makes the csv file from the result files that *)
(* it finds, whenever it is called.  gripper_landscape.py evaluates one    *)
(* sample after the other and writes the rows itself.                      *)
(*                                                                         *)
(* A job is a run of evaluate_gripper.  Its result file has a name made of *)
(* the parameter and a number, so that a second sampling in the same       *)
(* directory, with other bounds, uses the same files again.                *)
(***************************************************************************)
EXTENDS Integers, Sequences

CONSTANTS
    Ways,       \* how landscapes are made: on the "cluster", or in "sequence"
    Res,        \* the resolution: samples are numbered from 0
    Samplings   \* how often the parameter is sampled in the directory

ASSUME WaysAssumption == Ways \subseteq {"cluster", "sequence"}
ASSUME ResAssumption == Res \in Nat
ASSUME SamplingsAssumption == Samplings \in Nat

Samples == 0..Res
Jobs == (1..Samplings) \X Samples

VARIABLES
    way,      \* the scripts that are used
    run,      \* the number of the sampling, 0 before the first one
    pc,       \* where the script that samples is
    at,       \* its loop variable v, as the number of the sample
    i,        \* its counter of result files
    job,      \* job[<<r, k>>]: the evaluation of sample k in sampling r
    file,     \* the result files
    csv,      \* the rows, and what became of the file they are in
    k,        \* the loop variable of the collector
    settled   \* history: the files when the collector opened the csv file

vars == <<way, run, pc, at, i, job, file, csv, k, settled>>
sampler == <<run, pc, at, i>>
collection == <<csv, k, settled>>

----------------------------------------------------------------------------
(* A result file: not there, opened and not written to its end, one job's  *)
(* result, or what two jobs wrote over each other, which is no XML.        *)
Result(j) == [kind |-> "whole", run |-> j[1], value |-> j[2]]
Without(kind) == [kind |-> kind, run |-> 0, value |-> 0]
Content == {Without(s) : s \in {"absent", "empty", "garbled"}}
             \cup {Result(j) : j \in Jobs}

(* A job is running as soon as it is in the queue: it does nothing that    *)
(* anybody sees before it opens its file.                                  *)
Active == {"running", "writing", "saved"}
Ended == {"done", "failed"}

(* The job of the sample that the sampling is at.                          *)
Current == <<run, at>>

(* Which file a job saves its result in: on the cluster that of its        *)
(* sample; in sequence the counter does not move while a job runs.         *)
NameOf(j) == IF way = "cluster" THEN j[2] ELSE i

(* What a row of the csv file says: which sample it stands for, and whose  *)
(* quality that is.                                                        *)
Row(sample, f) == [sample |-> sample, run |-> f.run, value |-> f.value]

Write(sample, f) == csv' = [csv EXCEPT !.rows = Append(@, Row(sample, f))]

Leave(state) == csv' = [csv EXCEPT !.state = state]

(* Opening for writing empties the file of the sampling before.            *)
OpenCsv == csv' = [state |-> "open", rows |-> <<>>]

----------------------------------------------------------------------------
(* A sampling begins when the script before has ended; its jobs may still  *)
(* be at work, or in the queue.                                            *)
Begin ==
    /\ pc = "idle"
    /\ run < Samplings
    /\ run' = run + 1
    /\ pc' = "loop"
    /\ at' = 0
    /\ i' = 0
    /\ IF way = "sequence" THEN OpenCsv ELSE UNCHANGED csv
    /\ UNCHANGED <<way, job, file, k, settled>>

(* qsub may fail; nobody looks at what it returns.                         *)
Submit ==
    /\ pc = "loop"
    /\ way = "cluster"
    /\ at <= Res
    /\ \E submitted \in BOOLEAN :
         job' = [job EXCEPT ![Current] = IF submitted THEN "running" ELSE @]
    /\ at' = at + 1
    /\ UNCHANGED <<way, run, pc, i, file, collection>>

Evaluate ==
    /\ pc = "loop"
    /\ way = "sequence"
    /\ at <= Res
    /\ job' = [job EXCEPT ![Current] = "running"]
    /\ pc' = "wait"
    /\ UNCHANGED <<way, run, at, i, file, collection>>

(* A slip: the result file is read whatever the program returned.          *)
FailureIsRead ==
    /\ pc = "wait"
    /\ job[Current] \in Ended
    /\ IF file[i].kind = "whole"
       THEN Write(at, file[i]) /\ i' = i + 1 /\ at' = at + 1 /\ pc' = "loop"
       ELSE Leave("broken") /\ pc' = "idle" /\ UNCHANGED <<i, at>>
    /\ UNCHANGED <<way, run, job, file, k, settled>>

(* A slip: a sample that failed is evaluated again, as often as it fails.  *)
FailureIsRepeated ==
    /\ pc = "wait"
    /\ \/ job[Current] = "failed" /\ UNCHANGED <<at, i, csv>>
       \/ /\ job[Current] = "done"
          /\ Write(at, file[i])
          /\ i' = i + 1
          /\ at' = at + 1
    /\ pc' = "loop"
    /\ UNCHANGED <<way, run, job, file, k, settled>>

(* A sample that failed has no row, and the next one gets its file.        *)
EvaluationReturns ==
    /\ pc = "wait"
    /\ \/ job[Current] = "failed" /\ UNCHANGED <<i, csv>>
       \/ /\ job[Current] = "done"
          /\ Write(at, file[i])
          /\ i' = i + 1
    /\ at' = at + 1
    /\ pc' = "loop"
    /\ UNCHANGED <<way, run, job, file, k, settled>>

SamplingEnds ==
    /\ pc = "loop"
    /\ at > Res
    /\ pc' = "idle"
    /\ IF way = "sequence" THEN Leave("closed") ELSE UNCHANGED csv
    /\ UNCHANGED <<way, run, at, i, job, file, k, settled>>

(* Ctrl+C, to the script or to the program it waits for.                   *)
Interrupt ==
    /\ pc \in {"loop", "wait"}
    /\ pc' = "idle"
    /\ job' = IF pc = "wait" /\ job[Current] \in Active
              THEN [job EXCEPT ![Current] = "failed"] ELSE job
    /\ IF way = "sequence" THEN Leave("stopped") ELSE UNCHANGED csv
    /\ UNCHANGED <<way, run, at, i, file, k, settled>>

----------------------------------------------------------------------------
(* evaluate_gripper.                                                       *)
SetJob(j, from, to) == job[j] = from /\ job' = [job EXCEPT ![j] = to]

(* The result is saved when it is there: the file is opened ...            *)
JobOpens(j) ==
    /\ SetJob(j, "running", "writing")
    /\ file' = [file EXCEPT ![NameOf(j)] = Without("empty")]
    /\ UNCHANGED <<way, sampler, collection>>

(* ... and written.  If another job wrote it since it was opened, the rest *)
(* of a longer result stays behind this one.                               *)
JobSaves(j) ==
    /\ SetJob(j, "writing", "saved")
    /\ \E f \in {Result(j)} \cup
                IF file[NameOf(j)].kind = "empty" THEN {} ELSE {Without("garbled")} :
         file' = [file EXCEPT ![NameOf(j)] = f]
    /\ UNCHANGED <<way, sampler, collection>>

(* The grasps are saved last.                                              *)
JobEnds(j) ==
    /\ SetJob(j, "saved", "done")
    /\ UNCHANGED <<way, sampler, file, collection>>

(* Anything may throw, the walltime of half an hour may pass, and jobs can *)
(* be deleted from the queue; one that is writing may by then have written *)
(* over a part of another's result.                                        *)
JobFails(j) ==
    /\ job[j] \in Active
    /\ job' = [job EXCEPT ![j] = "failed"]
    /\ \/ UNCHANGED file
       \/ /\ job[j] = "writing"
          /\ file[NameOf(j)].kind = "whole"
          /\ file' = [file EXCEPT ![NameOf(j)] = Without("garbled")]
    /\ UNCHANGED <<way, sampler, collection>>

Job(j) == JobOpens(j) \/ JobSaves(j) \/ JobEnds(j) \/ JobFails(j)

----------------------------------------------------------------------------
(* A file is settled when it is whole and nobody is going to write it.     *)
Settled(s) == file[s].kind = "whole" /\ \A r \in 1..Samplings : job[<<r, s>>] \notin Active

StartCollecting ==
    /\ way = "cluster"
    /\ csv.state # "open"
    /\ OpenCsv
    /\ k' = 0
    /\ settled' = {[sample |-> s, run |-> file[s].run, value |-> file[s].value] :
                     s \in {s \in Samples : Settled(s)}}
    /\ UNCHANGED <<way, sampler, job, file>>

(* A slip: the collector stops at the first sample that has no file.       *)
GapEnds ==
    /\ way = "cluster"
    /\ csv.state = "open"
    /\ k <= Res
    /\ CASE file[k].kind = "absent" -> Leave("closed") /\ UNCHANGED k
         [] file[k].kind = "whole"  -> Write(k, file[k]) /\ k' = k + 1
         [] OTHER                   -> Leave("broken") /\ UNCHANGED k
    /\ UNCHANGED <<way, sampler, job, file, settled>>

(* A slip: the collector waits for a file that is not there yet.           *)
GapIsAwaited ==
    /\ way = "cluster"
    /\ csv.state = "open"
    /\ k <= Res
    /\ file[k].kind # "absent"
    /\ IF file[k].kind = "whole" THEN Write(k, file[k]) /\ k' = k + 1
       ELSE Leave("broken") /\ UNCHANGED k
    /\ UNCHANGED <<way, sampler, job, file, settled>>

(* A slip: a file that could not be read has a row, too.                   *)
UnreadHasRow ==
    /\ way = "cluster"
    /\ csv.state = "open"
    /\ k <= Res
    /\ IF file[k].kind = "absent" THEN UNCHANGED csv ELSE Write(k, file[k])
    /\ k' = k + 1
    /\ UNCHANGED <<way, sampler, job, file, settled>>

(* A sample without a file is passed over: that is an IOError.  What the   *)
(* parser says of a file that is no XML is not caught.                     *)
Collect ==
    /\ way = "cluster"
    /\ csv.state = "open"
    /\ k <= Res
    /\ CASE file[k].kind = "absent" -> k' = k + 1 /\ UNCHANGED csv
         [] file[k].kind = "whole"  -> Write(k, file[k]) /\ k' = k + 1
         [] OTHER                   -> Leave("broken") /\ UNCHANGED k
    /\ UNCHANGED <<way, sampler, job, file, settled>>

CollectingEnds ==
    /\ way = "cluster"
    /\ csv.state = "open"
    /\ k > Res
    /\ Leave("closed")
    /\ UNCHANGED <<way, sampler, job, file, k, settled>>

(* Ctrl+C.  The rows so far were flushed.                                  *)
StopCollecting ==
    /\ way = "cluster"
    /\ csv.state = "open"
    /\ Leave("stopped")
    /\ UNCHANGED <<way, sampler, job, file, k, settled>>

----------------------------------------------------------------------------
Init ==
    /\ way \in Ways
    /\ run = 0
    /\ pc = "idle"
    /\ at = 0
    /\ i = 0
    /\ job = [j \in Jobs |-> "none"]
    /\ file = [s \in Samples |-> Without("absent")]
    /\ csv = [state |-> "none", rows |-> <<>>]
    /\ k = 0
    /\ settled = {}

Sampler == Begin \/ Submit \/ Evaluate \/ EvaluationReturns \/ SamplingEnds \/ Interrupt

Collector == StartCollecting \/ Collect \/ CollectingEnds \/ StopCollecting

Next == Sampler \/ Collector \/ \E j \in Jobs : Job(j)

(* The loops of the scripts go on.  The walltime ends every job, and in    *)
(* sequence an evaluation ends (Termination of EvaluationProcess).  That a *)
(* sampling or a collection is begun at all, or stopped, is up to the      *)
(* user.                                                                   *)
Fairness ==
    /\ WF_vars(Submit \/ Evaluate \/ EvaluationReturns \/ SamplingEnds)
    /\ WF_vars(Collect \/ CollectingEnds)
    /\ \A j \in Jobs : WF_vars(Job(j))

Spec == Init /\ [][Next]_vars /\ Fairness

----------------------------------------------------------------------------
(* The scripts, the jobs and the files have their types: every row of the  *)
(* csv file is of a sample and of a sampling that was made.                *)
TypeOK ==
    /\ way \in Ways
    /\ run \in 0..Samplings
    /\ pc \in {"idle", "loop", "wait"}
    /\ at \in 0..Res + 1
    /\ i \in 0..at
    /\ job \in [Jobs -> {"none"} \cup Active \cup Ended]
    /\ file \in [Samples -> Content]
    /\ csv \in [state : {"none", "open", "closed", "broken", "stopped"},
                rows : Seq([sample : Samples, run : 1..Samplings, value : Samples])]
    /\ k \in 0..Res + 1
    /\ settled \subseteq [sample : Samples, run : 1..Samplings, value : Samples]

(* Whatever fails, is interrupted, or was in the directory before: the     *)
(* quality in a row is that of the sample the row stands for, no sample    *)
(* has two rows, and rows that were made in sequence are of the sampling   *)
(* that wrote the csv file.                                                *)
RowsOfTheirSamples ==
    LET rows == csv.rows IN
    /\ \A n \in 1..Len(rows) : rows[n].value = rows[n].sample
    /\ \A m, n \in 1..Len(rows) : m < n => rows[m].sample < rows[n].sample
    /\ way = "sequence" => \A n \in 1..Len(rows) : rows[n].run = run

(* A sample that was settled when the collection began has a row in the    *)
(* csv file that was closed, of that result or of a later sampling's; and  *)
(* a collection breaks only if a sample was not settled, or a new sampling *)
(* came in between, whatever happened in the directory before.             *)
SettledIsCollected ==
    way = "cluster" =>
    /\ csv.state = "closed" =>
         \A r \in settled : \E n \in 1..Len(csv.rows) :
            csv.rows[n].sample = r.sample /\ csv.rows[n].run >= r.run
    /\ csv.state = "broken" =>
         \/ \E s \in Samples : \A r \in settled : r.sample # s
         \/ \E r \in settled : \E s \in r.run + 1 .. Samplings :
               job[<<s, r.sample>>] # "none"

(* How many more steps the sampling, the collection and a job can take.    *)
SamplerLeft == IF pc = "idle" THEN 0 ELSE 2 * (Res + 1 - at) + IF pc = "loop" THEN 2 ELSE 1

CollectorLeft == IF way = "cluster" /\ csv.state = "open" THEN Res + 2 - k ELSE 0

StepsLeft(s) == CASE s = "none" -> 4    [] s = "running" -> 3
                  [] s = "writing" -> 2 [] s = "saved" -> 1 [] s \in Ended -> 0

(* Nothing is done twice.  A script that was begun uses up its samples,    *)
(* whether they are evaluated or fail, and what the jobs and the other     *)
(* script do meanwhile never gives it one back; and a job that was         *)
(* submitted, has written or has ended is not begun again, whoever is      *)
(* stopped and started in between.                                         *)
WorkRunsDown ==
    [][/\ Submit \/ Evaluate \/ EvaluationReturns \/ SamplingEnds \/ Interrupt =>
            SamplerLeft' < SamplerLeft
       /\ Begin \/ SamplerLeft' <= SamplerLeft
       /\ Collect \/ CollectingEnds \/ StopCollecting => CollectorLeft' < CollectorLeft
       /\ StartCollecting \/ CollectorLeft' <= CollectorLeft
       /\ \A j \in Jobs :
            /\ StepsLeft(job'[j]) <= StepsLeft(job[j])
            /\ Job(j) => StepsLeft(job'[j]) < StepsLeft(job[j])]_vars

(* Both scripts come to an end: after the last sampling its script does,   *)
(* with every job that was ever submitted, and every collection does,      *)
(* whether it has read all files or broke off.                             *)
ScriptsTerminate ==
    /\ <>[](pc = "idle" /\ \A j \in Jobs : job[j] \notin Active)
    /\ csv.state = "open" ~> csv.state # "open"
=============================================================================
