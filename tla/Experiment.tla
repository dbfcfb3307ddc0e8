------------------------------ MODULE Experiment ------------------------------
(***************************************************************************)
(* A fixed experiment (src/bus_rl/experiments.py): train every policy with *)
(* every seed, several processes at a time, then evaluate the baselines    *)
(* and the best models on every split, write a report per policy, export   *)
(* the evidence and drop what is redundant.  The run may be interrupted at *)
(* any moment and resumed on the files it left; its training processes     *)
(* survive it.  They are those of module Training.                         *)
(*                                                                         *)
(* The operator launches runs, one at a time, clears away directories that *)
(* were left incomplete, and edits code only while no run is on.           *)
(***************************************************************************)
EXTENDS Training, FiniteSets

CONSTANTS
  Policies, Seeds, Splits,  \* the sequences of the experiment file
  Workers,                  \* its jobs
  MaxFaults                 \* kills, deaths of trainings and edits: a bound

ASSUME ExperimentAssumption ==
  /\ Policies \in Seq(Range(Policies)) /\ Seeds \in Seq(Range(Seeds))
  /\ Splits \in Seq(Range(Splits))
  /\ Job = Range(Policies) \X Range(Seeds)
  /\ Workers \in Nat \ {0} /\ MaxFaults \in Nat

VARIABLES
  driver,     \* the process of the run
  source,     \* the version of code, configuration and data on disk
  protocol,   \* the version frozen in protocol.json, or None
  status,     \* status.json
  madeBy,     \* madeBy[j]: the version a training runs
  stage,      \* stage[s]: the directory of an evaluation or a report
  artifacts,  \* the exported tree
  faults

expVars == <<driver, source, protocol, status, madeBy, stage, artifacts, faults>>
vars == <<trainVars, expVars>>

-----------------------------------------------------------------------------
(* The matrix *)

Jobs == FlattenSeq([p \in DOMAIN Policies |->
                     [s \in DOMAIN Seeds |-> <<Policies[p], Seeds[s]>>]])

Baseline(split) == [kind |-> "baseline", of |-> split]
Evaluation(j, split) == [kind |-> "model", of |-> <<j, split>>]
Report(policy) == [kind |-> "report", of |-> policy]

EvaluationsOf(policy) ==
  FlattenSeq([s \in DOMAIN Seeds |->
    [i \in DOMAIN Splits |-> Evaluation(<<policy, Seeds[s]>>, Splits[i])]])

Baselines == [i \in DOMAIN Splits |-> Baseline(Splits[i])]

\* The stages after training, in the order of the two loops.
Stages ==
  Baselines \o FlattenSeq([p \in DOMAIN Policies |->
    Append(EvaluationsOf(Policies[p]), Report(Policies[p]))])

NoStage == [state |-> "absent", by |-> None, weights |-> None]

Idle == [at |-> "idle", resume |-> FALSE, export |-> FALSE, tasks |-> <<>>,
         started |-> 0, lost |-> {}, pos |-> 0, weights |-> None]

ExpInit ==
  /\ TrainInit
  /\ driver = Idle /\ source = 1 /\ protocol = None /\ status = "none"
  /\ madeBy = [j \in Job |-> None]
  /\ stage = [s \in Range(Stages) |-> NoStage]
  /\ artifacts = [state |-> "absent", stages |-> NoStage]
  /\ faults = 0

-----------------------------------------------------------------------------
(* The start of a run *)

\* require_fresh_output(artifacts), before anything is written.
MayExport(export) == export => artifacts.state = "absent"

\* Slip: a run is resumed whatever its plan was.
SameAnyPlan == protocol # None

SamePlan == protocol = source

LaunchFresh(export) ==
  /\ driver.at = "idle"
  /\ MayExport(export)
  /\ status = "none" /\ protocol = None
  /\ driver' = [Idle EXCEPT !.at = "prepare", !.export = export]
  /\ status' = "made"   \* output.mkdir
  /\ UNCHANGED <<trainVars, source, protocol, madeBy, stage, artifacts, faults>>

\* protocol.json is written after the copies.
Freeze ==
  /\ driver.at = "prepare"
  /\ driver' = [driver EXCEPT !.at = "scan"]
  /\ protocol' = source
  /\ UNCHANGED <<trainVars, source, status, madeBy, stage, artifacts, faults>>

LaunchResume(export) ==
  /\ driver.at = "idle"
  /\ MayExport(export)
  /\ SamePlan
  /\ driver' = [Idle EXCEPT !.at = "scan", !.resume = TRUE, !.export = export]
  /\ UNCHANGED <<trainVars, source, protocol, status, madeBy, stage, artifacts,
                 faults>>

-----------------------------------------------------------------------------
(* Training *)

Stops == driver' = Idle

\* Slip: a training is taken for complete once its directory is there.
TrainedOnceMade(j) == files[j].made

\* Slip: a resumed run trains everything again.
TrainedNever(j) == FALSE

Trained(j) == files[j].meta.state # "absent"

\* The jobs that are left when what is complete is kept.
Untrained ==
  FlattenSeq([i \in DOMAIN Jobs |->
    IF driver.resume /\ Trained(Jobs[i]) THEN <<>> ELSE <<Jobs[i]>>])

\* What is complete is kept; metadata.json that cannot be read ends the run.
Scan ==
  /\ driver.at = "scan"
  /\ status' = "training"
  /\ IF driver.resume /\ \E j \in Job : files[j].meta.state = "torn"
     THEN Stops
     ELSE driver' = [driver EXCEPT !.at = "train", !.tasks = Untrained]
  /\ UNCHANGED <<trainVars, source, protocol, madeBy, stage, artifacts, faults>>

Task(i) == driver.tasks[i]
Over(i) == Task(i) \in driver.lost \/ ~Running(Task(i))
Failed(i) == Over(i) /\ (Task(i) \in driver.lost \/ train[Task(i)].at # "done")
Succeeded(i) == Over(i) /\ ~Failed(i)
Started == 1 .. driver.started

\* A worker takes the next task.  Where a training left over by an earlier run
\* is still going on, one of the two processes finds the directory made and
\* fails: the new one, unless the old one has not made it yet.
StartTask ==
  LET i == driver.started + 1
      started == [driver EXCEPT !.started = i]
  IN /\ driver.at = "train" /\ i <= Len(driver.tasks)
     /\ Cardinality({k \in Started : ~Over(k)}) < Workers
     /\ \/ /\ Running(Task(i))
           /\ driver' = [started EXCEPT !.lost = @ \cup {Task(i)}]
           /\ UNCHANGED <<train, madeBy>>
        \/ /\ Running(Task(i)) => train[Task(i)].at = "launched"
           /\ driver' = started
           /\ train' = [train EXCEPT ![Task(i)] = [NoProcess EXCEPT !.at = "launched"]]
           /\ madeBy' = IF files[Task(i)].made THEN madeBy
                        ELSE [madeBy EXCEPT ![Task(i)] = source]
     /\ UNCHANGED <<files, source, protocol, status, stage, artifacts, faults>>

\* Results are read in the order of the tasks: the first failure cancels what
\* has not started, and the run ends when what has started is over.
Cancel ==
  /\ driver.at = "train"
  /\ \E i \in Started : Failed(i) /\ \A k \in 1 .. i - 1 : Succeeded(k)
  /\ driver' = [driver EXCEPT !.at = "cancelled"]
  /\ UNCHANGED <<trainVars, source, protocol, status, madeBy, stage, artifacts, faults>>

GiveUp ==
  /\ driver.at = "cancelled" /\ \A i \in Started : Over(i)
  /\ Stops
  /\ UNCHANGED <<trainVars, source, protocol, status, madeBy, stage, artifacts, faults>>

AllTrained ==
  /\ driver.at = "train" /\ driver.started = Len(driver.tasks)
  /\ \A i \in Started : Succeeded(i)
  /\ driver' = [driver EXCEPT !.at = "stages", !.pos = 1]
  /\ status' = "evaluation"
  /\ UNCHANGED <<trainVars, source, protocol, madeBy, stage, artifacts, faults>>

-----------------------------------------------------------------------------
(* Evaluations and reports *)

Now == Stages[driver.pos]
AtStage == driver.at = "stages" /\ driver.pos <= Len(Stages)

\* _evaluation_complete, or report.html is there.
Done(s) == driver.resume /\ stage[s].state = "complete"

SkipStage ==
  /\ AtStage /\ Done(Now)
  /\ driver' = [driver EXCEPT !.pos = @ + 1]
  /\ UNCHANGED <<trainVars, source, protocol, status, madeBy, stage, artifacts, faults>>

Startable(s) ==
  stage[s].state = "absent" /\ (s.kind = "model" => Complete(s.of[1]))

\* A stage whose directory was left incomplete ends the run, and so does a best
\* model that metadata.json does not describe.
StageStops ==
  /\ AtStage /\ ~Done(Now) /\ ~Startable(Now)
  /\ Stops
  /\ UNCHANGED <<trainVars, source, protocol, status, madeBy, stage, artifacts, faults>>

\* The model is loaded and every day evaluated.
BeginStage ==
  /\ AtStage /\ ~Done(Now) /\ Startable(Now)
  /\ driver' = [driver EXCEPT !.at = "writing",
       !.weights = IF Now.kind = "model" THEN files[Now.of[1]].best ELSE None]
  /\ UNCHANGED <<trainVars, source, protocol, status, madeBy, stage, artifacts, faults>>

\* results.csv first, then evaluation.json; a directory, then report.html.
WriteStage ==
  LET after == [absent |-> "partial", partial |-> "torn", torn |-> "complete"]
      is == after[stage[Now].state]
  IN /\ driver.at = "writing"
     /\ stage' = [stage EXCEPT ![Now] =
          [state |-> is, by |-> source, weights |-> driver.weights]]
     /\ driver' = IF is = "complete"
                  THEN [driver EXCEPT !.at = "stages", !.pos = @ + 1]
                  ELSE driver
     /\ UNCHANGED <<trainVars, source, protocol, status, madeBy, artifacts, faults>>

\* The tables over all policies, the index, and status.json.
Tables ==
  /\ driver.at = "stages" /\ driver.pos > Len(Stages)
  /\ status' = "complete"
  /\ driver' = [driver EXCEPT !.at = IF driver.export THEN "export" ELSE "tidy"]
  /\ UNCHANGED <<trainVars, source, protocol, madeBy, stage, artifacts, faults>>

-----------------------------------------------------------------------------
(* The export of the evidence *)

\* Slip: the state of the experiment is not looked at.
ExportableAlways == TRUE

Exportable == status = "complete"

\* export_artifacts, called by the run or from the command line.
Export ==
  /\ driver.at \in {"export", "idle"}
  /\ artifacts.state = "absent" /\ protocol # None
  /\ Exportable
  /\ artifacts' = [state |-> "copying", stages |-> stage]
  /\ driver' = [driver EXCEPT !.at =
                  IF driver.at = "idle" THEN "exporting" ELSE "copying"]
  /\ UNCHANGED <<trainVars, source, protocol, status, madeBy, stage, faults>>

\* artifacts.json is written last, and everything verified against it.
WriteArtifacts ==
  /\ driver.at \in {"copying", "exporting"}
  /\ artifacts' = [artifacts EXCEPT !.state = "complete"]
  /\ driver' = IF driver.at = "exporting" THEN Idle
               ELSE [driver EXCEPT !.at = "tidy"]
  /\ UNCHANGED <<trainVars, source, protocol, status, madeBy, stage, faults>>

\* The final optimizer snapshots are redundant.
Tidy ==
  /\ driver.at = "tidy"
  /\ files' = [j \in Job |-> [files[j] EXCEPT !.last = None]]
  /\ Stops
  /\ UNCHANGED <<train, source, protocol, status, madeBy, stage, artifacts, faults>>

-----------------------------------------------------------------------------
(* Faults and the operator *)

Fault == faults < MaxFaults /\ faults' = faults + 1

\* The run is killed, or fails on a full disk; the trainings go on.
Kill ==
  /\ driver.at # "idle" /\ Stops /\ Fault
  /\ UNCHANGED <<trainVars, source, protocol, status, madeBy, stage, artifacts>>

TrainingDies ==
  /\ Fault
  /\ \E j \in Job : Dies(j)
  /\ UNCHANGED <<driver, source, protocol, status, madeBy, stage, artifacts>>

Edit ==
  /\ driver.at = "idle" /\ Fault
  /\ source' = 3 - source
  /\ UNCHANGED <<trainVars, driver, protocol, status, madeBy, stage, artifacts>>

Quiet == driver.at = "idle" /\ \A j \in Job : ~Running(j)

\* Directories that were left incomplete are removed.
Clear ==
  /\ Quiet
  /\ files' = [j \in Job |-> IF Complete(j) THEN files[j] ELSE NoFiles]
  /\ stage' = [s \in DOMAIN stage |->
                IF stage[s].state = "complete" THEN stage[s] ELSE NoStage]
  /\ artifacts' = IF artifacts.state = "complete" THEN artifacts
                  ELSE [state |-> "absent", stages |-> NoStage]
  /\ UNCHANGED <<train, driver, source, protocol, status, madeBy, faults>>

\* Another output directory, where this one cannot be resumed.
StartOver ==
  /\ Quiet /\ status # "none" /\ ~SamePlan
  /\ files' = [j \in Job |-> NoFiles]
  /\ protocol' = None /\ status' = "none"
  /\ stage' = [s \in DOMAIN stage |-> NoStage]
  /\ artifacts' = [state |-> "absent", stages |-> NoStage]
  /\ UNCHANGED <<train, driver, source, madeBy, faults>>

Drive ==
  \/ Freeze \/ Scan \/ StartTask \/ Cancel \/ GiveUp \/ AllTrained
  \/ SkipStage \/ StageStops \/ BeginStage \/ WriteStage \/ Tables
  \/ (driver.at = "export" /\ Export)
  \/ WriteArtifacts \/ Tidy

Launch == \E export \in BOOLEAN : LaunchFresh(export) \/ LaunchResume(export)

TrainStep == (\E j \in Job : Proceed(j)) /\ UNCHANGED expVars

Next ==
  \/ Drive \/ TrainStep
  \/ Launch \/ (driver.at = "idle" /\ Export)
  \/ Kill \/ TrainingDies \/ Edit \/ Clear \/ StartOver

\* Processes run on; the operator launches again, and at times clears up.
Spec ==
  /\ ExpInit /\ [][Next]_vars
  /\ WF_vars(Drive)
  /\ \A j \in Job : WF_vars(Proceed(j) /\ UNCHANGED expVars)
  /\ WF_vars(Launch) /\ WF_vars(StartOver) /\ SF_vars(Clear)

-----------------------------------------------------------------------------
(* Properties *)

\* No model meets a test split before every training is complete, every
\* evaluation uses the weights metadata.json calls the best, and a report is
\* only made of complete evaluations.
EvaluatesOnlyFinished ==
  /\ \A s \in DOMAIN stage : s.kind = "model" /\ stage[s].state # "absent" =>
       /\ \A j \in Job : Complete(j)
       /\ stage[s].weights = files[s.of[1]].meta.best
  /\ \A p \in Range(Policies) : stage[Report(p)].state # "absent" =>
       \A s \in Range(Baselines \o EvaluationsOf(p)) : stage[s].state = "complete"

\* Everything under one output was made by the code its protocol has frozen,
\* over any number of interruptions, edits and resumed runs.
FrozenPlan ==
  /\ \A j \in Job : Complete(j) => madeBy[j] = protocol
  /\ \A s \in DOMAIN stage : stage[s].state # "absent" => stage[s].by = protocol

\* A run never rewrites what is complete: only another output directory does
\* away with it.
CompletedIsKept ==
  [][protocol' = protocol =>
       /\ \A j \in Job : Complete(j) =>
            [files'[j] EXCEPT !.last = None] = [files[j] EXCEPT !.last = None]
       /\ \A s \in DOMAIN stage :
            stage[s].state = "complete" => stage'[s] = stage[s]]_vars

\* An exported tree with its inventory holds every stage, complete.
ExportsEverything ==
  artifacts.state = "complete" =>
    /\ \A s \in DOMAIN stage : artifacts.stages[s].state = "complete"
    /\ \A j \in Job : Complete(j)

\* However a run was interrupted, clearing up and resuming completes it.
Completes ==
  <>(status = "complete" /\ \A s \in DOMAIN stage : stage[s].state = "complete")
=============================================================================
