-------------------------------- MODULE Training --------------------------------
(***************************************************************************)
(* Training one policy per output directory, each in a process of its own  *)
(* (src/bus_rl/learning/training): the loop of the on-policy trainers, the *)
(* callback that validates the policy and keeps the best one, the record   *)
(* of updates kept by the diagnostics, and the files that are left behind. *)
(*                                                                         *)
(* A policy is known by the number of updates it has had; its validation   *)
(* cost is any cost, but always the same one, as evaluation is             *)
(* deterministic.  A process may die at any moment: its files stay.        *)
(***************************************************************************)
EXTENDS Integers, Sequences, SequencesExt

CONSTANTS
  Job,            \* trainings, one output directory each
  Configured,     \* Configured[j]: the AlgorithmConfig of the training
  EpisodeSteps,   \* decisions of a day, horizon_s / control_interval_s
  Costs,          \* mean costs validation may find
  Infinity        \* float("inf")

None == -1

ASSUME CostAssumption ==
  Costs \subseteq Nat /\ Infinity \in Nat /\ \A c \in Costs : c < Infinity

ASSUME AlgorithmAssumption ==
  /\ EpisodeSteps \in Nat \ {0}
  /\ \A j \in Job :
       /\ {Configured[j].steps, Configured[j].envs, Configured[j].total}
            \subseteq Nat \ {0}
       /\ Configured[j].evalFreq \in Nat
       /\ Configured[j].name \in {"ppo", "a2c", "reinforce"}
       /\ Configured[j].timing \in {"legacy_step", "post_update"}

VARIABLES
  train,   \* train[j]: the process that trains j
  files    \* files[j]: what its output directory holds

trainVars == <<train, files>>

-----------------------------------------------------------------------------
(* The setup of a training *)

Algorithm(j) == Configured[j]

\* Slip: the rollout keeps the configured length.
EffectiveStepsAsConfigured(a) == a.steps

\* effective_rollout_steps: REINFORCE collects whole episodes only.
EffectiveSteps(a) ==
  IF a.name = "reinforce" THEN (a.steps \div EpisodeSteps) * EpisodeSteps
                          ELSE a.steps

ValidSetup(a) ==
  a.name = "reinforce" =>
    /\ a.steps >= EpisodeSteps
    /\ a.total % (EffectiveSteps(a) * a.envs) = 0

NoProcess ==
  [at |-> "none", timesteps |-> 0, filled |-> 0, updates |-> 0,
   nextEval |-> 0, best |-> Infinity, bestAt |-> None, history |-> <<>>,
   episodes |-> 0, recordedAt |-> 0, recorded |-> {}]

NoFiles ==
  [made |-> FALSE, best |-> None, last |-> None, history |-> <<>>,
   meta |-> [state |-> "absent"]]

Running(j) == train[j].at \notin {"none", "done", "failed", "misaligned"}

-----------------------------------------------------------------------------
(* The callbacks.  S holds a process and its directory. *)

At(j) == [run |-> train[j], dir |-> files[j]]

\* The costs validation may find: a policy seen before costs the same again.
CostsOf(T) ==
  LET seen == {h \in Range(T.history) : h.updates = T.updates}
  IN IF seen = {} THEN Costs ELSE {h.cost : h \in seen}

\* Slip: a tie replaces the earlier checkpoint.
ImprovesOrTies(T, cost) == cost <= T.best

Improves(T, cost) == cost < T.best

\* _evaluate: validate, append to the history, save the model if it is better
\* than every eligible one before.
Evaluated(S, eligible, cost) ==
  LET better == eligible /\ Improves(S.run, cost)
      row == [timesteps |-> S.run.timesteps, updates |-> S.run.updates,
              cost |-> cost, eligible |-> eligible]
      seen == [S EXCEPT !.run.history = Append(@, row)]
  IN IF ~better THEN seen
     ELSE [seen EXCEPT !.run.best = cost, !.run.bestAt = S.run.timesteps,
                       !.dir.best = S.run.updates]

\* The states validation may lead to, where it is due.
Validated(S, due) ==
  IF due THEN {Evaluated(S, TRUE, c) : c \in CostsOf(S.run)} ELSE {S}

\* _on_step evaluates while a rollout is collected ...
DueInRollout(a, T) ==
  a.timing = "legacy_step" /\ a.evalFreq > 0 /\ T.timesteps >= T.nextEval

\* ... and _on_rollout_start after the update of the rollout before.
DueAfterUpdate(a, T) ==
  a.timing = "post_update" /\ a.evalFreq > 0 /\ T.timesteps >= T.nextEval

\* The first multiple of eval_freq ahead of the steps done.
CaughtUp(a, T) ==
  T.nextEval + a.evalFreq * ((T.timesteps - T.nextEval) \div a.evalFreq + 1)

\* _record_update, on the next rollout or at the end of the training.
Recorded(a, T) ==
  IF T.timesteps > T.recordedAt
  THEN [T EXCEPT !.recorded = @ \cup {T.updates}, !.recordedAt = T.timesteps]
  ELSE T

\* finalize evaluates unless the last row of the history is of the last step
\* and, with post_update timing, of the last update.
FinalMissing(a, T) ==
  \/ T.history = <<>>
  \/ Last(T.history).timesteps # T.timesteps
  \/ a.timing = "post_update" /\ Last(T.history).updates # T.updates

-----------------------------------------------------------------------------
(* The process of one training *)

Becomes(j, S) ==
  /\ train' = [train EXCEPT ![j] = S.run]
  /\ files' = [files EXCEPT ![j] = S.dir]

Ended(j, how) ==
  /\ train' = [train EXCEPT ![j] = [NoProcess EXCEPT !.at = how]]
  /\ UNCHANGED files

\* Slip: the directory may be there already (exist_ok).
FreshAlways(j) == TRUE

\* output.mkdir: of two processes only one gets past it.
Fresh(j) == ~files[j].made

\* An invalid setup or an existing directory ends the process at once.
Reject(j) ==
  /\ train[j].at = "launched"
  /\ ~ValidSetup(Algorithm(j)) \/ ~Fresh(j)
  /\ Ended(j, "failed")

\* The directory is made and the untrained policy measured, for reference only.
Begin(j) ==
  /\ train[j].at = "launched"
  /\ ValidSetup(Algorithm(j))
  /\ Fresh(j)
  /\ \E c \in Costs :
       Becomes(j, Evaluated(
         [run |-> [NoProcess EXCEPT !.at = "collect",
                                    !.nextEval = Algorithm(j).evalFreq],
          dir |-> [NoFiles EXCEPT !.made = TRUE]], FALSE, c))

\* compute_returns_and_advantage turns a rollout down that ends inside an episode.
Aligned(a, dones) == a.name = "reinforce" => dones

\* One step of all environments: their days are equally long, so they end
\* together.
Step(j) ==
  LET a == Algorithm(j)
      T == [train[j] EXCEPT !.timesteps = @ + a.envs, !.filled = @ + 1]
      dones == (T.timesteps \div a.envs) % EpisodeSteps = 0
      stepped == [T EXCEPT !.episodes = IF dones THEN @ + a.envs ELSE @]
      full == T.filled = EffectiveSteps(a)
  IN /\ train[j].at = "collect"
     /\ \E S \in Validated([run |-> stepped, dir |-> files[j]],
                           DueInRollout(a, stepped)) :
          IF full /\ ~Aligned(a, dones)
          THEN Becomes(j, [S EXCEPT !.run.at = "misaligned"])
          ELSE Becomes(j, [S EXCEPT
                 !.run.at = IF full THEN "update" ELSE "collect",
                 !.run.nextEval =
                   IF DueInRollout(a, stepped) THEN @ + a.evalFreq ELSE @])

\* An update, and the start of the next rollout if the budget is not spent.
Update(j) ==
  LET a == Algorithm(j)
      T == [train[j] EXCEPT !.updates = @ + 1, !.filled = 0]
      more == T.timesteps < a.total
      due == more /\ DueAfterUpdate(a, T)
  IN /\ train[j].at = "update"
     /\ \E S \in Validated([run |-> T, dir |-> files[j]], due) :
          Becomes(j, [S EXCEPT !.run = [Recorded(a, S.run) EXCEPT
            !.at = IF more THEN "collect" ELSE "finalize",
            !.nextEval = IF due THEN CaughtUp(a, T) ELSE @]])

\* finalize, at the end of the training.
Finalize(j) ==
  /\ train[j].at = "finalize"
  /\ \E S \in Validated(At(j), FinalMissing(Algorithm(j), train[j])) :
       Becomes(j, [S EXCEPT !.run.at = "metadata",
         !.dir.last = S.run.updates,
         !.dir.best = IF S.run.best = Infinity THEN S.run.updates ELSE @,
         !.dir.history = S.run.history])

\* metadata.json is written last: it says that the training is complete.
OpenMetadata(j) ==
  /\ train[j].at = "metadata"
  /\ Becomes(j, [At(j) EXCEPT !.run.at = "writing",
                              !.dir.meta = [state |-> "torn"]])

WriteMetadata(j) ==
  /\ train[j].at = "writing"
  /\ Becomes(j, [At(j) EXCEPT !.run.at = "done",
       !.dir.meta = [state |-> "complete", best |-> files[j].best,
                     cost |-> train[j].best, at |-> train[j].bestAt,
                     timesteps |-> train[j].timesteps]])

\* An exception (a value that is not finite, a full disk) or a killed process.
Dies(j) == Running(j) /\ Ended(j, "failed")

Proceed(j) ==
  \/ Reject(j) \/ Begin(j) \/ Step(j) \/ Update(j) \/ Finalize(j)
  \/ OpenMetadata(j) \/ WriteMetadata(j)

TrainInit ==
  /\ train = [j \in Job |-> NoProcess]
  /\ files = [j \in Job |-> NoFiles]

-----------------------------------------------------------------------------
(* Properties *)

Complete(j) == files[j].meta.state = "complete"

\* u updates, and no fewer, spend the budget of a training.
Spends(a, u) ==
  LET rollout == EffectiveSteps(a) * a.envs
  IN u * rollout >= a.total /\ (u - 1) * rollout < a.total

\* best.zip of every complete training is the policy of lowest cost among the
\* validations that followed the one of step zero, ties keep the earliest, and
\* the recorded cost and step are that policy's own.  With post_update timing
\* it is a trained policy, and the last policy was judged too; with legacy_step
\* timing neither is sure: see BestIsTrained.
KeepsTheBest ==
  \A j \in Job : Complete(j) =>
    LET H == files[j].history
        E == {i \in DOMAIN H : H[i].eligible}
        meta == files[j].meta
    IN /\ \E i \in E :
            /\ H[i].updates = files[j].best /\ meta.best = files[j].best
            /\ H[i].timesteps = meta.at /\ H[i].cost = meta.cost
            /\ \A k \in E : H[i].cost <= H[k].cost
            /\ \A k \in E : k < i => H[i].cost < H[k].cost
       /\ Algorithm(j).timing = "post_update" =>
            /\ files[j].best > 0
            /\ \E i \in E : Spends(Algorithm(j), H[i].updates)

\* "Step zero is a reference only; checkpoint selection retains the lowest
\* post-training validation cost" (README.md:124, and the checkpoint_selection
\* of metadata.json, train.py:229): the policy that is kept has been trained.
\* With legacy_step timing _on_step (callbacks.py:55) validates before the update
\* of the rollout it is called in, so the first validation that counts may be of
\* the untrained policy again.
BestIsTrained == \A j \in Job : Complete(j) => files[j].best > 0

\* REINFORCE never meets a rollout that ends inside an episode, and spends
\* exactly its budget on whole episodes, although the configured rollout is no
\* multiple of an episode.
WholeEpisodes ==
  \A j \in Job : Algorithm(j).name = "reinforce" =>
    /\ train[j].at # "misaligned"
    /\ train[j].at \in {"finalize", "metadata", "writing", "done"} =>
         /\ train[j].timesteps = Algorithm(j).total
         /\ train[j].episodes * EpisodeSteps = train[j].timesteps
=============================================================================
