------------------------------- MODULE Evaluator -------------------------------
(***************************************************************************)
(* A call of evaluate_scenarios (evaluation/runner.py) and the pools it    *)
(* runs on (evaluation/pool.py, rust/batch.py), from the combinations of   *)
(* settings it accepts (config.py) to the records it returns.              *)
(*                                                                         *)
(* The same process evaluates again and again, for other days and other    *)
(* runs, while it trains the model it evaluates: a validation callback     *)
(* keeps a pool between its calls, and every call disturbs the model.  A   *)
(* day is run whole here; Evaluation has the steps inside a chunk and      *)
(* Dataset the stores below the environments.                              *)
(***************************************************************************)
EXTENDS Integers, Sequences, FiniteSets

CONSTANTS
  Lists,             \* the lists of days that are evaluated, not empty
  Base,              \* the settings of configs/base.toml and the defaults
  Files,             \* what configuration files set besides
  Flags,             \* what the command line sets besides
  Forecasters,       \* fitted forecasters
  ControlInterval,   \* control_interval_s in minutes
  Calls,             \* bound: calls of evaluate_scenarios
  None

Learned == "learned"
Heuristic == "heuristic"

-----------------------------------------------------------------------------
(* Which settings make a run *)

\* AlgorithmConfig and ActionExecutionConfig, each for itself.
ValidAlgorithm(o) ==
  /\ o.mask \in {"apply", "free"}
  /\ o.encoder \in {"mlp", "belief", "gru", "belief_gru"}
  /\ o.history >= 10
  /\ o.invalid \in {"error", "noop"}

\* RuntimeConfig.
ValidRuntime(o) ==
  /\ o.backend \in {"python", "rust"}
  /\ o.legacy <=> o.backend = "python"
  /\ o.batch >= 1
  /\ o.native => o.backend = "rust"

\* RunConfig: who does not know the mask needs infeasible requests to pass.
ValidTogether(o) ==
  o.mask = "free" => o.invalid = "noop" /\ o.backend = "rust"

\* arrival_memory_bins raises unless the history can be kept.
MemoryFits(o) ==
  o.history # 10 =>
    /\ o.history % ControlInterval = 0
    /\ o.backend = "rust"
    /\ o.encoder # "mlp"

MemoryBins(o) ==
  IF o.history = 10 \/ o.history \div ControlInterval < 5 THEN 5
  ELSE o.history \div ControlInterval

ValidRun(o) == ValidAlgorithm(o) /\ ValidRuntime(o) /\ ValidTogether(o)

\* _deep_merge, and dataclasses.replace.
Layered(settings, over) ==
  [k \in DOMAIN settings |-> IF k \in DOMAIN over THEN over[k] ELSE settings[k]]

\* load_run_config
FromFile(file) == Layered(Base, file)

\* _run_config makes a run of every step: the flags of the algorithm come
\* before those of the backend, and those before the rest.
WithFlags(o, flags) ==
  LET algorithm == Layered(o, flags.algorithm)
      backend == Layered(algorithm, flags.backend)
  IN <<o, algorithm, backend, Layered(backend, flags.runtime)>>

Runs ==
  LET steps == {WithFlags(FromFile(file), flags) : file \in Files, flags \in Flags}
  IN {made[4] : made \in {m \in steps : /\ \A k \in 1 .. 4 : ValidRun(m[k])
                                       /\ MemoryFits(m[4])}}

\* validate_eval_runtime.
Validated(run, method, forecaster) ==
  run.batch > 1 =>
    /\ method = Learned
    /\ run.forecast => forecaster # None
    /\ forecaster # None => (forecaster.stateful => forecaster.perSlot)

\* Lists of days are not empty, and a batch is a number of days.
ASSUME EvaluatorAssumption ==
  /\ \A list \in Lists : list # <<>> /\ list \in Seq({list[i] : i \in DOMAIN list})
  /\ \A run \in Runs : run.batch \in Nat
  /\ {Calls, ControlInterval} \subseteq Nat \ {0}

-----------------------------------------------------------------------------
(* Environments and pools *)

\* What a day is run under in an environment, handed over from the settings
\* of the run.  The oracle's knows neither a long memory nor requests that
\* the mask forbids.
OracleEnvironment(run, forecaster) ==
  [backend |-> "python", control |-> run.control, reward |-> run.reward,
   memory |-> 5, requests |-> <<"error", "apply">>, forecaster |-> forecaster]

NativeEnvironment(run, forecaster) ==
  [backend |-> "rust", control |-> run.control, reward |-> run.reward,
   memory |-> MemoryBins(run), requests |-> <<run.invalid, run.mask>>,
   forecaster |-> forecaster]

\* make_env_for_run
Environment(run, forecaster) ==
  IF run.backend = "python" THEN OracleEnvironment(run, forecaster)
  ELSE NativeEnvironment(run, forecaster)

\* Slip: the switches of the control are left out of the key.
PoolKeyWithoutControl(list, run, forecaster) ==
  <<list, run.backend, run.batch, run.native, run.invalid, run.mask,
    run.reward, MemoryBins(run), run.forecast, forecaster>>

\* eval_pool_key.
PoolKey(list, run, forecaster) ==
  <<list, run.backend, run.batch, run.native, run.invalid, run.mask,
    run.control, run.reward, MemoryBins(run), run.forecast, forecaster>>

\* EvalEnvPool and NativeBatchEvalPool: the environments, or the kernel, are
\* made for good when the pool is.
Pool(native, list, run, forecaster) ==
  [native |-> native, key |-> PoolKey(list, run, forecaster), list |-> list,
   size |-> IF run.batch < Len(list) THEN run.batch ELSE Len(list),
   env |-> Environment(run, forecaster), closed |-> FALSE]

NoPool == [closed |-> TRUE]

\* make_eval_pool
MakePool(list, run, forecaster) == Pool(run.native, list, run, forecaster)

PoolMatches(p, list, run, forecaster) ==
  ~p.closed /\ p.key = PoolKey(list, run, forecaster)

\* A pool is replaced by one of its own class.
Refreshed(p, list, run, forecaster) ==
  IF PoolMatches(p, list, run, forecaster) THEN p
  ELSE Pool(p.native, list, run, forecaster)

-----------------------------------------------------------------------------
(* Calls *)

VARIABLES
  model,    \* the process's model: its mode, and whether a call has drawn numbers
  held,     \* the pool that the callback, or another caller, keeps
  call,     \* the call of evaluate_scenarios, or the last one
  records,  \* the records it has made
  calls     \* calls so far

vars == <<model, held, call, records, calls>>

NoCall == [at |-> "none"]

EInit ==
  /\ model = [training |-> TRUE, rng |-> 0]
  /\ held = NoPool
  /\ call = NoCall
  /\ records = <<>>
  /\ calls = 0

Busy == call.at = "running"

\* Between calls the model is trained, and may be left in either mode.
Train ==
  /\ ~Busy
  /\ \E mode \in BOOLEAN : model' = [training |-> mode, rng |-> 0]
  /\ UNCHANGED <<held, call, records, calls>>

\* BestValidationCallback._evaluate with reuse_eval_pool: the pool is made
\* on the first call and looked at again on each that follows.
KeepPool ==
  /\ ~Busy
  /\ \E list \in Lists, run \in Runs, f \in Forecasters \cup {None} :
       held' = IF held = NoPool THEN MakePool(list, run, f)
               ELSE Refreshed(held, list, run, f)
  /\ UNCHANGED <<model, call, records, calls>>

\* BestValidationCallback.finalize closes it, and a caller may do so earlier
\* and still hand the pool on.
ClosePool ==
  /\ ~Busy
  /\ ~held.closed
  /\ held' \in {NoPool, [held EXCEPT !.closed = TRUE]}
  /\ UNCHANGED <<model, call, records, calls>>

Batched(run, method, given) ==
  method = Learned /\ (run.batch > 1 \/ given # NoPool \/ run.native)

\* The pool the call runs on: the caller's, or one of its own.
ActivePool(list, run, forecaster, given) ==
  IF given # NoPool THEN given ELSE MakePool(list, run, forecaster)

Refused(list, run, method, forecaster, given) ==
  \/ ~Validated(run, method, forecaster)
  \/ /\ Batched(run, method, given)
     /\ given # NoPool
     /\ given.closed \/ ~PoolMatches(given, list, run, forecaster)

\* The call as evaluate_scenarios enters it, up to the first day; a refusal
\* comes before anything is touched, or after the model was put back.
Call ==
  /\ ~Busy
  /\ calls < Calls
  /\ calls' = calls + 1
  /\ \E list \in Lists, run \in Runs, f \in Forecasters \cup {None},
        method \in {Learned, Heuristic}, given \in {NoPool, held} :
       LET batched == Batched(run, method, given)
           pool == ActivePool(list, run, f, given)
       IN /\ records' = <<>>
          /\ call' =
               IF Refused(list, run, method, f, given)
               THEN [at |-> "refused"]
               ELSE [at |-> "running", list |-> list, run |-> run,
                     method |-> method, forecaster |-> f,
                     saved |-> model, owned |-> batched /\ given = NoPool,
                     pool |-> IF batched THEN pool ELSE NoPool]
  /\ UNCHANGED <<model, held>>

\* A day as it is recorded.
Record(list, i, env) == [day |-> list[i], env |-> env]

Left == Len(call.list) - Len(records)

\* What predict does to the model: it switches to evaluation mode and may
\* draw.
Disturbed == {[training |-> FALSE, rng |-> n] : n \in {model.rng, 1}}

ModelAfter ==
  model' \in IF call.method = Learned THEN Disturbed ELSE {model}

\* _evaluate_scalar and rollout: a fresh environment for the call, a day at
\* a time.
RunDay ==
  /\ Busy
  /\ call.pool = NoPool
  /\ Left > 0
  /\ records' = Append(records, Record(call.list, Len(records) + 1,
                                       Environment(call.run, call.forecaster)))
  /\ ModelAfter
  /\ UNCHANGED <<held, call, calls>>

\* What the batched loop needs and does not find on its pool: the oracle's
\* environment does not say which action it executed, and the native loop
\* asks the pool itself for the steps.
Unsupported ==
  /\ call.pool # NoPool
  /\ \/ call.run.native # call.pool.native
     \/ call.pool.env.backend = "python"

\* _evaluate_batched and _evaluate_batched_native: a chunk of days.
RunChunk ==
  /\ Busy
  /\ call.pool # NoPool
  /\ Left > 0
  /\ ~Unsupported
  /\ LET n == Len(records)
         chunk == IF call.pool.size < Left THEN call.pool.size ELSE Left
     IN records' = records \o [i \in 1 .. chunk |->
          Record(call.pool.list, n + i, call.pool.env)]
  /\ ModelAfter
  /\ UNCHANGED <<held, call, calls>>

\* The two finally clauses: a pool of the call's own is closed, the model is
\* put back as it was found.
Restored == IF call.method = Learned THEN call.saved ELSE model

\* Slip: after a failure the model is left as it is.
LeftAlone(at) ==
  /\ call' = [call EXCEPT !.at = at, !.pool.closed = TRUE]
  /\ model' = IF at = "returned" THEN Restored ELSE model
  /\ UNCHANGED <<held, records, calls>>

Leave(at) ==
  /\ call' = [call EXCEPT !.at = at,
                          !.pool.closed = @ \/ call.owned]
  /\ model' = Restored
  /\ UNCHANGED <<held, records, calls>>

Return == Busy /\ Left = 0 /\ Leave("returned")

\* Some day breaks: an error of the kernel, of the policy or of a forecaster.
Break == Busy /\ Left > 0 /\ ~Unsupported /\ Leave("raised")

\* KeyError or AttributeError at the first step of the batched loop, after
\* the first decision.
Fault == Busy /\ Left > 0 /\ Unsupported /\ Leave("unsupported")

ENext ==
  \/ Train \/ KeepPool \/ ClosePool \/ Call
  \/ RunDay \/ RunChunk \/ Return \/ Break \/ Fault

ESpec == EInit /\ [][ENext]_vars

-----------------------------------------------------------------------------
(* Properties *)

\* A call that returns has a record of every day it was given, in order, each
\* run under the settings and the forecaster of this call, also where an
\* earlier call's pool was used again: nothing of another run is left in it.
RecordsWhatWasAsked ==
  call.at = "returned" =>
    records = [i \in DOMAIN call.list |->
                 Record(call.list, i, Environment(call.run, call.forecaster))]

\* However a call ends, also when it breaks on some day, training goes on from
\* the model as the call found it, and a pool that the call made for itself
\* is closed, while the caller's stays as it is.
LeavesNoTrace ==
  [][Busy /\ call'.at # "running" =>
       /\ model' = call.saved
       /\ call.owned => call'.pool.closed
       /\ held' = held]_vars
=============================================================================
