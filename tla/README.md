# A TLA+ model of bus-rl

bus-rl simulates the bus lines of a campus and trains controllers that move the
buses between them.  This directory holds TLA+ modules for the parts of it in
which order matters, the TLC configurations that check them on small instances,
and proofs, checked by TLAPS, of what holds for every instance.

Paths below are relative to `src/`; `core/` stands for
`crates/bus-sim-core/src/`.

## The system

| component | state | operations | model |
|---|---|---|---|
| vehicles, dispatcher, guards (`core/vehicles.rs`, `dispatcher.rs`, `guards.rs`, `actions.rs`, `travel.rs`) | a record per bus; headway targets; two departure clocks per terminal | six decisions with their masks; phase completion; departures | `Fleet` |
| passengers (`core/passengers.rs`) | cohorts waiting, on buses, finished | arrive, board, alight, deny, abandon | `Kernel` |
| engine, counters, costs (`core/engine.rs`, `domain.rs`, `costs.rs`) | the clock, running counters, event log, costs of the interval | one tick; one control interval; settlement at the horizon | `Fleet`, `Kernel`, `Accounts` |
| observations (`core/observation.rs`) | the ring of finished cohorts, pushed and pruned by the tick | project the state to tensors | `Observation` |
| Python oracle (`src/bus_sim/oracle`) | as the kernel | the reference the kernel was ported from | the same modules as the kernel |
| Python bridge (`crates/bus-sim-python`) | kernels, batch kernels with slots and masks, a poison flag | reset, step, masks | `BatchKernel` |
| scenarios (`src/bus_rl/execution/scenarios`, `rust/bridge.py`) | files of a dataset, packed stores, a cache of them | generate, save, load, pack, share | `Dataset` |
| environments (`src/bus_rl/execution/environments`, `learning/shaping.py`) | slots, arrival memory, previous potentials | execute requests, reset, step, auto-reset, shape rewards | `Environment`, `VecEnv`, `Shaping` |
| controllers (`src/bus_rl/learning/baselines`, `src/bus_sim/parity`) | none between decisions | choose an action from observation and mask | `Controllers` |
| evaluation (`src/bus_rl/evaluation`) | pools, slots, records per day, the mode of the model | evaluate days, one by one or in batches; summarise a day | `Evaluator`, `Evaluation`, `Accounts` |
| training (`src/bus_rl/learning/training`) | steps, updates, best score, history, files | roll out, update, validate, record, save | `Training` |
| experiments, artifacts (`src/bus_rl/experiments.py`, `artifacts.py`) | protocol, status, directories per stage, an exported tree | run, resume, train in processes, evaluate, report, export | `Experiment` |
| configuration (`src/bus_rl/config.py`, `cli.py`) | none | layer files and flags, refuse combinations | `Evaluator` |
| station service (`src/bus_rl/station/service.py`) | sessions, locks | create, read, step, delete, evict, close | `Station`, `Sessions` |
| station presentation (`station/fleet.py`, `passengers.py`, `departures.py`) | none | show buses, queues, reserve, clocks | `Dashboard` |
| policy networks, forecasters, reports, plots, web client | | | not modelled |

**How they interact.**  A dataset of days is generated once, written to files and
packed into the kernel by every process that runs days.  A controller chooses one
of 221 actions under a mask that the kernel computed for the state it last
returned.  The kernel applies the action at a control boundary, then runs the
ticks of one interval.  Environments wrap one kernel or a batch of them;
training, evaluation and the station service drive environments.  Training calls
evaluation on the model it is training.  An experiment starts trainings as
processes, several at a time, and then evaluates and reports; it may be
interrupted and resumed.  In the station service each request runs on a thread of
the web server's pool, and sessions are shared through a dictionary with a lock
and a lock per session.  Within a process everything else is sequential, and hard
because of *long sequences* of legal calls, of *order inside a tick*, of *errors
halfway through a batch*, and of *state that outlives the call it was made for*
(pools, caches, memories, files).

**What must be right.** Fleet: no sequence of legal decisions starves a route,
strands a bus or trips an assertion. Passengers: nobody is lost, duplicated,
carried past the stop or overtaken; counters, costs, rewards, observations and
the dashboard agree with the people. Batches: no day is stepped after its end or
after an error in it, and what a controller sees, its mask and its memory are of
the state it acts on. Evaluation: every day is evaluated once, on its own tapes,
under the settings asked for. Training: the best model is the best. Experiments:
what is complete stays so, is of one version of the code, and gets done. Station:
the limit holds, a session is used by one request at a time and
never after it was closed, and every request is answered. `PROJECT.json` lists the hazards
line by line.

## Modules

`Fleet.tla` (extended by `MCFleet`, proofs in `FleetProofs`).  State: `bus` is the
vector of `Vehicle` records (`at`, `next`, `turn` are stop indices instead of node
ids), `load` the cached passenger count, `headway`, `changedAt`, `lastAny`,
`lastFull` the four maps of `WorldState`.  One unit of time is a tick.  Actions:
`Noop`, `Dispatch`, `Recall`, `Reassign`, `ShortTurn`, `SetHeadway` are
`apply_action` under the mask of `valid_action_mask`; each starts an interval,
and `Tick` is `advance_tick`: expired phases (`Completed`), departures (`Due`,
`Departing`), edges entered, clocks, timers.  Within a tick a bus reads nothing
another bus changes before the dispatcher runs, so completing the phases of all
buses at once is what the loop over buses does.  Passengers appear only as the
loads that a visit can leave (`VisitLoads`); travel times are any in `EdgeTimes`.

The Rust kernel is a port of the Python oracle, and `Fleet`, `Kernel`,
`Accounts` and `Observation` are models of both.  Their definitions are mapped to
the oracle's lines, where each is a named function; where the two differ (a
panic of the traced interval, `TickSafe`; the ring of finished cohorts) the model
follows Rust and is mapped to it.

`Kernel.tla` composes `Fleet` with the passengers.  A
lineage is a cohort of the tape with all the parts it is split into; `waiting`,
`aboard`, `completed`, `abandoned` count its passengers by place, and lineages
are numbered in tape order, which is the boarding order (`arrival_tick`, then
`cohort_id`; `split_for_boarding` and `restore` keep the order).  `RidersAfter`
takes the steps of a tick in the engine's order: visits of all buses by id
(`VisitInTurn`), arrivals, abandonment, terminal boarding by id (`BoardIdleInTurn`).
`totals` are the cached counters.  `recentFinished` is the ring an observation
reads in place of all that ever finished: alighting and abandonment push the cohorts
that are done (`Finished`), in the order of the loops, and the end of the tick
prunes it (`Pruned`) at its front only, so that an entry which is still `Needed`
keeps those behind it, needed or not.  The property
`FleetSpec` says that the kernel implements `Fleet`'s specification, with the
real loads and the travel times of the tape.

`Accounts.tla` extends `Kernel` with what is computed from its states: the costs of
a tick and of an interval (`TickCosts`, `IntervalCost`), the departure
events (`DepartureOf`) and the waits of a finished day (`TotalWait`).  Floating point becomes integers: costs are counted in ticks and weights are multiplied by
four.  The proofs are in `KernelProofs` and `AccountsProofs`.  `Observation.tla` projects a state
as the native observation does (`Observed`), from the live cohorts and the ring (`Seen`); the oracle scans every
cohort ever made instead, so that `ObservationIsTrue` and its proof also say that
the two agree on the history; `Controllers.tla` is the choice each controller makes from it
(`Threshold`, `Proportional`, `Coverage`, ...), and `Dashboard.tla` is the snapshot
the station shows.  The three are functions of the state without actions, so they
are checked on every state the kernel reaches under *any* decisions; `MCKernel`
extends the last of the chain.

`BatchKernel.tla` models the bridge's `BatchKernel`: slots,
cached masks, validation, `poisoned`.  A day is the number of its intervals that
have been run; what its state allows is any set of actions with NOOP, chosen at
each step, so that a mask kept too long is seen.  `StepUpTo` is a step that fails
in a slot: the slots before it have advanced, it is `torn`.  The modules below are
its callers in the repository.

`Environment.tla` holds what they share: `execute_requests`, `ArrivalMemory` (the
variable `memory`) and the observations (which state, which memory, with or without
a forecast).  `VecEnv.tla` (proofs in `EnvironmentProofs`) is
`NativeBatchVecEnv`: `EnvReset`, and `step_wait` as `StepWait` or, when the
kernel raises, `StepFails`; `Shaping.tla` (extended by `MCVecEnv`) wraps it as
`PotentialShapingVecEnv` does.  `Evaluation.tla` (extended by `MCEvaluation`) is
`_evaluate_batched_native` on a `NativeBatchEvalPool` that outlives an
evaluation, as the pool of the validation callback does: chunks, the slots of a
chunk (`slots`), the arrays a step returns (`row`, a row per active slot),
records.

`Station.tla` (extended by `MCStation`) models `SimulationService` under
concurrent requests.  `call[t]` says where thread `t` is; an action is what a
thread does between two points where another can run.  The list lock is
`listLock`, the lock of session `i` is `owner[i]`; lookups take neither.
`Sessions.tla` is the abstract service, and `ImplementsSessions` the refinement.
`_close` takes a session's lock, sets the flag and gives the lock back without
waiting in between, so it is one action with the lock as a guard.

`Evaluator.tla` (extended by `MCEvaluator`) is a call of `evaluate_scenarios` from
outside: which settings become a run (`Runs`, from `FromFile` and `WithFlags`),
which calls are refused (`Refused`), on which environments a day runs (`Pool`,
`PoolKey`, `Environment`), what is recorded and what is restored.  `held` is the pool
a validation callback keeps between calls.  Where `Evaluation` opens a chunk, it
runs it in one action.

`Dataset.tla` (extended by `MCDataset`) follows the tapes: drawn from seeds, cast to
int8, hashed, written file by file with the manifest last (`Save`, `Kill`), damaged
(`Damage`), loaded with or without tapes (`LoadSplit`), packed and shared through
the cache of stores (`ShareStore`), for the whole split, its first days or a single
one (`Selections`).  A tape is one cell over time.

`Training.tla` is `train_run` with its callbacks: rollouts of `EffectiveSteps` steps,
updates, validations as the two timings schedule them, the history, the files.
`Experiment.tla` (extended by `MCExperiment`, proofs in `ExperimentProofs`) runs
several of them as processes that survive the run that started them; `driver` is
the process of `run_experiment`, `stage` the directories of evaluations and
reports, `source` and `protocol` the versions of code and data on disk and in
the frozen plan.

## Runs

| run | question | bounds |
|---|---|---|
| `fleet` | five properties of the fleet under any decisions | 5 buses: three and a reserve for route 1, one for route 2; 3 stops, 4 intervals of 2 ticks |
| `kernel` | twelve properties of passengers, costs, rewards, observations, controllers and the dashboard | 5 buses, one of them at the depot, 2 days of 5 and 6 cohorts, 5 intervals, capacity 2 |
| `vecenv` | what a step runs, what the policy sees, what survives an automatic reset, what shaping adds | 2 slots, 2 days of 2 and 3 intervals, memory of 2 bins, an error in any step |
| `evaluation` | records of every day, across failures; every evaluation ends | 4 days of 1 to 3 intervals on 3 slots, 2 evaluations |
| `evaluator` | records of the run that was asked for, on kept pools; nothing left behind by a failure | 9 files by 3 sets of flags, 2 lists of days, a forecaster, 2 calls |
| `dataset` | what is listed can be loaded; the kernel runs on its own tapes | 3 days of 4 ticks, 2 splits, one kill or damaged file, a cache of 2 stores |
| `experiment` | the best model, whole episodes; resumption, one plan, complete evidence, completion | 2 trainings of 6 steps, 1 split, 2 workers, 2 faults |
| `station` | exclusion, failures, refinement (limit, no way back for a removed or closed session); every request is answered, removed sessions are closed | 3 threads with 4 requests between them, 3 sessions, limit 2, 2 decisions a call |
| `kernel_settlement` | violation: events due at the horizon | as `kernel` |
| `training_selection` | violation: the model kept as the best is an untrained one | as `experiment`, without faults |
| `station_eviction` | violation: an evicted session was in use | 3 threads, limit 1 |
| `evaluation_forecast` | violation: only the first observation of a day has a forecast | as `evaluation` |

*Why the bounds are enough.* Times are scaled, a tick to one unit, keeping the
order of the constants that meet in a guard: deadhead (360 s) > spacing (120 s)
= interval, cooldown (1200 s) longer than a deadhead and the wait for an extra
departure, guard gap (1200 s) longer than a headway. In `fleet`, route 1 has three
buses, one above its floor, at the first stop, and the bus of the highest id in
reserve: several buses then wait there for an extra departure, those of smaller id go
before the one that came first, and a bus that waits is recalled, or lent to the other
route, once its cooldown is over. In `kernel` the other route is at its floor of two,
a borrowed bus can return, and one bus starts at the depot, so that controllers meet a
reserve. The horizons are long enough for a
dispatch or a short turn to finish, its bus to be eligible again, and for the
donor guard to be asked with a bus on its way. `HistoryLags` is three (five in the
code), so that within a day entries of the ring outlive the lags, are pruned, and
are kept behind a needed one. All five kinds of decision occur
(TLC's coverage shows every action taken). The days of `MCDays` contain a crowd
larger than a bus, trips within and beyond a turning point, both directions,
arrivals whose patience ends before the horizon, and travel times that differ by
edge and bucket, so that overtaking and denied boarding happen. In `evaluation`
slots end in another order than they are numbered, so that rows and slots
differ, and the last chunk is short; in both batch runs a memory of two bins is
shorter than the longest day. In `evaluator` each file differs from the base in a
setting that a pool's key or a refusal must notice, and two calls are what it
takes for the second to meet the pool of the first. In `dataset` the demands and
bursts are chosen on both sides of 127, and a third set of days pushes the first
out of a cache of two (four in the code). In `experiment` one policy's rollout is no
multiple of an episode, the other's budget no multiple of its rollout, and two
faults allow a kill of the run followed by the death of a training it orphaned.
For the station, three threads are two that race and a third that changes the
list between them; a limit of two leaves a session untouched while another one is
evicted, and a call of two decisions can be waited for, or fail, in its middle.
Session ids are given out in order, which loses nothing, since nothing compares
them.

Runs state `CHECK_DEADLOCK FALSE` because the systems stop: an episode at its
horizon, the service when `Requests` are used up, the evaluators when nobody asks,
a dataset that could not be generated.  `MaxClock`, `Requests` and the finite `Id`
are bounds of the model and named so in `Station`, as are `Evaluations` in
`Evaluation`, `Calls` in `Evaluator`, `Faults` in `Dataset` and `MaxFaults` in
`Experiment`; nothing else is capped.

*Fairness.*  `evaluation` assumes weak fairness of `Run`: once called, the
evaluation is a sequential loop that nothing interrupts; nobody has to call it.
`station` assumes weak fairness of each thread's
`Serve`, that is, a thread with a request keeps being scheduled and a lock that
stays free is obtained.  No request needs to arrive, and since requests are
finitely many a thread cannot lose a lock forever.  The code has no timeouts, so
nothing else is needed.  `experiment` assumes weak fairness of the driver and of each
training, which are processes the operating system runs, and three things of the
operator: a run that has ended is started again (`Launch`), a directory that the
code refuses is cleared away (`Clear`, strongly, since another run may be on when
he looks), and an output that was frozen on other code is given up for a fresh one
(`StartOver`), as the error message asks.  Faults are bounded: `Completes` says
that the run gets done once they stop.  The operator edits only while no run is on
and starts one at a time; the code enforces neither.

## What the checks show

* Fleet: `NeverPanics`, `IdleBusCanLeave`, `RouteKeepsTwo` and `ExtrasKeepLeaving`
  hold.  The last one says of all the buses that wait at a terminal for an extra
  departure that one of them leaves per spacing. No single one is promised anything:
  those of smaller id go first (`dispatcher.rs:109`), however late they
  came, and the donor guard does not look at `pending_extra`, so that a bus can
  be recalled while it waits.
* Kernel: `CountersMatch`, `RidersAhead`, `FirstComeFirstServed`, `DeniedOnce` and
  `FleetSpec` hold.  The costs agree with the passengers and buses they are about
  (`TimeIsBilled`), the rewards of a day add up to its summary (`RewardIsCost`),
  and the observation, from the live cohorts and the pruned ring, shows each passenger
  once (`ObservationIsTrue`).  The controllers keep what they promise on every state the
  kernel can reach (`ReserveGoesFirst`, `DonorsKeepTheirFleet`), and the dashboard
  adds up (`DashboardAddsUp`, `NoAlarmAtTheTurn`).
* Station: `NeverRunsClosed`, the refinement of `Sessions` (limit, single close, days
  that only advance) and both liveness properties hold, also when a controller,
  the kernel or the making of an environment raises.
* Batches: `StepsOnlyLiveDays`, `DecidesOnTheState`, `TornIsNotStepped` and
  `TerminalOfItsDay` hold of the training environment, and `ShapingTelescopes` of
  its shaped rewards; `RecordsEachDayItself`, `StepsItsOwnDays` and
  `EvaluationEnds` hold of the evaluator, although the pool may be left poisoned
  and with old memories by an evaluation that failed.
* Evaluator: `RecordsWhatWasAsked` and `LeavesNoTrace` hold for every run the
  configuration accepts.  `EvalEnvPool.refresh` makes a pool of its own class also
  when the new run asks for the native one (`Refreshed`); the call would then fail,
  but no caller in the repository changes the run between calls.
* Dataset: `WhatIsListedLoads` and `RunsOnItsOwnTapes` hold.  The hash that the
  manifest lists for a scenario is not compared with the one in its directory, so a
  scenario replaced by another complete one would load; `Damage` changes tapes and
  cuts files, and does not swap directories.
* Training and experiment: `KeepsTheBest`, `WholeEpisodes`, `EvaluatesOnlyFinished`,
  `FrozenPlan`, `CompletedIsKept`, `ExportsEverything` and `Completes` hold under the
  assumptions on the operator above.  `KeepsTheBest` claims a trained policy with
  `post_update` timing only.
* Four disagreements, each with its run: completions and abandonments due exactly
  at the horizon are billed as unfinished (`kernel_settlement`); eviction can hit a
  session that has just been used or is being stepped (`station_eviction`); the
  evaluation pool adds the forecast on `reset` but not on `step`
  (`evaluation_forecast`); and, although README.md:124, `train.py:229` and
  `experiments.py:142` promise the lowest *post-training* cost with step zero as a
  reference only, `best.zip` may be the untrained policy (`training_selection`).  With
  `legacy_step`, the default (`config.py:27`), a validation that becomes due inside a
  rollout comes before its update (`callbacks.py:55`), so the first one that counts
  repeats that of step zero if `eval_freq` is no longer than a rollout.  With
  `post_update`, as in the registered studies, it cannot happen.
* Known, without a run:
  - the headway metrics count only extra departures: `oracle/dispatcher.py` records
    the name of the pattern for those (`:121`) and its number for scheduled ones
    (`:149`), the bridge does the same (`lib.rs:317`, `:686`), and `summary.py:163`
    filters by the name, although `docs/spec/spec_v1.0.md:134` asks for actual
    headways: `PatternLabel` of `Accounts` names them so, and the metrics themselves
    are not modelled;
  - a horizon that is not a multiple of the control interval passes validation
    (`core/domain.rs:109`) and then panics: `NeverPanics` needs the hypothesis of
    `AlignedNeverPanics`, and fails with `Horizon = 5` in `MCFleet.cfg`;
  - intermediate boarding precedes abandonment although the specification orders
    them the other way (`docs/spec/spec_v1.0.md:102`);
  - the poison of a batch kernel is cleared by a reset of any slot (`lib.rs:943`,
    against `lib.rs:731`), which no caller here meets, since all reset every slot
    they use;
  - the Python backend with `eval_batch_size > 1` passes `validate_eval_runtime`
    (`runner.py:118`) and dies at the first step, on `info["action_execution"]`
    (`runner.py:316`), which the oracle's environment does not return: `Fault` in
    `Evaluator`;
  - `_fleet` asks for two assigned buses per route and places three
    (`generation.py:20`, `:24`): nine buses on three routes are accepted, and
    the last route gets none;
  - `apply_control` (`runner.py:597`), which nothing calls, drops the settings of
    `action_execution` and `shaping`;
  - a bus waiting idle boards in every tick although the specification calls an
    idle bus empty (D2 in
    `reports/archive/infrastructure/rust-migration/README.md`);
  - the training environment takes the terminal observation before the forecast is
    added (`rust/batch.py:241`).

## What is proved

`FleetProofs.tla`, for every set of buses and routes, any number of stops, any
timing that satisfies the three assumptions of `Fleet`:

* `Invariance`: `Inv == TypeOK /\ MissionsMakeSense` is inductive.  `TypeOK` alone is not:
  whether a bus may enter the next edge depends on where the phase before left
  it.  `MissionInv` says, phase by phase, how position, direction, pattern and
  mission fit together, e.g. that layover and idling happen only at the ends of
  the pattern, facing inward, and that a moving bus is bound for a stop of its
  pattern.  One lemma per phase (`EndDeadheadGood`, `EndEdgeGood`,
  `EndLayoverGood`, `EnterEdgeGood`, ...), one per decision group, then the step.
* `TypeCorrect`, `IdleBusesCanLeave`: consequences of `Inv`.
* `ExtrasAreServed` (`ExtrasKeepLeaving`): a bus that waits idle with an extra
  departure after a tick was seen by the dispatcher in that tick, at that terminal
  (`WaitingWasSeen`, from where `MissionInv` lets a bus idle), and when extras are seen
  and the spacing has passed, the one of the smallest id leaves (`ExtrasLeave`).
* `AlignedNeverPanics`: with `Horizon = m * Interval`, `NeverPanics`.  It adds the
  invariant that the clock at a boundary is a multiple of the interval
  (`NextOnGrid`); without the hypothesis TLC refutes it.
* `RoutesKeepTwo`: the floor of the donor guard.  A decision removes at most one
  bus from `FullCommitted`, and only above the floor; no tick removes any.

The assumptions of `Fleet` name what construction guarantees: a home stop is an end of the
route, a turning point is not the first stop (`generation.py`; `Scenario::validate`
does not check it), edges take at least a tick.

`KernelProofs.tla`, for every fleet, network and timing, any number of days with any
demand and travel times that `ValidDay` admits:

* `KInvariance`: `KInv` is inductive.  Besides `Inv` of the fleet it says, in named
  parts, where every passenger can be.  `Counted`: of each cohort, those waiting,
  aboard, completed and abandoned make up its demand once it has come, and every
  counter of `totals` and every bus's `load` is the sum it stands for.  `RidersOn`:
  who is aboard goes with the bus's route, direction and pattern to a stop that is
  still ahead; a bus in the depot, a deadheading or a laid-over one is empty.
  `OnceAboard`: a cohort boards a bus at one time only (while some of it are aboard
  and others wait where the bus stands, the bus is full), so that one boarding time
  per bus and cohort is enough.  `BoardedBefore`: nobody boards in the future.  `Booked`,
  `SettledOnce`: what has been billed is what the passengers' marks and places show.  `CountersMatch` alone is not inductive: that an alighting
  leaves no one behind who is past his stop needs `RidersOn`, and that a counter
  moves by what the table moves needs `Counted` cohort by cohort.
* The proof goes operation by operation (`BoardStep`, `AlightStep`, `ArriveStep`,
  `AbandonStep`), then bus after bus in turn (`VisitsEnd`, `IdlesEnd`: induction over
  the buses already served), then the tick (`RidersServed`, `TickServes`), then the
  step.  The hardest part is `Visited`: halfway through the loop over buses, those
  served fit the new position of their bus and the others still the old one.
* `CountersAlwaysMatch`, `NobodyCarriedPast` (`RidersAhead`): consequences of `KInv`.
* `ServedInTurn` (`FirstComeFirstServed`): `InOrder` is carried through the loop of a
  tick, since several buses may serve one queue in it; it rests on
  `TakenInOrder`, that a bus takes from the front of its line.
* `FleetRefined` (`FleetSpec`): every step is one of the fleet's. What it needs is that
  the loads left by real passengers are among `VisitLoads`, and that the travel time a
  day gives an edge is in `EdgeTimes`.

`AccountsProofs.tla`, on top of it:

* `AccInvariance`: `AccInv` is inductive. `Ringed` says what the ring holds: of every
  cohort that arrived within the lags all who are done, and everyone who completed in
  this interval, each once. A push adds just what the tables gain, and a prune drops
  nothing that is still needed, wherever it stops (`PruneKeeps`). `Paid` ties the ledgers to the passengers,
  event by event, and `InTime` the minutes integrated tick by tick to those each
  passenger has waited and ridden. The latter needs an account per cohort and waiting
  time (`WaitOf`, `RideOf`): a tick adds a minute to everyone who waits, and boarding
  moves the minutes from those waiting to those who waited (`WaitsMoved`).
* `RewardsAreCosts` (`RewardIsCost`), `DeniedOnlyOnce` (`DeniedOnce`), `TimeAlwaysBilled`
  (`TimeIsBilled`): what is billed is what happened, the terminal settlement included.
* `SeesTheDay` (`ObservationIsTrue`): the bins of the history are the tape's demand and the
  completions those of the interval, by `Ringed`, although the ring has forgotten the
  rest; and the phases of the buses, as they are observed, partition the fleet.
* `QuietAtTheTurn` (`NoAlarmAtTheTurn`): only terminals have departure clocks and
  alarms, and the clocks are of departures that took place or of the seeds.
* `ReserveFirst` (`ReserveGoesFirst`): where there is a crowd, the list of actions that the
  threshold controller tries opens with those of the idle buses of the depot (`Opens`),
  the bus that can be dispatched is one of them, and the first action of a list that is
  not masked lies in the opening if one of the opening is not masked
  (`FirstOfOpening`). That a list ordered by a key holds every element, each once
  (`KeyedListed`), rests on `Ranks`: in a strict total order of a finite set the places
  are the numbers from 1 to its size, a pigeonhole argument.
* `DonorsKeep` (`DonorsKeepTheirFleet`): the shares by largest remainder are exactly the
  budget (`BudgetGivenOut`): the shares rounded down are at most what there is to give,
  fall short of it by less than the number of routes, and the missing ones go to the
  first of the routes in the order of their remainders, of which there are as many
  (`FirstAre`). `ProportionalIs` says which actions are tried, donors of routes in
  surplus only; that a donor's route keeps two buses is the guard's. `FlattenHolds` and
  `FamilyHolds` say that every action of the six families is in a list, so that what a
  controller names could have been drawn by the random one. `BudgetAssumption` is what the
  constants of the controllers satisfy: the quiet budget covers the floors, routes are
  numbers, the headways and the cycle are natural numbers.
* `DashboardIsTrue` (`DashboardAddsUp`): the queues of the stops and the loads of the buses
  add up to the counters, because a sum over a set is the sum of the sums over its parts
  (`SumParts`) or over a list that holds each element once (`SumListed`). The groups of
  buses, flattened, and the reserve after them are such a list of the fleet
  (`FlattenLists`, `ListsJoined`). A bus of no route is empty, and nothing comes before
  the first of the reserve in the order of its keys (`RankedListed`), so that the first can
  leave if any can. Where on its edge a moving bus is rests on an invariant of its own,
  `EdgesInv`: there is a tick up to now from which the tape's duration ends when the bus is
  due.

The sums over passengers and buses of these modules are folds of the community
modules, which are recursive functions chosen by `CHOOSE`. `KernelProofs` proves that
the function exists (`SumsExist`) and what it computes (`SumRecursion`, `SumSplit`,
`SumChange`, `SumDivide`, ...). The two principles of induction, `NatInductionOn` (in
`FleetProofs`) and `SetInductionOn`, take the set of the numbers, or of the sets, that have the
property, in place of the operator that the library's take; they follow from the
well-ordering of the naturals. The loops over the buses (`VisitsExist`, `IdlesExist`)
are treated in the same way.

The assumptions are those of the fleet, of which `RouteAssumption` says that there are
finitely many routes and `TimeAssumption` that the initial age of the clocks is not zero,
and three more. `DayAssumption`: a day's cohorts are ordered by their ticks and travel to
a stop that is further on in their direction, and its traffic gives every edge and
bucket a time (`ValidDay`, from `Scenario::validate` and `generation.py`). `DemandAssumption`: times are
numbers and there is a bucket. `AccountAssumption`: ages are numbers and weights integers.

`EnvironmentProofs.tla`, for any number of slots, days of any length, any actions and any
length of the memory, under the assumptions of `BatchKernel` and `Environment`:
`EnvInvariance` proves `EnvInv` inductive, and the four properties of the run
`vecenv` follow from it and from the steps (`NeverStepsAFinishedDay`,
`ObservesTheState`, `NeverStepsATornDay`, `TerminalsOfTheirDays`).  Each of the four
needs the others: a step is safe because every slot was ready before it
(`Ready`), which the automatic reset restores only for the days that end
exactly now, and the memory is right (`Remembers`) because the last one was
(`PushHistory`).  After a failed step nothing is claimed but the poison, and a
reset of all slots re-establishes everything (`FullReset`).
`ShapingAddsAConstant` (`ShapingTelescopes`) holds for any potential and discount:
`ShapedInv` says that the potential carried on is that of the observation, also after a
reset, and what has been added so far is the weighted potential shown now less that
of the first state.

The same module treats the evaluator, on the same lemmas and the assumptions of
`Evaluation`, for any number of days of any length, slots and evaluations:

* `EvaluationInvariance`: `EvaluationInv` is inductive. `GoodSlot` ties a slot of the
  chunk to day `offset + s` and all that the runner keeps for it to the intervals
  that day has run. A step returns a row per active slot, and `NthOfRank` (a later
  slot has a higher rank) shows that `enumerate` gives each slot its own row
  whichever slots are done; `ChunkDays`, from the cardinality of an interval,
  that the next chunk begins where this one ends, a short last one included.
* `EveryDayItself` (`RecordsEachDayItself`) and `OwnDaysOnly` (`StepsItsOwnDays`).

`StationProofs.tla`, for any number of request threads, sessions, any limits, timeouts
and lengths of a day (the bounds `Requests` and `MaxClock` included, which may be as
large as one likes):

* `Invariance`: `Inv` is inductive. `GoodCall` says what a thread relies on at each
  point of its request: at `dropped` and `closing` that the sessions it closes have
  left the list, at `running` that it holds the lock of an open session and, if
  decisions are left, that the day is not over. The step of thread `t` is proved
  for `t` alone; `OthersKeep` is what all steps have in common, namely what the other
  threads may rely on: a session stays made, is never listed again, and is left
  alone while another thread holds its lock.
* `NobodyClosesARunningSession`: `NeverRunsClosed`, a consequence of `Inv`.
* `Refinement`: `ImplementsSessions`. Every step is one of `Sessions` or a stutter; closing
  a session a second time would be one too, so the proof need not exclude it.

The one assumption of `StationProofs` about ids is that they are numbers, so that a loop over
sessions has a next one (`FirstIsOneOf`, from the well-ordering of `Nat`).

`EvaluatorProofs.tla`, for any lists of days, settings, forecasters and number of calls:

* `EvalInvariance`: `EvalInv` is inductive. `GoodPool` says that a pool, whether it is
  kept by a callback, handed on after it was closed, or made for the call, has the
  environments its key was made from; `KeyDetermines` that two runs with the same
  key have the same environments, which is what `PoolKeyWithoutControl` breaks;
  `DaysKeepInv` that a chunk of any size extends the records by the days that are
  next (`RecordsExtend`).
* `EveryDayAsAsked` (`RecordsWhatWasAsked`) and `CallsLeaveNoTrace` (`LeavesNoTrace`)
  follow from it and from `LeaveFields`, what the two `finally` clauses put back.

They rest on `EvaluatorAssumption`: lists of days are sequences and not empty, and the
size of a batch is a number.

`DatasetProofs.tla`, for any number of days, demand, bursts, damage and size of the cache:

* `DatasetInvariance`: `DataInv` is inductive. Nothing is written before every count
  was found to fit (`AllFit`), so that what int8 gives back is what was drawn
  (`NarrowKeeps`, `TapeIsDrawn`); metadata on disk are what was generated, so that a
  day that loads is that day (`LoadedIsGood`); the manifest comes last; and an entry
  of the cache is the store of the days and switches its key names (`KeySaysStore`).
* `TapesAreTheirOwn` (`RunsOnItsOwnTapes`) and `ListedDaysLoad` (`WhatIsListedLoads`)
  follow from it. SHA-256 is injective by the definition of `Digest`.

`ExperimentProofs.tla`, for any policies, seeds and splits, any algorithm settings, number
of workers and of faults:

* `ExperimentInvariance`: `ExperimentInv` is inductive. `Sound` says of each training
  how its steps are made up of rollouts (`Advanced`), that its best policy is the
  earliest of lowest cost in its history (`Judged`; `JudgedOnce` shows that an
  eligible row keeps this so), and what its directory holds at each point of its
  writing. `PlanInv` says that without a protocol there is nothing, and that with one
  everything was made by its version; `DriverInv` that a run past its preparation
  works on that version, and writes no stage that is complete. A step of a training
  is proved as such (`Moves`) and then for the whole (`MovesPreserve`).
* `OnePlan` (`FrozenPlan`), `NothingIsRewritten` (`CompletedIsKept`): from the
  invariant and from what every step keeps (`Preserves`). The directory made without
  `exist_ok` carries both: a process that is past it has `metadata.json` to itself.
* `BestOfAll` (`KeepsTheBest`; `OnlyTrained`: with `post_update` timing no untrained
  policy is ever eligible), and `OnlyWholeDays` (`WholeEpisodes`): a rollout of
  REINFORCE is a number of days (`RolloutOfDays`), so the steps done are whole days
  exactly when the day of every environment ends (`DaysGoOn`).

* `EvidenceInvariance`: `EvidenceInv` is inductive on top of `ExperimentInv`. Of a run
  that trains it says that every job is complete or among the tasks, and that a task
  which was started and not lost to another process is complete once its process ends
  well (`TasksInv`); of one that evaluates, that every training and every stage before
  the one at hand is complete (`PassedInv`) and that the weights it holds are those
  `metadata.json` names (`HeldInv`); of `status.json` and of an exported tree that what
  they call complete is (`StatusInv`). `TestsComeLast` (`EvaluatesOnlyFinished`) and
  `ExportIsWhole` (`ExportsEverything`) follow. A kill, a resumed run or a cleared
  directory never undoes what is complete (`CarriesOn`, from `CompletedIsKept`).
* The order of the stages is a lemma about every matrix (`StagesInOrder`): the
  evaluations of a policy and the baselines come before its report. It rests on
  `FlattenBlocks`, what `FlattenSeq` of the community modules returns, which is proved
  by induction over the set of the numbers with the property (`NatInductionOn`).

They rest on `CostAssumption` (costs are numbers below `Infinity`),
`AlgorithmAssumption` and `ExperimentAssumption` (policies, seeds and splits are lists).

Only model-checked: liveness (`EverybodyAnswered`, `RemovedGetClosed`, `EvaluationEnds`,
`Completes`), which is beyond this prover.

## Not modelled

Policy networks and their gradients, forecasters (any function), the seeded choice
of days, the random generator (any demand), the layout and wording of reports,
plots and explanations, `report_views.py`, `report_plots.py`,
`scripts/build_study_report.py`, bootstrap intervals, timing (`diagnose.py`,
`TIMERS`), the content of the training diagnostics, the web client.  Floating
point: scaling and float32 of observations, and the exact numbers of costs; the discount
of the shaping is an integer.  The version of code and configuration that a training
runs on is fixed when its process is started, a little before the process reads them.
An export does not run beside a resumed run.
Crashes of the station (sessions live in memory only).  In the station, requests
refused before they reach a session (unknown controller, split, day, too many
decisions).  `_close` of the environment does nothing for the native kernel, so an
environment is "closed" once the flag is set; the first snapshot of a new session
is taken without its lock, and nobody but an eviction after a full idle time could
close it meanwhile.

## Plan

1. Done: all modules above, `FleetProofs`, `KernelProofs`, `AccountsProofs`,
   `EnvironmentProofs`, `StationProofs`, `EvaluatorProofs`, `DatasetProofs`,
   `ExperimentProofs`.
2. The station's choice of explanations and the surge of a burst day.
