------------------------------- MODULE Accounts -------------------------------
(***************************************************************************)
(* What a day costs and what is reported of it: the costs of a tick, an    *)
(* interval and an episode (src/bus_sim/oracle: costs.py, engine.py), and  *)
(* the metrics computed from the cohorts of a finished day                 *)
(* (src/bus_rl/evaluation/summary.py), over the kernel of module Kernel.   *)
(* One minute of the code is one tick here.                                *)
(***************************************************************************)
EXTENDS Kernel

CONSTANTS
  ExcessAge,    \* 900 s: a wait this long is excessive
  Comfort,      \* 30: a load above this is crowding
  Reward        \* RewardConfig: a weight per kind of cost

VARIABLES
  costs,             \* StepCosts of the running or last interval
  spent,             \* the costs of the finished intervals, added up
  reward,            \* what the environment has rewarded so far
  departures,        \* the departure events
  completedBefore    \* completed when the interval began (no state of the code)

accounts == <<costs, spent, reward, departures, completedBefore>>
avars == <<kvars, accounts>>

-----------------------------------------------------------------------------
(* Costs *)

NoCost ==
  [waiting |-> 0, onboard |-> 0, crowding |-> 0, active |-> 0, deadhead |-> 0,
   fairness |-> 0, first_denied |-> 0, abandoned |-> 0, mission |-> 0,
   unfinished |-> 0]

ASSUME AccountAssumption ==
  /\ {ExcessAge, Comfort} \subseteq Nat
  /\ Reward \in [DOMAIN NoCost -> Int]

\* Slip: the excessive waiting of later ticks is lost.
AddedKeepingFairness(x, y) ==
  [k \in DOMAIN x |-> IF k = "fairness" THEN x[k] ELSE x[k] + y[k]]

\* add_costs
Added(x, y) == [k \in DOMAIN x |-> x[k] + y[k]]

\* interval_cost
IntervalCost(x) == SumFunction([k \in DOMAIN x |-> Reward[k] * x[k]])

Above(x, limit) == IF x > limit THEN x - limit ELSE 0

InPhase(phases) == Cardinality({b \in Bus : bus'[b].phase \in phases})

\* integrate_tick_costs and the events of the tick.  It looks at the state
\* after the dispatcher, with the clock not yet advanced.
TickCosts ==
  [waiting |-> totals'.waiting,
   onboard |-> totals'.onboard,
   crowding |-> SumFunction([b \in Bus |-> Above(load'[b], Comfort)]),
   active |-> InPhase(Phases \ {"DEPOT_IDLE"}),
   deadhead |-> InPhase({"DEADHEAD"}),
   fairness |-> SumFunctionOnSet(waiting',
                                 {c \in Cohort : Age(c) >= ExcessAge}),
   first_denied |-> billed'.denied - billed.denied,
   abandoned |-> billed'.abandoned - billed.abandoned,
   mission |-> 0,
   unfinished |-> billed'.unfinished - billed.unfinished]

\* How a departure event names its pattern: an extra departure by name, one
\* that follows the headway by the number of the pattern.
PatternLabel(v) ==
  IF v.pendingExtra THEN v.pattern ELSE IF v.pattern = "FULL" THEN "0" ELSE "1"

DepartureOf(v) ==
  [time |-> now, route |-> v.route, direction |-> v.direction,
   pattern |-> PatternLabel(v)]

-----------------------------------------------------------------------------
(* The kernel with its accounts *)

AccInit ==
  /\ KInit
  /\ costs = NoCost
  /\ spent = NoCost
  /\ reward = 0
  /\ departures = {}
  /\ completedBefore = completed

\* A mission costs; NOOP and a new headway target do not.
AccDecide ==
  /\ KDecide
  /\ costs' = [NoCost EXCEPT !.mission = IF bus' # bus THEN 1 ELSE 0]
  /\ completedBefore' = completed
  /\ UNCHANGED <<spent, reward, departures>>

\* advance_interval adds up its ticks; the environment turns the interval into
\* a reward, and the evaluator adds the intervals up.
AccTick ==
  /\ KTick
  /\ costs' = Added(costs, TickCosts)
  /\ departures' = departures \cup {DepartureOf(Fleet1[b]) : b \in Leaving(Fleet1)}
  /\ IF ticksLeft = 1
     THEN /\ spent' = Added(spent, costs')
          /\ reward' = reward - IntervalCost(costs')
     ELSE UNCHANGED <<spent, reward>>
  /\ UNCHANGED completedBefore

AccNext == AccDecide \/ AccTick

AccSpec == AccInit /\ [][AccNext]_avars

-----------------------------------------------------------------------------
(* Metrics of an episode: summarize_inputs *)

Ticks == 0 .. Horizon

\* _wait_minutes: the waits of the passengers of c, up to boarding, to leaving,
\* or (for those who still wait) until now.
Waits(c) ==
  IF Arrived(c) THEN [waited[c] EXCEPT ![Age(c)] = @ + waiting[c]]
  ELSE waited[c]

\* The sum of Weight over the passengers with these times.
SumTimes(record, Weight(_)) ==
  SumFunction([w \in Ticks |-> record[w] * Weight(w)])

OverCohorts(Value(_)) == SumFunction([c \in Cohort |-> Value(c)])

TotalWait == OverCohorts(LAMBDA c : SumTimes(Waits(c), LAMBDA w : w))

\* excessive: passengers who waited that long at any time.
Excessive ==
  OverCohorts(LAMBDA c :
    SumTimes(Waits(c), LAMBDA w : IF w >= ExcessAge THEN 1 ELSE 0))

UniqueDenied ==
  branded + SumFunctionOnSet(waiting, {c \in Cohort : denied[c]})

-----------------------------------------------------------------------------
(* Properties *)

\* Costs up to the last tick.
Owed == IF ticksLeft = 0 THEN spent ELSE Added(spent, costs)

RidingTime ==
  OverCohorts(LAMBDA c : SumTimes(rode[c], LAMBDA w : w)
    + SumFunction([b \in Bus |-> aboard[b][c] * (now - boardedAt[b][c])]))

\* The passenger minutes that the ticks integrate from the cached counters are
\* the minutes the passengers of the cohort table waited and rode, whoever
\* boards, leaves or is split in between, and the excessive ones are those
\* beyond the excess age: costs and metrics of a day speak of the same waits.
TimeIsBilled ==
  /\ Owed.waiting = TotalWait
  /\ Owed.onboard = RidingTime
  /\ Owed.fairness = OverCohorts(LAMBDA c :
       SumTimes(Waits(c), LAMBDA w : Above(w, ExcessAge)))
  /\ (Owed.fairness > 0) => Excessive > 0

\* Nobody is counted as denied twice or forgotten when a cohort is split: the
\* denials that were billed are the passengers that carry the mark.
DeniedOnce == Owed.first_denied = UniqueDenied

\* The rewards of an episode are its cost: the cost of the sum of the intervals
\* is the sum of their costs, no event falls between two intervals, and every
\* passenger of the day is accounted for exactly once: completed, billed as
\* abandoned or, when the episode is settled, billed as unfinished.
RewardIsCost ==
  /\ ticksLeft = 0 => reward = -IntervalCost(spent)
  /\ Owed.first_denied = billed.denied
  /\ Owed.abandoned = totals.abandoned
  /\ Owed.unfinished = IF settled THEN totals.generated - totals.completed
                                         - totals.abandoned ELSE 0
  /\ settled = (now = Horizon)
=============================================================================
