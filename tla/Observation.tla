------------------------------ MODULE Observation ------------------------------
(***************************************************************************)
(* What a controller sees at a control boundary: the tensors that observe  *)
(* builds from the state (src/bus_sim/oracle/observation.py and its port   *)
(* crates/bus-sim-core/src/observation.rs), without the constants they are *)
(* scaled by.  Of the passengers who are done the kernel looks only at the *)
(* entries of recent_finished.  Waiting passengers show their origin,      *)
(* never their destination.                                                *)
(***************************************************************************)
EXTENDS Accounts

Lags == 0 .. HistoryLags - 1       \* bins of arrival_history

-----------------------------------------------------------------------------
(* Stops: a cell is a route, a direction and an origin *)

Cell == Route \X {1, -1} \X (0 .. LastStop)

At(r, d, i) ==
  {c \in Cohort : Trip(c).route = r /\ Trip(c).direction = d /\ Trip(c).origin = i}

Here(value, cell) == SumFunctionOnSet(value, cell)

OnBuses(c) == SumFunction([b \in Bus |-> aboard[b][c]])

\* The loops of observe: the passengers of c it comes across.
Seen(c) ==
  waiting[c] + OnBuses(c) + Tally(recentFinished, c, "COMPLETED", 0)
    + Tally(recentFinished, c, "ABANDONED", 0)

Queue(r, d, i) == Here(waiting, At(r, d, i))

Waiters(r, d, i) == {c \in At(r, d, i) : waiting[c] > 0}

OldestAge(r, d, i) ==
  Max({0} \cup {Age(c) : c \in Waiters(r, d, i)})

\* The mean age, as the sum of ages and the number of passengers.
MeanAge(r, d, i) ==
  <<Here([c \in Cohort |-> waiting[c] * Age(c)], Waiters(r, d, i)),
    Queue(r, d, i)>>

ExcessQueue(r, d, i) ==
  Here(waiting, {c \in At(r, d, i) : Age(c) >= ExcessAge})

LastStart == now - Interval

\* Passengers from here who boarded in the last interval and are still aboard.
JustBoarded(r, d, i) ==
  SumFunction([b \in Bus |->
    Here(aboard[b], {c \in At(r, d, i) : boardedAt[b][c] >= LastStart})])

JustCompleted(r, d, i) ==
  Here([c \in Cohort |-> Tally(recentFinished, c, "COMPLETED", LastStart)],
       At(r, d, i))

\* The interval in which c arrived, counted back from now.
LagOf(c) == (now - 1 - Trip(c).tick) \div Interval

\* arrival_history
History(r, d, i, lag) ==
  Here([c \in Cohort |-> Seen(c)],
       {c \in At(r, d, i) : Arrived(c) /\ LagOf(c) = lag})

JustArrived(r, d, i) ==
  Here([c \in Cohort |-> Seen(c)],
       {c \in At(r, d, i) : LastStart <= Trip(c).tick /\ Arrived(c)})

StopRow(r, d, i) ==
  [queue |-> Queue(r, d, i), mean |-> MeanAge(r, d, i),
   oldest |-> OldestAge(r, d, i), excess |-> ExcessQueue(r, d, i),
   boarded |-> JustBoarded(r, d, i), completed |-> JustCompleted(r, d, i),
   arrived |-> JustArrived(r, d, i)]

-----------------------------------------------------------------------------
(* Routes and vehicles *)

Assigned(r) == {b \in Bus : bus[b].route = r}

Serving(r) ==
  {b \in Assigned(r) : bus[b].pattern = "FULL" /\ bus[b].phase # "DEADHEAD"}

Incoming(r) == {b \in Assigned(r) : bus[b].phase = "DEADHEAD"}

Short(r) == {b \in Assigned(r) : bus[b].pattern = "SHORT"}

DepotCount == Cardinality({b \in Bus : bus[b].phase = "DEPOT_IDLE"})

RouteRow(r) ==
  [headway |-> headway[r],
   gapOut |-> now - ClockAt(lastFull, <<r, 1, 0>>),
   gapBack |-> now - ClockAt(lastFull, <<r, -1, LastStop>>),
   full |-> Cardinality(Serving(r)),
   incoming |-> Cardinality(Incoming(r)),
   short |-> Cardinality(Short(r)),
   hold |-> Above(HeadwayHold, now - changedAt[r]),
   depot |-> DepotCount]

VehicleRow(b) ==
  LET v == bus[b]
  IN [phase |-> v.phase, route |-> v.route, pattern |-> v.pattern,
      direction |-> v.direction, node |-> v.at, next |-> v.next,
      load |-> load[b], remaining |-> v.remaining,
      eta |-> IF v.phase = "TERMINAL_IDLE" THEN 0 ELSE v.remaining,
      cooldown |-> Above(v.cooldownUntil, now)]

\* observe
Observed ==
  [stops |-> [x \in Cell |-> StopRow(x[1], x[2], x[3])],
   history |-> [x \in Cell |-> [lag \in Lags |-> History(x[1], x[2], x[3], lag)]],
   routes |-> [r \in Route |-> RouteRow(r)],
   vehicles |-> [b \in Bus |-> VehicleRow(b)],
   time |-> now]

-----------------------------------------------------------------------------
(* Properties *)

\* A controller sees the day as it is, though the kernel forgets passengers.  The
\* arrival history is the demand of the tape, cell by cell and interval by
\* interval, whatever has become of the passengers and whatever was pruned; the
\* completions are those of the whole interval, also of passengers who arrived
\* long before the history begins; the buses that serve a route are those the guards count as
\* committed to it; and every bus is seen once: serving a route, on its way to
\* one, at the depot or on its way there.
TapeArrivals(r, d, i, lag) ==
  Here([c \in Cohort |-> Trip(c).count],
       {c \in At(r, d, i) :
          now - (lag + 1) * Interval <= Trip(c).tick
            /\ Trip(c).tick < now - lag * Interval})
NewlyCompleted(r, d, i) ==
  Here([c \in Cohort |-> completed[c] - completedBefore[c]], At(r, d, i))
Sighted(r) == Cardinality(Serving(r) \cup Incoming(r) \cup Short(r))
ObservationIsTrue ==
  ticksLeft = 0 =>
    LET o == Observed
    IN /\ \A r \in Route, d \in {1, -1}, i \in 0 .. LastStop :
            /\ \A lag \in Lags :
                 o.history[<<r, d, i>>][lag] = TapeArrivals(r, d, i, lag)
            /\ o.stops[<<r, d, i>>].arrived = o.history[<<r, d, i>>][0]
            /\ o.stops[<<r, d, i>>].completed = NewlyCompleted(r, d, i)
       /\ \A r \in Route : o.routes[r].full = Cardinality(FullCommitted(r))
       /\ SumFunction([r \in Route |-> Sighted(r)]) + DepotCount
            + Cardinality({b \in Assigned(NoRoute) : o.vehicles[b].phase = "DEADHEAD"})
          = Cardinality(Bus)
=============================================================================
