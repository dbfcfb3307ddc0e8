------------------------------- MODULE Dashboard -------------------------------
(***************************************************************************)
(* What the station shows of a day (src/bus_rl/station: fleet.py,          *)
(* passengers.py, departures.py and the snapshot of service.py), derived   *)
(* from the kernel's state at a control boundary.                          *)
(***************************************************************************)
EXTENDS Controllers

-----------------------------------------------------------------------------
(* fleet.py *)

\* group_by_route: the buses of a route, those on their way to it included.
OnRoute(r) == OfRoute(r)

\* Slip: the reserve shows idle buses only.
IdleReserve ==
  ByNumber({b \in Bus : bus[b].route = NoRoute /\ bus[b].phase = "DEPOT_IDLE"})

\* reserve_queue: the buses of the depot, idle and ready first, then by id.
\* <<k, t>> is the key: 1 for a bus on its way, and the end of its cooldown.
ReserveKey(b) ==
  <<IF bus[b].phase = "DEPOT_IDLE" THEN 0 ELSE 1, bus[b].cooldownUntil>>

Earlier(k, l) == k[1] < l[1] \/ (k[1] = l[1] /\ k[2] < l[2])

ReserveQueue ==
  OrderedBy({b \in Bus : bus[b].route = NoRoute}, ReserveKey, Earlier)

\* display_status
Status(b) ==
  IF load[b] > Comfort THEN "crowded"
  ELSE CASE bus[b].phase = "DEPOT_IDLE" -> "depot"
         [] bus[b].phase = "DEADHEAD" -> "deadhead"
         [] bus[b].phase \in {"TERMINAL_IDLE", "LAYOVER"} -> "terminal"
         [] bus[b].phase = "SERVICE_MOVING" -> "moving"
         [] OTHER -> "dwell"

\* edge_duration_s of the edge at stop v.at, entered at time t.
DurationAt(v, t) ==
  day.traffic[<<v.route, Smaller(v.at, LastStop - 1),
                Smaller(t \div BucketTime, Buckets - 1)>>]

\* The ticks at which the bus may have entered its edge: those from which the
\* tape brings it to the next stop when it is due.
Entries(v) == {t \in 0 .. now : t + DurationAt(v, t) = now + v.remaining}

\* edge_s: the duration of the edge a bus is on, by its latest possible entry,
\* or of the edge it enters when its dwell is over.
EdgeShown(v) ==
  CASE v.phase = "SERVICE_DWELL" -> DurationAt(v, now + v.remaining)
    [] v.phase = "SERVICE_MOVING" ->
         IF Entries(v) = {} THEN v.remaining
         ELSE DurationAt(v, Max(Entries(v)))
    [] OTHER -> 0

BusShown(b) ==
  [id |-> b, status |-> Status(b), node |-> bus[b].at,
   direction |-> bus[b].direction, next |-> bus[b].next,
   remaining |-> bus[b].remaining, edge |-> EdgeShown(bus[b]),
   load |-> load[b], cooldownUntil |-> bus[b].cooldownUntil]

-----------------------------------------------------------------------------
(* passengers.py and departures.py *)

\* queues: one cell per route, direction and stop, empty ones included.
QueueCells ==
  [cell \in Route \X {1, -1} \X (0 .. LastStop) |->
     LET r == cell[1]
         d == cell[2]
         i == cell[3]
     IN  [waiting |-> Queue(r, d, i), mean |-> MeanAge(r, d, i),
          longest |-> OldestAge(r, d, i), excessive |-> ExcessQueue(r, d, i)]]

\* Slip: the age a clock starts with counts as a departure.
ClockWithSeed(k) ==
  [lastFull |-> lastFull[k], known |-> TRUE, gap |-> now - lastFull[k],
   alarm |-> now - lastFull[k] > GuardGap]

\* clocks: the gap since the last FULL departure is known only of a terminal
\* that has had one in the day.
ClockShown(k) ==
  [lastFull |-> lastFull[k],
   known |-> lastFull[k] >= 0,
   gap |-> now - lastFull[k],
   alarm |-> lastFull[k] >= 0 /\ now - lastFull[k] > GuardGap]

-----------------------------------------------------------------------------
(* service.py: _snapshot and _context *)

Snapshot ==
  [time |-> now,
   counters |-> totals,
   routes |-> [r \in Route |->
     [headway |-> headway[r],
      waiting |-> SumFunction([p \in {1, -1} \X (0 .. LastStop) |->
                                 QueueCells[<<r, p[1], p[2]>>].waiting]),
      buses |-> Each(OnRoute(r), BusShown)]],
   stops |-> QueueCells,
   departures |-> [k \in Terminal |-> ClockShown(k)],
   reserve |-> Each(ReserveQueue, BusShown),
   total |-> IntervalCost(costs)]

\* What a decision is explained with.
DecisionContext ==
  LET s == Snapshot
  IN [routes |-> [r \in Route |->
        [waiting |-> s.routes[r].waiting, buses |-> Len(s.routes[r].buses),
         headway |-> s.routes[r].headway]],
      reserve |-> Len(s.reserve),
      legal |-> Cardinality(RandomChoices)]

-----------------------------------------------------------------------------
(* Properties *)

Visible == ticksLeft = 0

\* The dashboard adds up: the queues of the stops are the waiting passengers of
\* the counters, the loads shown are those on board, every bus is shown once,
\* a bus shown in the reserve carries nobody, if any bus can be dispatched the
\* one shown first in the reserve can, and a bus on an edge can be placed on it:
\* from the seconds left and the tape alone, an entry is always found.
ShownBuses(s) ==
  FlattenSeq([i \in DOMAIN RouteOrder |-> s.routes[RouteOrder[i]].buses])
    \o s.reserve
DashboardAddsUp ==
  Visible =>
    LET s == Snapshot
        shown == ShownBuses(s)
        carried == [i \in DOMAIN shown |-> shown[i].load]
    IN /\ SumFunction([r \in Route |-> s.routes[r].waiting]) = s.counters.waiting
       /\ SumFunction(carried) = s.counters.onboard
       /\ Len(shown) = Cardinality(Bus)
       /\ {shown[i].id : i \in DOMAIN shown} = Bus
       /\ \A i \in DOMAIN s.reserve :
            s.reserve[i].load = 0 /\ s.reserve[i].status \in {"depot", "deadhead"}
       /\ (\E b \in Bus : CanDispatch(b)) => CanDispatch(s.reserve[1].id)
       /\ \A b \in Bus : bus[b].phase = "SERVICE_MOVING" =>
            Entries(bus[b]) # {} /\ bus[b].remaining <= EdgeShown(bus[b])

\* An alarm is never raised for a stream that has no schedule: only SHORT buses
\* leave from a turning point before the end of the route, so its gap stays
\* unknown, and a known gap is one between departures of the day.
NoAlarmAtTheTurn ==
  \A r \in Route :
    /\ TurnStop[r] # LastStop => ~ClockShown(<<r, -1, TurnStop[r]>>).known
    /\ \A k \in Terminals(r) : ClockShown(k).known =>
         \E e \in departures : /\ e.time = lastFull[k]
                               /\ e.route = r
                               /\ e.direction = k[2]
=============================================================================
