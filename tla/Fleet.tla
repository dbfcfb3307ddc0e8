-------------------------------- MODULE Fleet --------------------------------
(***************************************************************************)
(* The vehicles of the bus-sim kernel, the terminal dispatcher that lets   *)
(* them go, and the controller's decisions with the guards that mask them  *)
(* (src/bus_sim/oracle: vehicles.py, dispatcher.py, guards.py and the      *)
(* vehicle part of engine.py; crates/bus-sim-core is its port).            *)
(*                                                                         *)
(* A decision is applied at a control boundary and is followed by the      *)
(* ticks of one control interval.  One unit of time is one engine tick     *)
(* (tick_s).  Passengers appear only as the load of each bus, which a      *)
(* visit may change in any way boarding and alighting can; the module      *)
(* Kernel says which passengers those are.  Travel times come from the     *)
(* traffic tape, which is an input: an edge takes any time in EdgeTimes.   *)
(***************************************************************************)
EXTENDS Integers, FiniteSets

CONSTANTS
  Bus,             \* vehicle ids, natural numbers (ties are broken by id)
  Route,           \* route ids
  NoRoute,         \* the route of a bus that is not assigned
  LastStop,        \* stops of a route are 0 .. LastStop
  TurnStop,        \* TurnStop[r]: short_turn_stop of route r
  HomeRoute,       \* HomeRoute[b]: route of bus b in the fleet specification
  HomeStop,        \* HomeStop[b]: its stop there (0 or LastStop)
  Capacity,        \* passengers a bus can carry
  EdgeTimes,       \* ticks the traffic tape may give an edge
  Interval,        \* control_interval_s
  Horizon,         \* horizon_s
  DwellTime,       \* dwell_s
  LayoverTime,     \* layover_s
  DeadheadTime,    \* 360 s
  Cooldown,        \* 1200 s between missions of one bus
  Spacing,         \* 120 s between departures from one terminal
  GuardGap,        \* 1200 s, the gap the donor guard protects
  HeadwayHold,     \* 600 s between headway changes of one route
  Headways,        \* the headway targets a decision can set
  InitialHeadway,  \* 900 s
  InitialAge,      \* 900 s: age of the departure clocks at time 0
  EnableReassign, EnableShortTurn   \* feature flags of the scenario

Depot   == -1      \* the depot as a position
Nowhere == -2      \* None for next_node and turn_stop

ASSUME RouteAssumption ==
  /\ IsFiniteSet(Route)
  /\ NoRoute \notin Route
  /\ LastStop \in Nat \ {0}
  /\ TurnStop \in [Route -> 1 .. LastStop]

ASSUME FleetAssumption ==
  /\ Bus \subseteq Nat
  /\ IsFiniteSet(Bus)
  /\ HomeRoute \in [Bus -> Route \cup {NoRoute}]
  /\ HomeStop \in [Bus -> {0, LastStop}]
  /\ Capacity \in Nat \ {0}

ASSUME TimeAssumption ==
  /\ EdgeTimes \subseteq Nat \ {0}
  /\ Headways \subseteq Nat
  /\ {Interval, Horizon, InitialAge} \subseteq Nat \ {0}
  /\ {DwellTime, LayoverTime, DeadheadTime, Cooldown, Spacing, GuardGap,
      HeadwayHold, InitialHeadway} \subseteq Nat
  /\ {EnableReassign, EnableShortTurn} \subseteq BOOLEAN

VARIABLES
  now,         \* current_time_s
  ticksLeft,   \* ticks of the running control interval still to come
  bus,         \* vehicles, a record per bus
  load,        \* passengers on each bus
  headway,     \* headway_targets_s
  changedAt,   \* headway_changed_at_s
  lastAny,     \* last_departure_s, per terminal
  lastFull     \* last_full_departure_s, per terminal

clocks == <<headway, changedAt, lastAny, lastFull>>
vars == <<now, ticksLeft, bus, load, headway, changedAt, lastAny, lastFull>>

-----------------------------------------------------------------------------
(* Terminals and vehicles *)

\* A terminal is where departures of one route in one direction start: the
\* first stop outbound, the last stop and the turning point inbound.
Terminals(r) == {<<r, 1, 0>>, <<r, -1, LastStop>>, <<r, -1, TurnStop[r]>>}

Terminal == UNION {Terminals(r) : r \in Route}

\* A departure clock; a terminal without an entry counts as 900 s old.
ClockAt(clock, k) == IF k \in Terminal THEN clock[k] ELSE -InitialAge

TerminalOf(v) == <<v.route, v.direction, v.at>>

Vehicle(r, stop) ==
  [route |-> r, at |-> IF r = NoRoute THEN Depot ELSE stop,
   next |-> Nowhere, direction |-> IF r # NoRoute /\ stop # 0 THEN -1 ELSE 1,
   phase |-> IF r = NoRoute THEN "DEPOT_IDLE" ELSE "TERMINAL_IDLE",
   remaining |-> 0, cooldownUntil |-> 0, pattern |-> "FULL",
   turn |-> Nowhere, pendingExtra |-> FALSE]

Init ==
  /\ now = 0
  /\ ticksLeft = 0
  /\ bus = [b \in Bus |-> Vehicle(HomeRoute[b], HomeStop[b])]
  /\ load = [b \in Bus |-> 0]
  /\ headway = [r \in Route |-> InitialHeadway]
  /\ changedAt = [r \in Route |-> -HeadwayHold]
  /\ lastAny = [k \in Terminal |-> -InitialAge]
  /\ lastFull = lastAny

-----------------------------------------------------------------------------
(* Guards of the controller's actions *)

FullCommitted(r) ==
  {b \in Bus : /\ bus[b].route = r
               /\ bus[b].pattern = "FULL"
               /\ bus[b].phase \notin {"DEPOT_IDLE", "DEADHEAD"}}

\* Slip: the donor itself is counted among the buses that stay.
TwoStayCountingDonor(r) == Cardinality(FullCommitted(r)) >= 2

TwoStay(r) == Cardinality(FullCommitted(r)) - 1 >= 2

\* A bus may leave its route only if two FULL buses stay committed to it and
\* another empty FULL bus stands ready here to make the next departure.
DonorGuard(b) ==
  LET v == bus[b]
      k == TerminalOf(v)
      soonest == ClockAt(lastAny, k) + Spacing
      latest == ClockAt(lastFull, k) + GuardGap
  IN /\ v.route # NoRoute
     /\ v.phase = "TERMINAL_IDLE"
     /\ v.pattern = "FULL"
     /\ load[b] = 0
     /\ TwoStay(v.route)
     /\ \E c \in FullCommitted(v.route) \ {b} :
           /\ bus[c].phase = "TERMINAL_IDLE"
           /\ bus[c].at = v.at
           /\ load[c] = 0
     /\ now <= latest
     /\ soonest <= latest

CanDispatch(b) ==
  /\ bus[b].phase = "DEPOT_IDLE"
  /\ now >= bus[b].cooldownUntil

CanRecall(b) ==
  /\ now >= bus[b].cooldownUntil
  /\ DonorGuard(b)

CanReassign(b, r) ==
  /\ EnableReassign
  /\ bus[b].route # r
  /\ now >= bus[b].cooldownUntil
  /\ DonorGuard(b)

CanShortTurn(b, r) ==
  /\ EnableShortTurn
  /\ now >= bus[b].cooldownUntil
  /\ load[b] = 0
  /\ \/ bus[b].phase = "DEPOT_IDLE"
     \/ /\ bus[b].route = r
        /\ bus[b].at = 0
        /\ DonorGuard(b)

CanSetHeadway(r, h) ==
  /\ headway[r] # h
  /\ now - changedAt[r] >= HeadwayHold

-----------------------------------------------------------------------------
(* Decisions: apply_action at a control boundary, before the first tick *)

Deadheading(v, r, to) ==
  [v EXCEPT !.route = r, !.phase = "DEADHEAD", !.next = to,
            !.remaining = DeadheadTime]

\* assign_short: a SHORT mission on route r.
Shortened(v, r) ==
  [v EXCEPT !.route = r, !.pattern = "SHORT", !.turn = TurnStop[r],
            !.direction = 1, !.pendingExtra = TRUE]

Boundary == ticksLeft = 0 /\ now < Horizon

\* The bus gets mission v, and the interval's ticks follow.
Accept(b, v) ==
  /\ bus' = [bus EXCEPT ![b] = [v EXCEPT !.cooldownUntil = now + Cooldown]]
  /\ ticksLeft' = Interval
  /\ UNCHANGED <<now, load, clocks>>

Noop ==
  /\ Boundary
  /\ ticksLeft' = Interval
  /\ UNCHANGED <<now, bus, load, clocks>>

Dispatch(b, r) ==
  /\ Boundary
  /\ CanDispatch(b)
  /\ Accept(b, [Deadheading(bus[b], r, 0) EXCEPT
                  !.direction = 1, !.pendingExtra = TRUE])

Recall(b) ==
  /\ Boundary
  /\ CanRecall(b)
  /\ Accept(b, [Deadheading(bus[b], NoRoute, Depot) EXCEPT
                  !.pattern = "FULL", !.turn = Nowhere,
                  !.pendingExtra = FALSE])

Reassign(b, r) ==
  /\ Boundary
  /\ CanReassign(b, r)
  /\ Accept(b, [Deadheading(bus[b], r, 0) EXCEPT
                  !.direction = 1, !.pattern = "FULL", !.turn = Nowhere,
                  !.pendingExtra = TRUE])

ShortTurn(b, r) ==
  /\ Boundary
  /\ CanShortTurn(b, r)
  /\ Accept(b, IF bus[b].phase = "DEPOT_IDLE"
               THEN Deadheading(Shortened(bus[b], r), r, 0)
               ELSE Shortened(bus[b], r))

SetHeadway(r, h) ==
  /\ Boundary
  /\ CanSetHeadway(r, h)
  /\ headway' = [headway EXCEPT ![r] = h]
  /\ changedAt' = [changedAt EXCEPT ![r] = now]
  /\ ticksLeft' = Interval
  /\ UNCHANGED <<now, bus, load, lastAny, lastFull>>

Decide ==
  \/ Noop
  \/ \E b \in Bus, r \in Route : Dispatch(b, r)
  \/ \E b \in Bus : Recall(b)
  \/ \E b \in Bus, r \in Route : Reassign(b, r)
  \/ \E b \in Bus, r \in Route : ShortTurn(b, r)
  \/ \E r \in Route, h \in Headways : SetHeadway(r, h)

-----------------------------------------------------------------------------
(* One tick, first half: the phases that have run out *)

TurnOf(v) == IF v.turn = Nowhere THEN TurnStop[v.route] ELSE v.turn

\* The furthest stop the pattern of a bus allows.
Limit(v) == IF v.pattern = "SHORT" THEN TurnOf(v) ELSE LastStop

\* Slip: a SHORT bus is taken to the end of the route.
ServiceEndOfFull(v) == IF v.direction = 1 THEN LastStop ELSE 0

ServiceEnd(v) == IF v.direction = 1 THEN Limit(v) ELSE 0

\* A deadhead ends at the depot or at the first stop of the target route.
EndDeadhead(v) ==
  [v EXCEPT !.at = v.next, !.next = Nowhere,
            !.phase = IF v.next = Depot THEN "DEPOT_IDLE" ELSE "TERMINAL_IDLE"]

\* The end of the service leg turns the bus round; any other stop is a dwell.
EndEdge(v) ==
  LET w == [v EXCEPT !.at = v.next, !.next = Nowhere]
  IN IF w.at = ServiceEnd(w)
     THEN [w EXCEPT !.phase = "LAYOVER", !.remaining = LayoverTime,
                    !.direction = -v.direction]
     ELSE [w EXCEPT !.phase = "SERVICE_DWELL", !.remaining = DwellTime]

\* Slip: the SHORT bus at its turning point does not ask for the way home.
EndLayoverAskingNothing(v) ==
  LET w == [v EXCEPT !.phase = "TERMINAL_IDLE"]
  IN IF v.pattern = "SHORT" /\ v.at = 0
     THEN [w EXCEPT !.pattern = "FULL", !.turn = Nowhere]
     ELSE w

\* A short mission is over when its bus is back at the first stop; at the
\* turning point it asks for the departure home.
EndLayover(v) ==
  LET w == [v EXCEPT !.phase = "TERMINAL_IDLE"]
  IN IF v.pattern = "FULL" THEN w
     ELSE IF v.at = 0
          THEN [w EXCEPT !.pattern = "FULL", !.turn = Nowhere,
                         !.pendingExtra = FALSE]
          ELSE [w EXCEPT !.pendingExtra = TRUE]

\* complete_expired_phase.  A bus whose dwell is over enters its next edge:
\* that is left to Tick, with the edges the dispatcher starts.
Completed(b) ==
  LET v == bus[b]
  IN IF v.remaining # 0 THEN v
     ELSE CASE v.phase = "DEADHEAD" -> EndDeadhead(v)
            [] v.phase = "SERVICE_MOVING" -> EndEdge(v)
            [] v.phase = "LAYOVER" -> EndLayover(v)
            [] OTHER -> v

Fleet1 == [b \in Bus |-> Completed(b)]

DwellOver(b) == bus[b].phase = "SERVICE_DWELL" /\ bus[b].remaining = 0

-----------------------------------------------------------------------------
(* One tick, second half: the dispatcher *)

\* Buses standing at terminal k, ready to go.
Ready(vs, k) ==
  {b \in Bus : /\ vs[b].phase = "TERMINAL_IDLE"
               /\ TerminalOf(vs[b]) = k}

Extras(vs, k) == {b \in Ready(vs, k) : vs[b].pendingExtra}

Fulls(vs, k) == {b \in Ready(vs, k) : vs[b].pattern = "FULL"}

\* Slip: an extra departure waits for the headway target too.
DueByHeadwayOnly(vs, k) ==
  IF now - lastAny[k] < Spacing \/ now - lastFull[k] < headway[k[1]] THEN {}
  ELSE IF Extras(vs, k) # {} THEN Extras(vs, k) ELSE Fulls(vs, k)

\* The bus that leaves terminal k in this tick, as a set of at most one: an
\* extra departure first, else a FULL bus once the headway target is reached;
\* the smallest id breaks ties.
Due(vs, k) ==
  IF now - lastAny[k] < Spacing THEN {}
  ELSE IF Extras(vs, k) # {} THEN Extras(vs, k)
  ELSE IF now - lastFull[k] < headway[k[1]] THEN {}
  ELSE Fulls(vs, k)

Departing(vs, k) == {b \in Due(vs, k) : \A c \in Due(vs, k) : b <= c}

Leaving(vs) == UNION {Departing(vs, k) : k \in Terminal}

Entering(vs) == Leaving(vs) \cup {b \in Bus : DwellOver(b)}

\* What enter_next_edge asserts before a bus moves to the neighbouring stop.
EdgeOpen(v) == v.at + v.direction \in 0 .. Limit(v)

EnterEdge(v, duration) ==
  [v EXCEPT !.next = v.at + v.direction, !.remaining = duration,
            !.phase = "SERVICE_MOVING"]

\* Slip: the remaining time runs on below zero.
ElapseBelowZero(v) == [v EXCEPT !.remaining = @ - 1]

Elapse(v) == IF v.remaining > 0 THEN [v EXCEPT !.remaining = @ - 1] ELSE v

\* The loads bus b can have after the visit it makes in this tick, if any:
\* w is the bus once its expired phase is completed.
VisitLoads(b, w) ==
  IF bus[b].phase = "SERVICE_MOVING" /\ bus[b].remaining = 0
  THEN IF w.phase = "LAYOVER" THEN 0 .. load[b] ELSE 0 .. Capacity
  ELSE IF w.phase = "TERMINAL_IDLE" THEN load[b] .. Capacity ELSE {load[b]}

\* The assertions of the tick: the engine is inside the horizon (the trace of
\* the tick is indexed in event_log) and no bus is sent off its pattern.
TickSafe(vs) ==
  /\ now < Horizon
  /\ \A b \in Entering(vs) : EdgeOpen(vs[b])

\* A bus at the end of the tick: vs[b] is the bus once its expired phase is
\* completed, gone the buses the dispatcher lets go.
AfterTick(vs, gone, duration, b) ==
  Elapse(IF b \in gone
         THEN [EnterEdge(vs[b], duration[b]) EXCEPT !.pendingExtra = FALSE]
         ELSE IF DwellOver(b) THEN EnterEdge(vs[b], duration[b])
         ELSE vs[b])

\* advance_tick for the vehicles, with the travel times of the edges entered.
FleetTick(vs, duration) ==
  LET gone == Leaving(vs)
  IN /\ ticksLeft > 0
     /\ TickSafe(vs)
     /\ bus' = [b \in Bus |-> AfterTick(vs, gone, duration, b)]
     /\ lastAny' = [k \in Terminal |->
          IF Departing(vs, k) # {} THEN now ELSE lastAny[k]]
     /\ lastFull' = [k \in Terminal |->
          IF \E b \in Departing(vs, k) : vs[b].pattern = "FULL"
          THEN now ELSE lastFull[k]]
     /\ now' = now + 1
     /\ ticksLeft' = ticksLeft - 1
     /\ UNCHANGED <<headway, changedAt>>

Tick ==
  LET vs == Fleet1
  IN \E duration \in [Entering(vs) -> EdgeTimes] :
       /\ FleetTick(vs, duration)
       /\ load' \in [Bus -> 0 .. Capacity]
       /\ \A b \in Bus : load'[b] \in VisitLoads(b, vs[b])

Next == Decide \/ Tick

Spec == Init /\ [][Next]_vars

-----------------------------------------------------------------------------
(* Properties *)

Position == Depot .. LastStop

Phases == {"DEPOT_IDLE", "DEADHEAD", "TERMINAL_IDLE", "SERVICE_MOVING",
           "SERVICE_DWELL", "LAYOVER"}

VehicleType ==
  [route : Route \cup {NoRoute}, at : Position, next : Nowhere .. LastStop,
   direction : {1, -1}, phase : Phases, remaining : Nat,
   cooldownUntil : Nat, pattern : {"FULL", "SHORT"},
   turn : Nowhere .. LastStop, pendingExtra : BOOLEAN]

\* Every variable keeps its type; in particular no bus exceeds its capacity.
TypeOK ==
  /\ now \in Nat
  /\ ticksLeft \in 0 .. Interval
  /\ bus \in [Bus -> VehicleType]
  /\ load \in [Bus -> 0 .. Capacity]
  /\ headway \in [Route -> Nat]
  /\ changedAt \in [Route -> Int]
  /\ lastAny \in [Terminal -> Int]
  /\ lastFull \in [Terminal -> Int]

\* No tick ever runs into one of the engine's assertions: no FULL bus is sent
\* beyond the ends of its route, no SHORT bus beyond its turning point, and no
\* tick is traced past the horizon (vehicles.py:31-37; the port's engine.rs:149).
NeverPanics == ticksLeft > 0 => TickSafe(Fleet1)

\* No bus is lost at a terminal: an idle bus that is assigned stands where the
\* dispatcher looks for it, and the dispatcher will let it go, either because
\* it is FULL or because it has asked for an extra departure.
IdleBusCanLeave ==
  \A b \in Bus : bus[b].phase = "TERMINAL_IDLE" =>
    /\ TerminalOf(bus[b]) \in Terminals(bus[b].route)
    /\ bus[b].pattern = "FULL" \/ bus[b].pendingExtra

\* Whatever sequence of missions the controller chooses, a route that started
\* with two FULL buses committed to it never falls below two (the donor guard
\* is checked per decision; the floor is what it is for).
HomeFleet(r) == {b \in Bus : HomeRoute[b] = r}
RouteKeepsTwo ==
  \A r \in Route :
    Cardinality(HomeFleet(r)) >= 2 => Cardinality(FullCommitted(r)) >= 2

\* Extra departures are never held up by the headway: however many buses wait for
\* one at a terminal, whoever joins them or is sent away from among them, at every
\* tick some bus leaves it or has left it within the spacing.  (A single bus has no
\* such promise: smaller ids go first, and since the donor guard does not look at
\* pending_extra it may be recalled while it waits, once its cooldown is over.)
ExtrasKeepLeaving ==
  ticksLeft < Interval =>
    \A b \in Bus :
      bus[b].phase = "TERMINAL_IDLE" /\ bus[b].pendingExtra =>
        LET tick == now - 1    \* when the dispatcher last ran
            last == lastAny[TerminalOf(bus[b])]
        IN last = tick \/ tick - last < Spacing

\* Why the above hold: in each phase, what the position, the direction and the
\* mission of a bus have to do with each other.  Layover and idling happen only
\* at the ends of the pattern, facing inward; everywhere else the next stop in
\* the direction of travel is on the pattern.
AtEnd(v) ==
  \/ v.at = 0 /\ v.direction = 1
  \/ v.at = Limit(v) /\ v.direction = -1

MissionInv(v) ==
  /\ v.phase = "DEPOT_IDLE" => v.route = NoRoute /\ v.pattern = "FULL"
  /\ v.phase = "DEADHEAD" =>
       \/ v.route = NoRoute /\ v.next = Depot /\ v.pattern = "FULL"
       \/ v.route \in Route /\ v.next = 0 /\ v.direction = 1 /\ v.pendingExtra
  /\ v.phase \notin {"DEPOT_IDLE", "DEADHEAD"} => v.route \in Route
  /\ v.pattern = "SHORT" => v.route \in Route /\ v.turn = TurnStop[v.route]
  /\ v.phase \in {"TERMINAL_IDLE", "LAYOVER"} => AtEnd(v)
  /\ v.phase = "TERMINAL_IDLE" /\ v.pattern = "SHORT" => v.pendingExtra
  /\ v.phase = "SERVICE_MOVING" => v.next \in 0 .. Limit(v)
  /\ v.phase = "SERVICE_DWELL" => EdgeOpen(v)

MissionsMakeSense == \A b \in Bus : MissionInv(bus[b])
=============================================================================
