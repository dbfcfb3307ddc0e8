-------------------------------- MODULE Kernel --------------------------------
(***************************************************************************)
(* The whole bus-sim kernel: the fleet of module Fleet with its passengers *)
(* (src/bus_sim/oracle: passengers.py, engine.py, and the cohorts and      *)
(* counters of domain.py; crates/bus-sim-core is its port).                *)
(*                                                                         *)
(* A cohort is a group of passengers that arrive together with the same    *)
(* journey.  Splitting a cohort gives parts with the same lineage, so the  *)
(* module counts, per lineage, the passengers in each status and on each   *)
(* bus.  Lineages are numbered in the order in which the arrival tape is   *)
(* scanned, which is the FIFO order of boarding.                           *)
(***************************************************************************)
EXTENDS Fleet, SequencesExt

CONSTANTS
  Days,         \* scenarios: [arrivals: Seq(Cohort record), traffic: ...]
  DemandEnd,    \* demand_end_s
  Patience,     \* patience_s
  BucketTime,   \* traffic_bucket_s
  HistoryLags,  \* 5: HISTORY_LAGS, and a literal in prune_recent_finished
  Buckets       \* buckets of the traffic tape, 0 .. Buckets - 1

\* A cohort of the tape: passengers with one journey who arrive in one tick.
CohortType ==
  [route : Route, direction : {1, -1}, origin : 0 .. LastStop,
   destination : 0 .. LastStop, tick : Nat, count : Nat \ {0}]

\* What loading a scenario checks: passengers travel forward, and they arrive
\* while there is demand.  The tape is scanned tick by tick.
ValidCohort(c) ==
  /\ c \in CohortType
  /\ IF c.direction = 1 THEN c.origin < c.destination
                        ELSE c.destination < c.origin
  /\ c.tick < DemandEnd

ValidDay(d) ==
  /\ d.arrivals \in Seq(CohortType)
  /\ \A c \in DOMAIN d.arrivals : ValidCohort(d.arrivals[c])
  /\ \A c \in DOMAIN d.arrivals \ {1} :
        d.arrivals[c - 1].tick <= d.arrivals[c].tick
  /\ d.traffic \in [Route \X (0 .. LastStop - 1) \X (0 .. Buckets - 1)
                      -> EdgeTimes]

ASSUME DemandAssumption ==
  /\ {DemandEnd, Patience} \subseteq Nat
  /\ {BucketTime, Buckets, HistoryLags} \subseteq Nat \ {0}

ASSUME DayAssumption == \A d \in Days : ValidDay(d)

VARIABLES
  day,         \* the scenario of the episode
  waiting,     \* waiting[c]: passengers of lineage c at their stop
  aboard,      \* aboard[b][c]: passengers of lineage c on bus b
  completed,   \* completed[c], abandoned[c]: passengers that are done
  abandoned,
  denied,      \* denied[c]: the waiting part of c carries first_denied
  boardedAt,   \* boardedAt[b][c]: boarding_tick of lineage c on bus b
  waited,      \* waited[c][w]: passengers of c whose wait ended after w ticks
  rode,        \* rode[c][w]: passengers of c who arrived after w ticks aboard
  branded,     \* passengers who stopped waiting with first_denied set
  totals,      \* the kernel's running counters
  billed,      \* event costs reported so far in the episode
  recentFinished, \* the cohorts that are done and not yet pruned, in order
  settled      \* terminal_settled

riders == <<waiting, aboard, completed, abandoned, denied, boardedAt, waited,
            rode, branded, totals, billed, recentFinished, settled>>
kvars == <<vars, day, riders>>

Cohort == DOMAIN day.arrivals
Trip(c) == day.arrivals[c]

-----------------------------------------------------------------------------
(* Passenger events.  R is the record of the passenger state inside a tick. *)

RidersNow ==
  [waiting |-> waiting, aboard |-> aboard, completed |-> completed,
   abandoned |-> abandoned, denied |-> denied, boardedAt |-> boardedAt,
   waited |-> waited, rode |-> rode, branded |-> branded, totals |-> totals,
   billed |-> billed, load |-> load, recent |-> recentFinished]

\* The elements of S in the order of their keys, by Less, and then by number.
OrderedBy(S, Key(_), Less(_, _)) ==
  LET keyed == {<<Key(x), x>> : x \in S}
      Before(p, q) == \/ Less(p[1], q[1])
                      \/ p[2] < q[2] /\ ~Less(q[1], p[1])
      Place(p) == Cardinality({q \in keyed : Before(q, p)}) + 1
  IN [i \in 1 .. Cardinality(S) |-> (CHOOSE p \in keyed : Place(p) = i)[2]]

\* The numbers of S in order.
ByNumber(S) == OrderedBy(S, LAMBDA x : x, <)

Each(seq, Op(_)) == [i \in DOMAIN seq |-> Op(seq[i])]

\* push_recent_finished: n[c] passengers of each of these cohorts are done.
Finished(cohorts, n, status) ==
  Each(cohorts, LAMBDA c :
    [cohort |-> c, count |-> n[c], status |-> status, tick |-> now])

\* Slip: a ride that has just ended is forgotten once its arrival is.
NeededByArrival(e, t) == Trip(e.cohort).tick > t - 1 - HistoryLags * Interval

\* An observation at time t looks at this entry: it arrived within the lags, or
\* completed within the last interval.
Needed(e, t) ==
  \/ Trip(e.cohort).tick > t - 1 - HistoryLags * Interval
  \/ e.status = "COMPLETED" /\ e.tick >= t - Interval

\* prune_recent_finished: only the front is inspected.
Pruned(recent, t) ==
  LET kept == {i \in DOMAIN recent : Needed(recent[i], t)}
  IN SubSeq(recent, Min(kept \cup {Len(recent) + 1}), Len(recent))

\* What an observation adds up of the ring: the passengers of cohort c who are
\* done in this way, and were done at this time or later.
Tally(recent, c, status, since) ==
  SumFunctionOnSet([k \in DOMAIN recent |-> recent[k].count],
    {k \in DOMAIN recent : /\ recent[k].cohort = c
                           /\ recent[k].status = status
                           /\ recent[k].tick >= since})

\* The ticks of a cohort row: n[c] more passengers of c after w[c] ticks.
Ticked(record, n, w) ==
  [c \in Cohort |->
     IF n[c] = 0 THEN record[c] ELSE [record[c] EXCEPT ![w[c]] = @ + n[c]]]

Age(c) == now - Trip(c).tick
Ages == [c \in Cohort |-> Age(c)]

Marked(R, n) == SumFunctionOnSet(n, {c \in Cohort : R.denied[c]})

Smaller(x, y) == IF x <= y THEN x ELSE y

\* Slip: the turning point of a SHORT bus is ignored on the way out.
InPatternAnyDestination(v, c) ==
  v.pattern = "FULL" \/ v.direction = 1 \/ v.at <= v.turn

\* Passengers a bus with this pattern takes along from where it stands.
InPattern(v, c) ==
  \/ v.pattern = "FULL"
  \/ IF v.direction = 1 THEN Trip(c).destination <= v.turn ELSE v.at <= v.turn

Eligible(R, v, c) ==
  /\ R.waiting[c] > 0
  /\ Trip(c).route = v.route
  /\ Trip(c).direction = v.direction
  /\ Trip(c).origin = v.at
  /\ InPattern(v, c)

\* Slip: the latest comers board first.
AheadInReverse(queue, c) == {d \in queue : d > c}

\* Who boards before cohort c among those in the queue.
AheadOf(queue, c) == {d \in queue : d < c}

\* Slip: whoever is left behind again is counted again.
DeniedAgain(R, left) == left

\* Who of those left behind gets the first_denied mark.
NewlyDenied(R, left) == {c \in left : ~R.denied[c]}

\* How many of each cohort board: in the order of the queue, while there is room.
Taken(R, b, v) ==
  LET queue == {c \in Cohort : Eligible(R, v, c)}
      room == Capacity - R.load[b]
      Ahead(c) == SumFunctionOnSet(R.waiting, AheadOf(queue, c))
  IN [c \in Cohort |->
        IF c \in queue /\ Ahead(c) < room
        THEN Smaller(R.waiting[c], room - Ahead(c)) ELSE 0]

\* board_visit: eligible cohorts board, and whoever of them stays behind is
\* denied, and counted once.
Board(R, b, v) ==
  LET take == Taken(R, b, v)
      left == {c \in Cohort : Eligible(R, v, c) /\ R.waiting[c] > take[c]}
      boarded == SumFunction(take)
      refused == SumFunctionOnSet([c \in Cohort |-> R.waiting[c] - take[c]],
                                  NewlyDenied(R, left))
  IN [R EXCEPT !.waiting = [c \in Cohort |-> @[c] - take[c]],
               !.aboard[b] = [c \in Cohort |-> @[c] + take[c]],
               !.denied = [c \in Cohort |-> @[c] \/ c \in left],
               !.boardedAt[b] = [c \in Cohort |->
                  IF take[c] > 0 THEN now ELSE @[c]],
               !.waited = Ticked(@, take, Ages),
               !.branded = @ + Marked(R, take),
               !.load[b] = @ + boarded,
               !.totals.waiting = @ - boarded,
               !.totals.onboard = @ + boarded,
               !.billed.denied = @ + refused]

\* Those of each cohort who are at their destination.
GettingOff(R, b, stop) ==
  [c \in Cohort |-> IF Trip(c).destination = stop THEN R.aboard[b][c] ELSE 0]

\* Slip: those who get off stay in the load.
AlightKeepingLoad(R, b, stop) ==
  LET off == GettingOff(R, b, stop)
  IN [R EXCEPT !.aboard[b] = [c \in Cohort |-> @[c] - off[c]],
               !.completed = [c \in Cohort |-> @[c] + off[c]],
               !.totals.onboard = @ - SumFunction(off),
               !.totals.completed = @ + SumFunction(off)]

\* The order of bus.passengers: by boarding and, in one visit, by queue.
Passengers(R, b, S) == OrderedBy(S, LAMBDA c : R.boardedAt[b][c], <)

\* alight_visit: everyone whose destination this is gets off.
Alight(R, b, stop) ==
  LET off == GettingOff(R, b, stop)
      alighted == SumFunction(off)
      ride == [c \in Cohort |-> now - R.boardedAt[b][c]]
  IN [R EXCEPT !.aboard[b] = [c \in Cohort |-> @[c] - off[c]],
               !.completed = [c \in Cohort |-> @[c] + off[c]],
               !.rode = Ticked(@, off, ride),
               !.recent = @ \o Finished(Passengers(R, b, {c \in Cohort : off[c] > 0}),
                                        off, "COMPLETED"),
               !.load[b] = @ - alighted,
               !.totals.onboard = @ - alighted,
               !.totals.completed = @ + alighted]

\* The passenger side of complete_expired_phase: an arrival at a stop.
Visit(R, b, v) ==
  IF bus[b].phase # "SERVICE_MOVING" \/ bus[b].remaining # 0 THEN R
  ELSE IF v.phase = "LAYOVER" THEN Alight(R, b, v.at)
       ELSE Board(Alight(R, b, v.at), b, v)

\* The cohorts the tape has for this tick.
Newcomers == {c \in Cohort : Trip(c).tick = now /\ now < DemandEnd}

\* add_arrivals
Arrive(R) ==
  LET count == SumFunctionOnSet([c \in Cohort |-> Trip(c).count], Newcomers)
  IN [R EXCEPT !.waiting =
                 [c \in Cohort |-> IF c \in Newcomers THEN Trip(c).count ELSE @[c]],
               !.totals.generated = @ + count,
               !.totals.waiting = @ + count]

\* Those of each cohort whose patience has run out.
GivingUp(R) ==
  [c \in Cohort |->
     IF R.waiting[c] > 0 /\ Age(c) >= Patience THEN R.waiting[c] ELSE 0]

\* abandon_expired: they leave.
Abandon(R) ==
  LET gone == GivingUp(R)
      count == SumFunction(gone)
  IN [R EXCEPT !.waiting = [c \in Cohort |-> @[c] - gone[c]],
               !.abandoned = [c \in Cohort |-> @[c] + gone[c]],
               !.waited = Ticked(@, gone, Ages),
               !.recent = @ \o Finished(ByNumber({c \in Cohort : gone[c] > 0}),
                                        gone, "ABANDONED"),
               !.branded = @ + Marked(R, gone),
               !.totals.waiting = @ - count,
               !.totals.abandoned = @ + count,
               !.billed.abandoned = @ + count]

\* Slip: a bus boards at its terminal before its layover is over.
BoardIdleInLayover(R, b, v) ==
  IF v.phase \in {"TERMINAL_IDLE", "LAYOVER"} THEN Board(R, b, v) ELSE R

\* Terminal boarding: every idle bus boards, in every tick it stands there.
BoardIdle(R, b, v) ==
  IF v.phase = "TERMINAL_IDLE" /\ v.route # NoRoute THEN Board(R, b, v) ELSE R

\* What the buses, one after the other in the order of their ids, make of R0: a
\* fold over Bus that comes to the largest id last.
VisitInTurn(vs, R0) ==
  MapThenFoldSet(LAMBDA b, R : Visit(R, b, vs[b]), R0, LAMBDA b : b, Max, Bus)

BoardIdleInTurn(vs, R0) ==
  MapThenFoldSet(LAMBDA b, R : BoardIdle(R, b, vs[b]), R0, LAMBDA b : b, Max, Bus)

\* The passenger half of a tick, in the engine's order.
RidersAfter(vs) ==
  BoardIdleInTurn(vs, Abandon(Arrive(VisitInTurn(vs, RidersNow))))

\* Slip: only those who still wait are billed, not those on a bus.
UnfinishedWaitingOnly(t) == t.waiting

\* Passengers whose journey the horizon cuts off.
Unfinished(t) == t.waiting + t.onboard

\* edge_duration_s: the tape's time for the edge, in the bucket of its entry.
TravelTime(v) ==
  day.traffic[<<v.route, Smaller(v.at, LastStop - 1),
                Smaller(now \div BucketTime, Buckets - 1)>>]

-----------------------------------------------------------------------------
(* The kernel *)

NoTotals == [generated |-> 0, waiting |-> 0, onboard |-> 0, completed |-> 0,
             abandoned |-> 0]
NoCosts == [denied |-> 0, abandoned |-> 0, unfinished |-> 0]

KInit ==
  /\ Init
  /\ day \in Days
  /\ waiting = [c \in Cohort |-> 0]
  /\ aboard = [b \in Bus |-> [c \in Cohort |-> 0]]
  /\ completed = waiting
  /\ abandoned = waiting
  /\ denied = [c \in Cohort |-> FALSE]
  /\ boardedAt = aboard
  /\ waited = [c \in Cohort |-> [w \in 0 .. Horizon |-> 0]]
  /\ rode = waited
  /\ branded = 0
  /\ totals = NoTotals
  /\ billed = NoCosts
  /\ recentFinished = <<>>
  /\ settled = FALSE

KDecide == Decide /\ UNCHANGED <<day, riders>>

\* advance_tick: completions, arrivals, abandonment, boarding, dispatch, clock,
\* the pruning of the ring at the new time and, once, at the horizon, the
\* settlement of the unfinished journeys.  vs and R, what the completions and the
\* passengers come to, are bound by \E where LET would do: TLC then computes them
\* once in a tick.
KTick ==
  \E vs \in {Fleet1} : \E R \in {RidersAfter(vs)} :
    LET settling == now + 1 = Horizon /\ ~settled
    IN /\ FleetTick(vs, [b \in Entering(vs) |-> TravelTime(vs[b])])
       /\ load' = R.load
       /\ waiting' = R.waiting
       /\ aboard' = R.aboard
       /\ completed' = R.completed
       /\ abandoned' = R.abandoned
       /\ denied' = R.denied
       /\ boardedAt' = R.boardedAt
       /\ waited' = R.waited
       /\ rode' = R.rode
       /\ branded' = R.branded
       /\ totals' = R.totals
       /\ billed' = IF settling
                    THEN [R.billed EXCEPT !.unfinished = @ + Unfinished(R.totals)]
                    ELSE R.billed
       /\ recentFinished' = Pruned(R.recent, now + 1)
       /\ settled' = (settled \/ settling)
       /\ UNCHANGED day

KNext == KDecide \/ KTick

KSpec == KInit /\ [][KNext]_kvars

-----------------------------------------------------------------------------
(* Properties *)

Arrived(c) == Trip(c).tick < now

\* The kernel's cached counters and loads never drift from the passengers they
\* count, and no passenger of the tape is lost or duplicated: at every moment a
\* passenger who has arrived is waiting, on one bus, at the destination or gone
\* (the deep half of assert_conservation, which production runs skip).
CountersMatch ==
  LET OnBuses(c) == SumFunction([b \in Bus |-> aboard[b][c]])
      Count(f) == SumFunction(f)
  IN /\ \A c \in Cohort :
          waiting[c] + OnBuses(c) + completed[c] + abandoned[c]
            = IF Arrived(c) THEN Trip(c).count ELSE 0
     /\ \A b \in Bus : load[b] = Count(aboard[b])
     /\ totals = [generated |-> Count([c \in Cohort |->
                                  IF Arrived(c) THEN Trip(c).count ELSE 0]),
                  waiting |-> Count(waiting),
                  onboard |-> Count(load),
                  completed |-> Count(completed),
                  abandoned |-> Count(abandoned)]

\* Nobody is carried past their stop: a bus with a passenger of a journey is on
\* that route, heads that way, and stops at the destination before its service
\* leg ends.  So no bus turns, changes its pattern, is reassigned or recalled
\* with somebody aboard who would not get off.
RidersAhead ==
  \A b \in Bus, c \in Cohort : aboard[b][c] > 0 =>
    LET v == bus[b]
    IN /\ v.route = Trip(c).route
       /\ v.direction = Trip(c).direction
       /\ v.phase \in {"TERMINAL_IDLE", "SERVICE_MOVING", "SERVICE_DWELL"}
       /\ IF v.direction = 1
          THEN v.at < Trip(c).destination /\ Trip(c).destination <= ServiceEnd(v)
          ELSE Trip(c).destination < v.at

\* Boarding is first come, first served: in a tick in which somebody boards a
\* FULL bus, nobody who came earlier to the same stop, for the same direction,
\* is left waiting, whichever buses call there in that tick.
SameQueue(c, d) ==
  /\ Trip(c).route = Trip(d).route
  /\ Trip(c).direction = Trip(d).direction
  /\ Trip(c).origin = Trip(d).origin
FirstComeFirstServed ==
  [][\A b \in Bus, c, d \in Cohort :
       /\ c < d
       /\ SameQueue(c, d)
       /\ aboard'[b][d] > aboard[b][d]
       /\ bus'[b].pattern = "FULL"
       => waiting'[c] = 0]_kvars

\* What the specification says of the end of an episode: completions and
\* abandonments due at the horizon itself still count (docs/spec/spec_v1.0.md:130),
\* so once the episode is settled nobody is left whose ride or patience is over.
HorizonEventsCounted ==
  settled =>
    /\ \A b \in Bus, c \in Cohort :
          /\ bus[b].phase = "SERVICE_MOVING"
          /\ bus[b].remaining = 0
          /\ bus[b].next = Trip(c).destination
          => aboard[b][c] = 0
    /\ \A c \in Cohort : waiting[c] > 0 => now - Trip(c).tick < Patience

\* The fleet under its passengers behaves as the fleet with free loads does.
FleetSpec == Spec
=============================================================================
