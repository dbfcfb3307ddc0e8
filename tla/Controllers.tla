------------------------------ MODULE Controllers ------------------------------
(***************************************************************************)
(* The controllers that need no training: the baselines fixed, random,     *)
(* threshold and proportional (src/bus_rl/learning/baselines) and the      *)
(* coverage controller of the parity runs (src/bus_sim/parity).  They see  *)
(* the observation and the mask and name one action.                       *)
(*                                                                         *)
(* A deterministic controller is a list of actions in the order in which   *)
(* its code tries them; it takes the first one that is not masked, and     *)
(* NOOP if all are.                                                        *)
(***************************************************************************)
EXTENDS Observation

CONSTANTS
  CrowdedQueue,     \* 40, and twice that is a rush
  QuietQueue,       \* 5
  HeadwayFor,       \* <<360, 600, 900>>: in a rush, a crowd, else
  PriorWeight,      \* PriorWeight[k]: exp(-k / 2) of a trip over k stops
  BusyDemand,       \* 120: total queue from which all buses are wanted
  BusyBudget,       \* 12
  QuietBudget,      \* 9
  Floor,            \* FLOOR: 2 buses per route
  Cycle             \* NOMINAL_CYCLE_S

ASSUME BudgetAssumption ==
  /\ Route \subseteq Nat /\ Route # {}
  /\ {BusyBudget, QuietBudget, Floor, Cycle} \subseteq Nat
  /\ HeadwayFor \in [1 .. 3 -> Nat]
  /\ Floor * Cardinality(Route) <= QuietBudget
  /\ QuietBudget <= BusyBudget

-----------------------------------------------------------------------------
(* Actions and the mask *)

NoBus == -1
NoHeadway == -1

Action(kind, b, r, h) == [kind |-> kind, bus |-> b, route |-> r, headway |-> h]

NoopAction == Action("NOOP", NoBus, NoRoute, NoHeadway)

\* The mask that comes with the observation.
Legal(a) ==
  CASE a.kind = "NOOP" -> TRUE
    [] a.kind = "DISPATCH" -> CanDispatch(a.bus)
    [] a.kind = "RECALL" -> CanRecall(a.bus)
    [] a.kind = "REASSIGN" -> CanReassign(a.bus, a.route)
    [] a.kind = "SHORT_TURN" -> CanShortTurn(a.bus, a.route)
    [] a.kind = "SET_HEADWAY" -> CanSetHeadway(a.route, a.headway)

RouteOrder == ByNumber(Route)

BusOrder == ByNumber(Bus)

EachIn(seq, Op(_)) == FlattenSeq(Each(seq, Op))

\* The slots of one family, for the buses of a sequence.
Slots(kind, buses, r) == Each(buses, LAMBDA b : Action(kind, b, r, NoHeadway))

Recalls(buses) == Slots("RECALL", buses, NoRoute)

FirstLegal(preferences) ==
  LET legal == {i \in DOMAIN preferences : Legal(preferences[i])}
  IN IF legal = {} THEN NoopAction ELSE preferences[Min(legal)]

-----------------------------------------------------------------------------
(* ThresholdController *)

\* The stop tensors of a route, summed (or maximised) over its cells.
OfTape(r) == {c \in Cohort : Trip(c).route = r}

RouteQueue(r) == Here(waiting, OfTape(r))

OldestOf(r) == Max({0} \cup {Age(c) : c \in {d \in OfTape(r) : waiting[d] > 0}})

\* _urgency, a fraction: queue per place on the serving buses, plus the oldest
\* age in units of the excess age, plus the longer gap in units of the guard.
Urgency(r) ==
  LET row == RouteRow(r)
      places == Capacity * Max({1, row.full})
      oldest == OldestOf(r)
      gap == Max({row.gapOut, row.gapBack})
  IN <<RouteQueue(r) * ExcessAge * GuardGap
         + places * (oldest * GuardGap + gap * ExcessAge),
       places * ExcessAge * GuardGap>>

Below(x, y) == x[1] * y[2] < y[1] * x[2]

\* _best_route: the most urgent route, the first of them.
BestRoute ==
  CHOOSE r \in Route :
    \A s \in Route : /\ ~Below(Urgency(r), Urgency(s))
                     /\ s < r => Below(Urgency(s), Urgency(r))

DestinationsFrom(d, i) == IF d = 1 THEN i + 1 .. LastStop ELSE 0 .. i - 1

\* short_eligible_share of the passengers at one origin: by the declared prior,
\* as <<eligible, total>> weight.
ShortWeight(r, d, i) ==
  LET weight == [j \in DestinationsFrom(d, i) |-> PriorWeight[IF i < j THEN j - i ELSE i - j]]
      eligible == {j \in DOMAIN weight : IF d = 1 THEN j <= TurnStop[r] ELSE i <= TurnStop[r]}
  IN <<SumFunctionOnSet(weight, eligible), SumFunction(weight)>>

\* The share is at least 0.7, over all origins with a queue.
MostlyShort(r) ==
  LET Cells == {p \in {1, -1} \X (0 .. LastStop) :
                  Queue(r, p[1], p[2]) > 0 /\ DestinationsFrom(p[1], p[2]) # {}}
      denominator == ProductSet({ShortWeight(r, p[1], p[2])[2] : p \in Cells})
      share == [p \in Cells |->
        LET w == ShortWeight(r, p[1], p[2])
        IN Queue(r, p[1], p[2]) * w[1] * (denominator \div w[2])]
      total == SumFunction([p \in Cells |-> Queue(r, p[1], p[2])])
  IN total > 0 /\ 10 * SumFunction(share) >= 7 * total * denominator

DepotBuses == ByNumber({b \in Bus : bus[b].phase = "DEPOT_IDLE"})

\* The buses in the order in which they are asked to give up their route: from
\* the least urgent route, by id.
RouteUrgency(b) == IF bus[b].route = NoRoute THEN <<0, 1>> ELSE Urgency(bus[b].route)
DonorOrder == OrderedBy(Bus, RouteUrgency, Below)

WantedHeadway(queue) ==
  HeadwayFor[IF queue >= 2 * CrowdedQueue THEN 1
             ELSE IF queue >= CrowdedQueue THEN 2 ELSE 3]

\* Slip: buses are taken from other routes before the reserve is used.
ReliefDonorsFirst(r) ==
  Slots("REASSIGN", DonorOrder, r) \o Slots("DISPATCH", DepotBuses, r)

\* What is tried for a route with a crowd: the reserve, donors, short turns.
Relief(r) ==
  LET short == MostlyShort(r)
  IN (IF short THEN Slots("SHORT_TURN", DepotBuses, r) ELSE <<>>)
       \o Slots("DISPATCH", DepotBuses, r)
       \o Slots("REASSIGN", DonorOrder, r)
       \o (IF short THEN Slots("SHORT_TURN", BusOrder, r) ELSE <<>>)

Threshold ==
  LET r == BestRoute
      queue == RouteQueue(r)
  IN FirstLegal(
       (IF queue >= CrowdedQueue THEN Relief(r) ELSE <<>>)
         \o <<Action("SET_HEADWAY", NoBus, r, WantedHeadway(queue))>>
         \o (IF queue < QuietQueue THEN Recalls(BusOrder) ELSE <<>>))

-----------------------------------------------------------------------------
(* ProportionalController *)

\* Arrivals of the last five intervals.
Rate(r) ==
  Here([c \in Cohort |-> Seen(c)],
       {c \in OfTape(r) : Arrived(c) /\ LagOf(c) \in Lags})

TotalQueue == SumFunction([r \in Route |-> RouteQueue(r)])

\* What every route gets of the remainder, without the fractions.
SharesOf(weight, remainder) ==
  [r \in Route |-> (remainder * weight[r]) \div SumFunction(weight)]

\* desired_fleet: the floor for every route and the rest of the budget in
\* proportion to the rates, the largest fractions rounded up.
DesiredFleet(rates, queue) ==
  LET weight == IF SumFunction(rates) = 0 THEN [r \in Route |-> 1] ELSE rates
      budget == IF queue >= BusyDemand THEN BusyBudget ELSE QuietBudget
      remainder == budget - Floor * Cardinality(Route)
      base == SharesOf(weight, remainder)
      fraction == [r \in Route |-> (remainder * weight[r]) % SumFunction(weight)]
      leftover == remainder - SumFunction(base)
      Before(r) == {s \in Route : \/ fraction[s] > fraction[r]
                                  \/ fraction[s] = fraction[r] /\ s < r}
  IN [r \in Route |->
        Floor + base[r] + IF Cardinality(Before(r)) < leftover THEN 1 ELSE 0]

Desired == DesiredFleet([r \in Route |-> Rate(r)], TotalQueue)

\* nearest_headway: the target whose distance from cycle / buses is smallest,
\* the smaller one of two.
NearestHeadway(n) ==
  LET buses == Max({1, n})
      Distance(h) == Above(h * buses, Cycle) + Above(Cycle, h * buses)
      targets == {HeadwayFor[i] : i \in DOMAIN HeadwayFor}
  IN CHOOSE h \in targets : \A k \in targets :
       \/ Distance(h) < Distance(k)
       \/ Distance(h) = Distance(k) /\ h <= k

\* How far a route is above its desired fleet.
Excess(desired, r) == RouteRow(r).full - desired[r]
OfRoute(r) == ByNumber({b \in Bus : bus[b].route = r})

\* Slip: a route that has exactly its desired fleet gives buses away.
SurplusOrMore(desired) ==
  OrderedBy({r \in Route : Excess(desired, r) >= 0},
            LAMBDA r : -Excess(desired, r), <)

Surplus(desired) ==
  OrderedBy({r \in Route : Excess(desired, r) > 0},
            LAMBDA r : -Excess(desired, r), <)

Shortage(desired) ==
  OrderedBy({r \in Route : Excess(desired, r) < 0},
            LAMBDA r : Excess(desired, r), <)

Proportional(desired) ==
  LET shortage == Shortage(desired)
      surplus == Surplus(desired)
  IN FirstLegal(
       EachIn(shortage, LAMBDA r : Slots("DISPATCH", BusOrder, r))
         \o EachIn(shortage, LAMBDA r :
              EachIn(surplus, LAMBDA s : Slots("REASSIGN", OfRoute(s), r)))
         \o EachIn(surplus, LAMBDA s : Recalls(OfRoute(s)))
         \o Each(RouteOrder, LAMBDA r :
              Action("SET_HEADWAY", NoBus, r, NearestHeadway(desired[r]))))

-----------------------------------------------------------------------------
(* The other controllers *)

Fixed == NoopAction

\* FAMILY_SLOTS, in the order of the action table.
Family(kind) ==
  CASE kind = "NOOP" -> <<NoopAction>>
    [] kind = "RECALL" -> Recalls(BusOrder)
    [] kind = "SET_HEADWAY" ->
         EachIn(RouteOrder, LAMBDA r : Each(HeadwayFor, LAMBDA h :
           Action("SET_HEADWAY", NoBus, r, h)))
    [] OTHER ->
         EachIn(BusOrder, LAMBDA b : Each(RouteOrder, LAMBDA r :
           Action(kind, b, r, NoHeadway)))

Rotation ==
  <<"SHORT_TURN", "REASSIGN", "RECALL", "SET_HEADWAY", "DISPATCH", "NOOP">>

\* CoverageController: each decision starts one family later.
Coverage ==
  LET start == (now \div Interval) % Len(Rotation)
      turn == [i \in DOMAIN Rotation |-> Rotation[((start + i - 1) % Len(Rotation)) + 1]]
  IN FirstLegal(EachIn(turn, Family))

\* RandomValidController: any action that is not masked.
RandomChoices ==
  {a \in UNION {Range(Family(kind)) : kind \in Range(Rotation)} : Legal(a)}

-----------------------------------------------------------------------------
(* Properties *)

\* Where there is a crowd, the reserve goes first (docs/spec/spec_v1.0.md:393):
\* as long as a bus of the depot can be sent to the most urgent route, the
\* threshold controller sends it there and takes no bus from another route.
ReserveGoesFirst ==
  /\ Boundary
  /\ RouteQueue(BestRoute) >= CrowdedQueue
  /\ \E b \in Bus : CanDispatch(b)
  => LET a == Threshold
     IN /\ a.kind \in {"DISPATCH", "SHORT_TURN"}
        /\ a.route = BestRoute
        /\ bus[a.bus].phase = "DEPOT_IDLE"

\* The proportional controller robs no route.  What it aims at is its budget of
\* buses, given out to the last one whatever the rates, and the floor for every
\* route; when it takes a bus away, the route it comes from keeps the fleet
\* desired for it and the two buses the donor guard asks for; and what it and
\* the coverage controller do the random controller could have drawn.
DonorsKeepTheirFleet ==
  Boundary =>
    \E desired \in {Desired} :
      LET a == Proportional(desired)
      IN /\ SumFunction(desired) = IF TotalQueue >= BusyDemand THEN BusyBudget
                                    ELSE QuietBudget
         /\ \A r \in Route : desired[r] >= Floor
         /\ {a, Coverage} \subseteq RandomChoices
         /\ a.kind \in {"REASSIGN", "RECALL"} =>
              LET donor == bus[a.bus].route
              IN Cardinality(FullCommitted(donor) \ {a.bus})
                   >= Max({2, desired[donor]})
=============================================================================
