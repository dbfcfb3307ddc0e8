----------------------------- MODULE FleetProofs -----------------------------
(***************************************************************************)
(* Proofs about the fleet of module Fleet, for any buses, routes, turning  *)
(* points and timing constants.  The inductive invariant is TypeOK with    *)
(* MissionsMakeSense: every bus is a well-formed vehicle whose position,   *)
(* direction and mission fit its phase (Good below).  The engine's         *)
(* assertions and the availability of idle buses follow from it.           *)
(***************************************************************************)
EXTENDS Fleet, TLAPS, FiniteSetTheorems, WellFoundedInduction

\* A well-formed vehicle on a mission that makes sense.
Good(v) == v \in VehicleType /\ MissionInv(v)

Inv == TypeOK /\ MissionsMakeSense

-----------------------------------------------------------------------------
(* What the steps of a single vehicle preserve *)

\* The pattern of a good vehicle on a route ends at a stop after the first.
LEMMA LimitRange ==
  ASSUME NEW v, Good(v), v.route \in Route
  PROVE  Limit(v) \in 1 .. LastStop
BY RouteAssumption DEF Good, VehicleType, MissionInv, Limit, TurnOf, Nowhere

\* A bus that stands at an end of its pattern can enter its next edge: this is
\* what enter_next_edge asserts (vehicles.rs:51-63).
LEMMA IdleEdgeOpen ==
  ASSUME NEW v, Good(v), v.phase = "TERMINAL_IDLE"
  PROVE  v.route \in Route /\ EdgeOpen(v)
<1>1. v.route \in Route /\ AtEnd(v)
  BY DEF Good, MissionInv
<1>2. Limit(v) \in 1 .. LastStop
  BY <1>1, LimitRange
<1> QED
  BY <1>1, <1>2, RouteAssumption DEF AtEnd, EdgeOpen

\* Each of the phases that can run out leaves a good vehicle good.
LEMMA EndDeadheadGood ==
  ASSUME NEW v, Good(v), v.phase = "DEADHEAD"
  PROVE  Good(EndDeadhead(v))
<1> DEFINE w == EndDeadhead(v)
<1>1. v \in VehicleType
  BY DEF Good
<1>2. /\ v.next \in Position
      /\ Nowhere \in Nowhere .. LastStop
      /\ (IF v.next = Depot THEN "DEPOT_IDLE" ELSE "TERMINAL_IDLE") \in Phases
  BY RouteAssumption DEF Good, MissionInv, Position, Depot, Nowhere, Phases
<1>3. w \in VehicleType
  BY <1>1, <1>2 DEF VehicleType, EndDeadhead
<1>4. /\ w.route = v.route /\ w.direction = v.direction
      /\ w.pattern = v.pattern /\ w.turn = v.turn
      /\ w.pendingExtra = v.pendingExtra
      /\ w.at = v.next
      /\ w.phase = IF v.next = Depot THEN "DEPOT_IDLE" ELSE "TERMINAL_IDLE"
  BY <1>1 DEF VehicleType, EndDeadhead
<1> HIDE DEF w
<1>5. MissionInv(w)
  BY <1>4 DEF Good, MissionInv, AtEnd, Depot
<1> QED
  BY <1>3, <1>5 DEF Good, w

LEMMA EndEdgeGood ==
  ASSUME NEW v, Good(v), v.phase = "SERVICE_MOVING"
  PROVE  Good(EndEdge(v))
<1> DEFINE u == [v EXCEPT !.at = v.next, !.next = Nowhere]
           w == EndEdge(v)
<1>1. v \in VehicleType /\ v.route \in Route /\ v.next \in 0 .. Limit(v)
  BY DEF Good, MissionInv
<1>2. Limit(v) \in 1 .. LastStop
  BY <1>1, LimitRange
<1>3. /\ v.next \in Position
      /\ Nowhere \in Nowhere .. LastStop
      /\ {"LAYOVER", "SERVICE_DWELL"} \subseteq Phases
      /\ {LayoverTime, DwellTime} \subseteq Nat
      /\ v.direction \in {1, -1} /\ -v.direction \in {1, -1}
  BY <1>1, <1>2, RouteAssumption, TimeAssumption
     DEF VehicleType, Position, Depot, Nowhere, Phases
<1>4. u \in VehicleType
  BY <1>1, <1>3 DEF VehicleType
<1>5. /\ u.at = v.next /\ u.route = v.route /\ u.direction = v.direction
      /\ u.pattern = v.pattern /\ u.turn = v.turn
  BY <1>1 DEF VehicleType
<1>6. w = IF u.at = ServiceEnd(u)
          THEN [u EXCEPT !.phase = "LAYOVER", !.remaining = LayoverTime,
                         !.direction = -v.direction]
          ELSE [u EXCEPT !.phase = "SERVICE_DWELL", !.remaining = DwellTime]
  BY DEF EndEdge
<1> HIDE DEF u
<1>7. ServiceEnd(u) = IF v.direction = 1 THEN Limit(v) ELSE 0
  BY <1>5 DEF ServiceEnd, Limit, TurnOf
<1>8. CASE u.at = ServiceEnd(u)
  <2>1. w \in VehicleType
    BY <1>3, <1>4, <1>6, <1>8 DEF VehicleType
  <2>2. /\ w.route = v.route /\ w.pattern = v.pattern /\ w.turn = v.turn
        /\ w.at = v.next /\ w.direction = -v.direction
        /\ w.phase = "LAYOVER"
    BY <1>4, <1>5, <1>6, <1>8 DEF VehicleType
  <2> HIDE DEF w
  <2>3. Limit(w) = Limit(v)
    BY <2>2 DEF Limit, TurnOf
  <2>4. w.at = (IF v.direction = 1 THEN Limit(v) ELSE 0)
    BY <1>5, <1>7, <1>8, <2>2
  <2>5. AtEnd(w)
    BY <1>3, <2>2, <2>3, <2>4 DEF AtEnd
  <2>6. MissionInv(w)
    BY <1>1, <2>2, <2>5 DEF Good, MissionInv
  <2> QED
    BY <2>1, <2>6 DEF Good, w
<1>9. CASE u.at # ServiceEnd(u)
  <2>1. w \in VehicleType
    BY <1>3, <1>4, <1>6, <1>9 DEF VehicleType
  <2>2. /\ w.route = v.route /\ w.pattern = v.pattern /\ w.turn = v.turn
        /\ w.at = v.next /\ w.direction = v.direction
        /\ w.phase = "SERVICE_DWELL"
    BY <1>4, <1>5, <1>6, <1>9 DEF VehicleType
  <2> HIDE DEF w
  <2>3. Limit(w) = Limit(v)
    BY <2>2 DEF Limit, TurnOf
  <2>4. EdgeOpen(w)
    BY <1>1, <1>2, <1>3, <1>5, <1>7, <1>9, <2>2, <2>3, RouteAssumption
       DEF EdgeOpen
  <2>5. MissionInv(w)
    BY <1>1, <2>2, <2>4 DEF Good, MissionInv
  <2> QED
    BY <2>1, <2>5 DEF Good, w
<1> QED
  BY <1>8, <1>9

LEMMA EndLayoverGood ==
  ASSUME NEW v, Good(v), v.phase = "LAYOVER"
  PROVE  Good(EndLayover(v))
<1> DEFINE w == EndLayover(v)
<1>1. /\ v \in VehicleType /\ v.route \in Route /\ AtEnd(v)
      /\ v.pattern = "SHORT" => v.turn = TurnStop[v.route]
  BY DEF Good, MissionInv
<1>2. Limit(v) \in 1 .. LastStop
  BY <1>1, LimitRange
<1>3. /\ Nowhere \in Nowhere .. LastStop
      /\ "TERMINAL_IDLE" \in Phases
  BY RouteAssumption DEF Nowhere, Phases
<1>4. w \in VehicleType
  BY <1>1, <1>3 DEF VehicleType, EndLayover
<1>5. CASE v.pattern = "FULL"
  <2>1. /\ w.route = v.route /\ w.pattern = v.pattern /\ w.at = v.at
        /\ w.direction = v.direction /\ w.phase = "TERMINAL_IDLE"
    BY <1>1, <1>5 DEF VehicleType, EndLayover
  <2> HIDE DEF w
  <2> QED
    BY <1>1, <1>4, <1>5, <2>1 DEF Good, MissionInv, AtEnd, Limit, w
<1>6. CASE v.pattern = "SHORT" /\ v.at = 0
  <2>1. /\ w.route = v.route /\ w.pattern = "FULL" /\ w.at = 0
        /\ w.direction = v.direction /\ w.phase = "TERMINAL_IDLE"
    BY <1>1, <1>6 DEF VehicleType, EndLayover
  <2>2. v.direction = 1
    BY <1>1, <1>2, <1>6 DEF AtEnd
  <2> HIDE DEF w
  <2> QED
    BY <1>1, <1>4, <2>1, <2>2 DEF Good, MissionInv, AtEnd, w
<1>7. CASE v.pattern = "SHORT" /\ v.at # 0
  <2>1. /\ w.route = v.route /\ w.pattern = v.pattern /\ w.at = v.at
        /\ w.turn = v.turn /\ w.pendingExtra
        /\ w.direction = v.direction /\ w.phase = "TERMINAL_IDLE"
    BY <1>1, <1>7 DEF VehicleType, EndLayover
  <2> HIDE DEF w
  <2> QED
    BY <1>1, <1>4, <2>1 DEF Good, MissionInv, AtEnd, Limit, TurnOf, w
<1> QED
  BY <1>1, <1>5, <1>6, <1>7 DEF VehicleType

\* A bus that enters an edge of its pattern is under way on it; leaving a
\* terminal also clears its request for an extra departure.
LEMMA EnterEdgeGood ==
  ASSUME NEW v, Good(v), v.route \in Route, EdgeOpen(v), NEW d \in Nat
  PROVE  /\ Good(EnterEdge(v, d))
         /\ Good([EnterEdge(v, d) EXCEPT !.pendingExtra = FALSE])
<1> DEFINE w == EnterEdge(v, d)
           x == [w EXCEPT !.pendingExtra = FALSE]
<1>1. v \in VehicleType
  BY DEF Good
<1>2. Limit(v) \in 1 .. LastStop
  BY LimitRange
<1>3. /\ v.at + v.direction \in 0 .. Limit(v)
      /\ v.at + v.direction \in Nowhere .. LastStop
      /\ "SERVICE_MOVING" \in Phases
  BY <1>2, RouteAssumption DEF EdgeOpen, Nowhere, Phases
<1>4. w \in VehicleType /\ x \in VehicleType
  BY <1>1, <1>3 DEF VehicleType, EnterEdge
<1>5. \A y \in {w, x} :
        /\ y.route = v.route /\ y.pattern = v.pattern /\ y.turn = v.turn
        /\ y.next = v.at + v.direction /\ y.phase = "SERVICE_MOVING"
  BY <1>1, <1>4 DEF VehicleType, EnterEdge
<1>6. \A y \in {w, x} : MissionInv(y)
  <2> SUFFICES ASSUME NEW y \in {w, x} PROVE MissionInv(y)
    OBVIOUS
  <2>1. Limit(y) = Limit(v)
    BY <1>5 DEF Limit, TurnOf
  <2> HIDE DEF w, x
  <2> QED
    BY <1>3, <1>5, <2>1 DEF Good, MissionInv
<1> QED
  BY <1>4, <1>6 DEF Good

\* A mission makes sense whatever the time that is left and the cooldown.
LEMMA SameMission ==
  ASSUME NEW v, NEW w, MissionInv(v),
         w.route = v.route, w.at = v.at, w.next = v.next,
         w.direction = v.direction, w.phase = v.phase,
         w.pattern = v.pattern, w.turn = v.turn,
         w.pendingExtra = v.pendingExtra
  PROVE  MissionInv(w)
BY DEF MissionInv, AtEnd, EdgeOpen, Limit, TurnOf

LEMMA ElapseGood ==
  ASSUME NEW v, Good(v)
  PROVE  Good(Elapse(v))
<1> DEFINE w == [v EXCEPT !.remaining = @ - 1]
<1>1. v \in VehicleType
  BY DEF Good
<1>2. CASE v.remaining > 0
  <2>1. v.remaining - 1 \in Nat
    BY <1>1, <1>2 DEF VehicleType
  <2>2. w \in VehicleType
    BY <1>1, <2>1 DEF VehicleType
  <2>3. /\ w.route = v.route /\ w.at = v.at /\ w.next = v.next
        /\ w.direction = v.direction /\ w.phase = v.phase
        /\ w.pattern = v.pattern /\ w.turn = v.turn
        /\ w.pendingExtra = v.pendingExtra
    BY <1>1 DEF VehicleType
  <2>4. MissionInv(w)
    BY <2>3, SameMission DEF Good
  <2> QED
    BY <1>2, <2>2, <2>4 DEF Good, Elapse
<1>3. CASE ~(v.remaining > 0)
  BY <1>3 DEF Elapse
<1> QED
  BY <1>2, <1>3

-----------------------------------------------------------------------------
(* The first half of a tick *)

LEMMA CompletedGood ==
  ASSUME Inv, NEW b \in Bus
  PROVE  Good(Completed(b))
<1>1. Good(bus[b])
  BY DEF Inv, TypeOK, MissionsMakeSense, Good
<1>2. CASE bus[b].remaining # 0
  BY <1>1, <1>2 DEF Completed
<1>3. CASE bus[b].remaining = 0 /\ bus[b].phase = "DEADHEAD"
  BY <1>1, <1>3, EndDeadheadGood DEF Completed
<1>4. CASE bus[b].remaining = 0 /\ bus[b].phase = "SERVICE_MOVING"
  BY <1>1, <1>4, EndEdgeGood DEF Completed
<1>5. CASE bus[b].remaining = 0 /\ bus[b].phase = "LAYOVER"
  BY <1>1, <1>5, EndLayoverGood DEF Completed
<1>6. CASE bus[b].phase \notin {"DEADHEAD", "SERVICE_MOVING", "LAYOVER"}
  BY <1>1, <1>6 DEF Completed
<1> QED
  BY <1>2, <1>3, <1>4, <1>5, <1>6

\* The dispatcher only lets buses go that stand idle at the terminal.
LEMMA LeavingIdle ==
  ASSUME NEW b \in Leaving(Fleet1)
  PROVE  b \in Bus /\ Fleet1[b].phase = "TERMINAL_IDLE"
BY DEF Leaving, Departing, Due, Extras, Fulls, Ready

\* Every bus that enters an edge in this tick may do so.
LEMMA EnteringOpen ==
  ASSUME Inv, NEW b \in Entering(Fleet1)
  PROVE  /\ b \in Bus
         /\ Fleet1[b].route \in Route
         /\ EdgeOpen(Fleet1[b])
<1>1. CASE b \in Leaving(Fleet1)
  <2>1. b \in Bus /\ Fleet1[b].phase = "TERMINAL_IDLE"
    BY <1>1, LeavingIdle
  <2>2. Good(Fleet1[b])
    BY <2>1, CompletedGood DEF Fleet1
  <2> QED
    BY <2>1, <2>2, IdleEdgeOpen
<1>2. CASE b \in Bus /\ DwellOver(b)
  <2>1. Fleet1[b] = bus[b]
    BY <1>2 DEF Fleet1, Completed, DwellOver
  <2>2. MissionInv(bus[b])
    BY <1>2 DEF Inv, MissionsMakeSense
  <2> QED
    BY <1>2, <2>1, <2>2 DEF DwellOver, MissionInv
<1> QED
  BY <1>1, <1>2 DEF Entering

-----------------------------------------------------------------------------
(* Decisions *)

\* The missions a decision can give to a good bus.
LEMMA DeadheadingGood ==
  ASSUME NEW v, Good(v), NEW r \in Route, v.pattern = "FULL"
  PROVE  /\ Good([Deadheading(v, r, 0) EXCEPT
                    !.direction = 1, !.pendingExtra = TRUE])
         /\ Good([Deadheading(v, r, 0) EXCEPT
                    !.direction = 1, !.pattern = "FULL", !.turn = Nowhere,
                    !.pendingExtra = TRUE])
         /\ Good([Deadheading(v, NoRoute, Depot) EXCEPT
                    !.pattern = "FULL", !.turn = Nowhere,
                    !.pendingExtra = FALSE])
<1> DEFINE dispatch == [Deadheading(v, r, 0) EXCEPT
                          !.direction = 1, !.pendingExtra = TRUE]
           reassign == [Deadheading(v, r, 0) EXCEPT
                          !.direction = 1, !.pattern = "FULL",
                          !.turn = Nowhere, !.pendingExtra = TRUE]
           recall == [Deadheading(v, NoRoute, Depot) EXCEPT
                        !.pattern = "FULL", !.turn = Nowhere,
                        !.pendingExtra = FALSE]
<1>1. /\ v \in VehicleType
      /\ {0, Depot} \subseteq Nowhere .. LastStop
      /\ Nowhere \in Nowhere .. LastStop
      /\ "DEADHEAD" \in Phases /\ DeadheadTime \in Nat
      /\ r \in Route \cup {NoRoute} /\ NoRoute \in Route \cup {NoRoute}
  BY RouteAssumption, TimeAssumption DEF Good, Depot, Nowhere, Phases
<1>2. /\ Deadheading(v, r, 0) \in VehicleType
      /\ Deadheading(v, NoRoute, Depot) \in VehicleType
  BY <1>1 DEF VehicleType, Deadheading
<1>3. dispatch \in VehicleType /\ reassign \in VehicleType
  BY <1>1, <1>2 DEF VehicleType
<1>4. recall \in VehicleType
  BY <1>1, <1>2 DEF VehicleType
<1>5. \A w \in {dispatch, reassign} :
        /\ w.route = r /\ w.phase = "DEADHEAD" /\ w.next = 0
        /\ w.direction = 1 /\ w.pattern = "FULL" /\ w.pendingExtra
  BY <1>1 DEF VehicleType, Deadheading
<1>6. /\ recall.route = NoRoute /\ recall.phase = "DEADHEAD"
      /\ recall.next = Depot /\ recall.pattern = "FULL"
  BY <1>1 DEF VehicleType, Deadheading
<1>7. \A w \in {dispatch, reassign} : MissionInv(w)
  BY <1>5 DEF MissionInv
<1>8. MissionInv(recall)
  BY <1>6 DEF MissionInv
<1> QED
  BY <1>7, <1>8, <1>3, <1>4 DEF Good

LEMMA ShortGood ==
  ASSUME NEW v, Good(v), NEW r \in Route
  PROVE  /\ Good(Deadheading(Shortened(v, r), r, 0))
         /\ v.phase = "TERMINAL_IDLE" /\ v.at = 0 => Good(Shortened(v, r))
<1> DEFINE short == Shortened(v, r)
           far == Deadheading(short, r, 0)
<1>1. /\ v \in VehicleType
      /\ 0 \in Nowhere .. LastStop
      /\ TurnStop[r] \in Nowhere .. LastStop
      /\ "DEADHEAD" \in Phases /\ DeadheadTime \in Nat
      /\ r \in Route \cup {NoRoute}
  BY RouteAssumption, TimeAssumption DEF Good, Nowhere, Phases
<1>2. short \in VehicleType /\ far \in VehicleType
  BY <1>1 DEF VehicleType, Shortened, Deadheading
<1>3. /\ \A w \in {short, far} :
            /\ w.route = r /\ w.pattern = "SHORT" /\ w.turn = TurnStop[r]
            /\ w.direction = 1 /\ w.pendingExtra
      /\ far.phase = "DEADHEAD" /\ far.next = 0
      /\ short.phase = v.phase /\ short.at = v.at
  BY <1>1 DEF VehicleType, Shortened, Deadheading
<1>4. MissionInv(far)
  BY <1>3 DEF MissionInv
<1>5. v.phase = "TERMINAL_IDLE" /\ v.at = 0 => MissionInv(short)
  BY <1>3 DEF MissionInv, AtEnd
<1> QED
  BY <1>2, <1>4, <1>5 DEF Good

\* A decision that gives one bus a good mission keeps the invariant.
LEMMA AcceptKeepsInv ==
  ASSUME Inv, NEW b \in Bus, NEW v, Good(v), Accept(b, v)
  PROVE  Inv'
<1> DEFINE w == [v EXCEPT !.cooldownUntil = now + Cooldown]
<1>1. now + Cooldown \in Nat /\ v \in VehicleType
  BY TimeAssumption DEF Inv, TypeOK, Good
<1>2. w \in VehicleType
  BY <1>1 DEF VehicleType
<1>3. /\ w.route = v.route /\ w.at = v.at /\ w.next = v.next
      /\ w.direction = v.direction /\ w.phase = v.phase
      /\ w.pattern = v.pattern /\ w.turn = v.turn
      /\ w.pendingExtra = v.pendingExtra
  BY <1>1 DEF VehicleType
<1>4. MissionInv(w)
  BY <1>3, SameMission DEF Good
<1> HIDE DEF w
<1>5. bus' = [bus EXCEPT ![b] = w]
  BY DEF Accept, w
<1>6. bus' \in [Bus -> VehicleType]
  BY <1>2, <1>5 DEF Inv, TypeOK
<1>7. MissionsMakeSense'
  <2> SUFFICES ASSUME NEW c \in Bus PROVE MissionInv(bus'[c])
    BY DEF MissionsMakeSense, MissionInv, AtEnd, EdgeOpen, Limit, TurnOf
  <2> QED
    BY <1>4, <1>5 DEF Inv, TypeOK, MissionsMakeSense
<1>8. ticksLeft' \in 0 .. Interval
  BY TimeAssumption DEF Accept
<1> QED
  BY <1>6, <1>7, <1>8 DEF Inv, TypeOK, Accept, clocks, Terminal, Terminals

LEMMA DecideKeepsInv == ASSUME Inv, Decide PROVE Inv'
<1>0. \A b \in Bus : Good(bus[b])
  BY DEF Inv, TypeOK, MissionsMakeSense, Good
<1>1. CASE Noop
  <2>1. ticksLeft' \in 0 .. Interval
    BY <1>1, TimeAssumption DEF Noop
  <2>2. MissionsMakeSense'
    BY <1>1 DEF Noop, Inv, MissionsMakeSense, MissionInv, AtEnd, EdgeOpen,
                Limit, TurnOf
  <2> QED
    BY <1>1, <2>1, <2>2 DEF Noop, Inv, TypeOK, clocks, Terminal, Terminals
<1>2. ASSUME NEW b \in Bus, NEW r \in Route, Dispatch(b, r) PROVE Inv'
  <2>1. bus[b].pattern = "FULL"
    BY <1>0, <1>2 DEF Good, MissionInv, Dispatch, CanDispatch
  <2> QED
    BY <1>0, <1>2, <2>1, DeadheadingGood, AcceptKeepsInv DEF Dispatch
<1>3. ASSUME NEW b \in Bus, Recall(b) PROVE Inv'
  <2>1. bus[b].pattern = "FULL" /\ bus[b].route \in Route
    BY <1>0, <1>3 DEF Good, MissionInv, Recall, CanRecall, DonorGuard
  <2> QED
    BY <1>0, <1>3, <2>1, DeadheadingGood, AcceptKeepsInv DEF Recall
<1>4. ASSUME NEW b \in Bus, NEW r \in Route, Reassign(b, r) PROVE Inv'
  <2>1. bus[b].pattern = "FULL"
    BY <1>4 DEF Reassign, CanReassign, DonorGuard
  <2> QED
    BY <1>0, <1>4, <2>1, DeadheadingGood, AcceptKeepsInv DEF Reassign
<1>5. ASSUME NEW b \in Bus, NEW r \in Route, ShortTurn(b, r) PROVE Inv'
  <2>1. CASE bus[b].phase = "DEPOT_IDLE"
    <3>1. Good(Deadheading(Shortened(bus[b], r), r, 0))
      BY <1>0, ShortGood
    <3>2. Accept(b, Deadheading(Shortened(bus[b], r), r, 0))
      BY <1>5, <2>1 DEF ShortTurn
    <3> QED
      BY <3>1, <3>2, AcceptKeepsInv
  <2>2. CASE bus[b].phase # "DEPOT_IDLE"
    <3>1. bus[b].phase = "TERMINAL_IDLE" /\ bus[b].at = 0
      BY <1>5, <2>2 DEF ShortTurn, CanShortTurn, DonorGuard
    <3>2. Good(Shortened(bus[b], r))
      BY <1>0, <3>1, ShortGood
    <3>3. Accept(b, Shortened(bus[b], r))
      BY <1>5, <2>2 DEF ShortTurn
    <3> QED
      BY <3>2, <3>3, AcceptKeepsInv
  <2> QED
    BY <2>1, <2>2
<1>6. ASSUME NEW r \in Route, NEW h \in Headways, SetHeadway(r, h) PROVE Inv'
  <2>1. /\ ticksLeft' \in 0 .. Interval
        /\ headway' \in [Route -> Nat]
        /\ changedAt' \in [Route -> Int]
    BY <1>6, TimeAssumption DEF SetHeadway, Inv, TypeOK
  <2>2. MissionsMakeSense'
    BY <1>6 DEF SetHeadway, Inv, MissionsMakeSense, MissionInv, AtEnd,
                EdgeOpen, Limit, TurnOf
  <2> QED
    BY <1>6, <2>1, <2>2 DEF SetHeadway, Inv, TypeOK, Terminal, Terminals
<1> QED
  BY <1>1, <1>2, <1>3, <1>4, <1>5, <1>6 DEF Decide

-----------------------------------------------------------------------------
(* Ticks *)

LEMMA AfterTickGood ==
  ASSUME Inv, NEW duration \in [Entering(Fleet1) -> EdgeTimes], NEW b \in Bus
  PROVE  Good(AfterTick(Fleet1, Leaving(Fleet1), duration, b))
<1>1. Good(Fleet1[b])
  BY CompletedGood DEF Fleet1
<1>2. CASE b \in Entering(Fleet1)
  <2>1. duration[b] \in Nat
    BY <1>2, TimeAssumption
  <2>2. Fleet1[b].route \in Route /\ EdgeOpen(Fleet1[b])
    BY <1>2, EnteringOpen
  <2>3. /\ Good(EnterEdge(Fleet1[b], duration[b]))
        /\ Good([EnterEdge(Fleet1[b], duration[b])
                   EXCEPT !.pendingExtra = FALSE])
    BY <1>1, <2>1, <2>2, EnterEdgeGood
  <2> QED
    BY <1>2, <2>3, ElapseGood DEF AfterTick, Entering
<1>3. CASE b \notin Entering(Fleet1)
  BY <1>1, <1>3, ElapseGood DEF AfterTick, Entering
<1> QED
  BY <1>2, <1>3

LEMMA TickKeepsInv == ASSUME Inv, Tick PROVE Inv'
<1>1. PICK duration \in [Entering(Fleet1) -> EdgeTimes] :
        /\ FleetTick(Fleet1, duration)
        /\ load' \in [Bus -> 0 .. Capacity]
  BY DEF Tick
<1>2. \A b \in Bus : Good(bus'[b])
  BY <1>1, AfterTickGood DEF FleetTick
<1>3. bus' \in [Bus -> VehicleType]
  BY <1>1, <1>2 DEF FleetTick, Good
<1>4. MissionsMakeSense'
  BY <1>2 DEF MissionsMakeSense, Good, MissionInv, AtEnd, EdgeOpen, Limit,
              TurnOf
<1>5. /\ now' \in Nat
      /\ ticksLeft' \in 0 .. Interval
      /\ headway' \in [Route -> Nat]
      /\ changedAt' \in [Route -> Int]
  BY <1>1, TimeAssumption DEF FleetTick, Inv, TypeOK
<1>6. lastAny' \in [Terminal -> Int] /\ lastFull' \in [Terminal -> Int]
  BY <1>1 DEF FleetTick, Inv, TypeOK, Terminal, Terminals
<1> QED
  BY <1>1, <1>3, <1>4, <1>5, <1>6 DEF Inv, TypeOK, Terminal, Terminals

-----------------------------------------------------------------------------
(* The invariant and what follows from it *)

LEMMA InitGood ==
  ASSUME NEW r \in Route \cup {NoRoute}, NEW stop \in {0, LastStop}
  PROVE  Good(Vehicle(r, stop))
<1> DEFINE w == Vehicle(r, stop)
<1>1. w \in VehicleType
  BY RouteAssumption
     DEF Vehicle, VehicleType, Position, Depot, Nowhere, Phases
<1>2. MissionInv(w)
  BY RouteAssumption DEF Vehicle, MissionInv, AtEnd, Limit
<1> QED
  BY <1>1, <1>2 DEF Good

LEMMA InitInv == Init => Inv
<1> SUFFICES ASSUME Init PROVE Inv
  OBVIOUS
<1>1. \A b \in Bus : Good(bus[b])
  BY InitGood, FleetAssumption DEF Init
<1>2. /\ bus \in [Bus -> VehicleType]
      /\ MissionsMakeSense
  BY <1>1 DEF Init, Good, MissionsMakeSense
<1>3. /\ now \in Nat
      /\ ticksLeft \in 0 .. Interval
      /\ load \in [Bus -> 0 .. Capacity]
  BY FleetAssumption, TimeAssumption DEF Init
<1>4. /\ headway \in [Route -> Nat]
      /\ changedAt \in [Route -> Int]
      /\ lastAny \in [Terminal -> Int]
      /\ lastFull \in [Terminal -> Int]
  BY TimeAssumption DEF Init
<1> QED
  BY <1>2, <1>3, <1>4 DEF Inv, TypeOK

LEMMA StepInv == Inv /\ [Next]_vars => Inv'
<1> SUFFICES ASSUME Inv, [Next]_vars PROVE Inv'
  OBVIOUS
<1>1. CASE Decide
  BY <1>1, DecideKeepsInv
<1>2. CASE Tick
  BY <1>2, TickKeepsInv
<1>3. CASE UNCHANGED vars
  BY <1>3 DEF vars, Inv, TypeOK, MissionsMakeSense, MissionInv, AtEnd,
              EdgeOpen, Limit, TurnOf, Terminal, Terminals
<1> QED
  BY <1>1, <1>2, <1>3 DEF Next

\* The inductive invariant holds in every reachable state.
THEOREM Invariance == Spec => []Inv
BY InitInv, StepInv, PTL DEF Spec

\* Every variable keeps its type whatever the controller decides and whatever
\* the traffic and the passengers do; no bus exceeds its capacity, leaves the
\* stops of its route or has negative time left (domain.rs, vehicles.rs).
THEOREM TypeCorrect == Spec => []TypeOK
<1>1. Inv => TypeOK
  BY DEF Inv
<1> QED
  BY <1>1, Invariance, PTL

\* An idle bus on a route stands where the dispatcher looks for it and the
\* dispatcher will let it go (dispatcher.rs:145-218, vehicles.rs:130-150).
THEOREM IdleBusesCanLeave == Spec => []IdleBusCanLeave
<1>1. ASSUME Inv PROVE IdleBusCanLeave
  <2> SUFFICES ASSUME NEW b \in Bus, bus[b].phase = "TERMINAL_IDLE"
               PROVE  /\ TerminalOf(bus[b]) \in Terminals(bus[b].route)
                      /\ bus[b].pattern = "FULL" \/ bus[b].pendingExtra
    BY DEF IdleBusCanLeave
  <2> DEFINE v == bus[b]
  <2>1. v \in VehicleType /\ MissionInv(v)
    BY <1>1 DEF Inv, TypeOK, MissionsMakeSense
  <2>2. v.phase = "TERMINAL_IDLE"
    OBVIOUS
  <2> HIDE DEF v
  <2>3. /\ v.route \in Route /\ AtEnd(v)
        /\ v.pattern \in {"FULL", "SHORT"}
        /\ v.pattern = "SHORT" => v.turn = TurnStop[v.route] /\ v.pendingExtra
    BY <2>1, <2>2 DEF MissionInv, VehicleType
  <2>4. Limit(v) \in {LastStop, TurnStop[v.route]}
    BY <2>3 DEF Limit, TurnOf
  <2>5. TerminalOf(v) \in Terminals(v.route)
    BY <2>3, <2>4 DEF AtEnd, TerminalOf, Terminals
  <2> QED
    BY <2>3, <2>5 DEF v
<1> QED
  BY <1>1, Invariance, PTL

-----------------------------------------------------------------------------
(* Extra departures *)

\* Induction over the naturals for a set: the library's induction theorems take an
\* operator, this one the set of the numbers with the property.
LEMMA NatInductionOn ==
  ASSUME NEW P, 0 \in P, \A n \in Nat : n \in P => n + 1 \in P
  PROVE  \A n \in Nat : n \in P
<1> SUFFICES ASSUME NEW m \in Nat \ P PROVE FALSE
  OBVIOUS
<1> DEFINE T == Nat \ P
<1>1. T \subseteq Nat /\ T # {}
  OBVIOUS
<1>2. IsWellFoundedOn(OpToRel(<, Nat), Nat)
  BY NatLessThanWellFounded
<1> HIDE DEF T
<1>3. PICK x \in T : \A y \in T : ~ (<<y, x>> \in OpToRel(<, Nat))
  BY <1>1, <1>2, WFMin
<1>4. x \in Nat /\ x \notin P /\ x # 0
  BY <1>3, <1>1 DEF T
<1>5. x - 1 \in Nat /\ (x - 1) + 1 = x /\ x - 1 < x
  BY <1>4
<1>6. x - 1 \in T
  BY <1>4, <1>5 DEF T
<1>7. <<x - 1, x>> \in OpToRel(<, Nat)
  BY <1>4, <1>5 DEF OpToRel
<1> QED
  BY <1>3, <1>6, <1>7

\* A set of numbers that is not empty has a smallest element.
LEMMA MinIn ==
  ASSUME NEW S \in SUBSET Nat, NEW s \in S
  PROVE  \E e \in S : \A x \in S : e <= x
<1> DEFINE P == {n \in Nat : (\E x \in S : x <= n) => \E e \in S : \A x \in S : e <= x}
<1>1. 0 \in P
  <2> SUFFICES ASSUME NEW x \in S, x <= 0 PROVE \E e \in S : \A y \in S : e <= y
    OBVIOUS
  <2>1. \A y \in S : x <= y
    OBVIOUS
  <2> QED
    BY <2>1
<1>2. \A n \in Nat : n \in P => n + 1 \in P
  <2> SUFFICES ASSUME NEW n \in Nat, n \in P, NEW x \in S, x <= n + 1
               PROVE  \E e \in S : \A y \in S : e <= y
    OBVIOUS
  <2>1. CASE \E y \in S : y <= n
    BY <2>1
  <2>2. CASE ~(\E y \in S : y <= n)
    <3>1. \A y \in S : x <= y
      <4> TAKE y \in S
      <4>1. y \in Nat /\ x \in Nat /\ ~(y <= n)
        BY <2>2
      <4> QED
        BY <4>1
    <3> QED
      BY <3>1
  <2> QED
    BY <2>1, <2>2
<1>3. \A n \in Nat : n \in P
  <2> HIDE DEF P
  <2> QED
    BY <1>1, <1>2, NatInductionOn
<1> QED
  BY <1>3

\* A bus that still waits for its extra departure after a tick was among the extras
\* the dispatcher saw.
LEMMA WaitingWasSeen ==
  ASSUME Inv, NEW duration \in [Entering(Fleet1) -> EdgeTimes], FleetTick(Fleet1, duration),
         NEW b \in Bus, bus'[b].phase = "TERMINAL_IDLE", bus'[b].pendingExtra
  PROVE  /\ TerminalOf(bus'[b]) \in Terminal
         /\ b \in Extras(Fleet1, TerminalOf(bus'[b]))
<1> DEFINE v == Fleet1[b]
           w == bus'[b]
<1>1. w = AfterTick(Fleet1, Leaving(Fleet1), duration, b) /\ v \in VehicleType
  BY CompletedGood DEF FleetTick, Fleet1, Good
<1>2. w.phase = "TERMINAL_IDLE" /\ w.pendingExtra
  OBVIOUS
<1> HIDE DEF w, v
<1>3. b \notin Leaving(Fleet1) /\ ~DwellOver(b)
  BY <1>1, <1>2 DEF AfterTick, EnterEdge, Elapse, VehicleType, v
<1>4. w = Elapse(v)
  BY <1>1, <1>3 DEF AfterTick, v
<1>5. /\ v.phase = "TERMINAL_IDLE" /\ v.pendingExtra
      /\ TerminalOf(w) = TerminalOf(v)
  BY <1>1, <1>2, <1>4 DEF Elapse, VehicleType, TerminalOf
<1>6. v.route \in Route /\ TerminalOf(v) \in Terminals(v.route)
  <2>1. MissionInv(v)
    BY CompletedGood DEF Good, Fleet1, v
  <2>2. /\ v.route \in Route /\ AtEnd(v) /\ v.pattern \in {"FULL", "SHORT"}
        /\ v.pattern = "SHORT" => v.turn = TurnStop[v.route]
    BY <1>1, <1>5, <2>1 DEF MissionInv, VehicleType
  <2>3. Limit(v) \in {LastStop, TurnStop[v.route]}
    BY <2>2 DEF Limit, TurnOf
  <2> QED
    BY <2>2, <2>3 DEF AtEnd, TerminalOf, Terminals
<1>7. b \in Extras(Fleet1, TerminalOf(v))
  BY <1>5 DEF Extras, Ready, v
<1> QED
  BY <1>5, <1>6, <1>7 DEF Terminal, w

\* When extras are ready and the spacing is kept, one of them leaves.
LEMMA ExtrasLeave ==
  ASSUME NEW k, Extras(Fleet1, k) # {}, now - lastAny[k] >= Spacing,
         now \in Int, lastAny[k] \in Int
  PROVE  Departing(Fleet1, k) # {}
<1> DEFINE E == Extras(Fleet1, k)
<1>1. E \in SUBSET Nat /\ E # {}
  BY FleetAssumption DEF Extras, Ready
<1>2. Due(Fleet1, k) = E
  BY <1>1, TimeAssumption DEF Due
<1> HIDE DEF E
<1>3. PICK b \in E : \A c \in E : b <= c
  BY <1>1, MinIn
<1> QED
  BY <1>2, <1>3 DEF Departing

\* Extra departures keep leaving a terminal, whatever the headway, the number of
\* buses and the controller's missions (dispatcher.rs:160-184).
THEOREM ExtrasAreServed == Spec => []ExtrasKeepLeaving
<1>1. Init => ExtrasKeepLeaving
  BY DEF Init, Vehicle, ExtrasKeepLeaving
<1>2. ASSUME Inv, ExtrasKeepLeaving, [Next]_vars PROVE ExtrasKeepLeaving'
  <2>1. CASE Decide
    <3>1. ticksLeft' = Interval
      BY <2>1 DEF Decide, Noop, Dispatch, Recall, Reassign, ShortTurn, SetHeadway, Accept
    <3> QED
      BY <3>1, TimeAssumption DEF ExtrasKeepLeaving
  <2>2. CASE Tick
    <3>1. PICK duration \in [Entering(Fleet1) -> EdgeTimes] : FleetTick(Fleet1, duration)
      BY <2>2 DEF Tick
    <3>2. now' = now + 1 /\ now \in Nat
      BY <1>2, <3>1 DEF FleetTick, Inv, TypeOK
    <3>3. ASSUME NEW b \in Bus, bus'[b].phase = "TERMINAL_IDLE", bus'[b].pendingExtra,
                 NEW last, last = lastAny'[TerminalOf(bus'[b])]
          PROVE  last = now' - 1 \/ now' - 1 - last < Spacing
      <4>1. PICK k : k = TerminalOf(bus'[b])
        OBVIOUS
      <4>2. k \in Terminal /\ b \in Extras(Fleet1, k)
        BY <1>2, <3>1, <3>3, <4>1, WaitingWasSeen
      <4>3. last = IF Departing(Fleet1, k) # {} THEN now ELSE lastAny[k]
        BY <3>1, <3>3, <4>1, <4>2 DEF FleetTick
      <4>4. lastAny[k] \in Int
        BY <1>2, <4>2 DEF Inv, TypeOK
      <4>5. CASE now - lastAny[k] >= Spacing
        BY <3>2, <4>2, <4>3, <4>4, <4>5, ExtrasLeave
      <4>6. CASE ~(now - lastAny[k] >= Spacing)
        BY <3>2, <4>3, <4>4, <4>6, TimeAssumption
      <4> QED
        BY <4>5, <4>6
    <3> QED
      BY <3>3 DEF ExtrasKeepLeaving, TerminalOf
  <2>3. CASE UNCHANGED vars
    BY <1>2, <2>3 DEF vars, ExtrasKeepLeaving, TerminalOf
  <2> QED
    BY <1>2, <2>1, <2>2, <2>3 DEF Next
<1> QED
  BY <1>1, <1>2, Invariance, PTL DEF Spec

-----------------------------------------------------------------------------
(* No panic when the horizon is a whole number of control intervals *)

\* Control intervals start on the grid of interval starts and end by time
\* m * Interval.
OnGrid(m) ==
  \E q \in Nat : now + ticksLeft = q * Interval /\ q <= m

\* Between interval starts, an interval that begins before the m-th start ends
\* by it.
LEMMA NextOnGrid ==
  ASSUME NEW q \in Nat, NEW m \in Nat, q * Interval < m * Interval
  PROVE  q + 1 <= m
<1>1. Interval \in Nat
  BY TimeAssumption
<1>2. SUFFICES ASSUME m <= q PROVE FALSE
  OBVIOUS
<1>3. m * Interval <= q * Interval
  BY <1>1, <1>2
<1> QED
  BY <1>1, <1>3

LEMMA GridStep ==
  ASSUME NEW m \in Nat, Horizon = m * Interval, Inv, OnGrid(m), [Next]_vars
  PROVE  OnGrid(m)'
<1>1. PICK q \in Nat : now + ticksLeft = q * Interval /\ q <= m
  BY DEF OnGrid
<1>2. now \in Nat /\ ticksLeft \in Nat /\ Interval \in Nat
  BY TimeAssumption DEF Inv, TypeOK
<1>3. CASE Decide
  <2>1. Boundary /\ now' = now /\ ticksLeft' = Interval
    BY <1>3 DEF Decide, Noop, Dispatch, Recall, Reassign, ShortTurn,
                SetHeadway, Accept
  <2>2. now = q * Interval /\ q * Interval < m * Interval
    BY <1>1, <1>2, <2>1 DEF Boundary
  <2>3. q + 1 <= m
    BY <2>2, NextOnGrid
  <2>4. now' + ticksLeft' = (q + 1) * Interval
    BY <1>2, <2>1, <2>2
  <2> QED
    BY <2>3, <2>4 DEF OnGrid
<1>4. CASE Tick
  <2>1. now' = now + 1 /\ ticksLeft' = ticksLeft - 1
    BY <1>4 DEF Tick, FleetTick
  <2>2. now' + ticksLeft' = q * Interval
    BY <1>1, <1>2, <2>1
  <2> QED
    BY <1>1, <2>2 DEF OnGrid
<1>5. CASE UNCHANGED vars
  BY <1>5 DEF vars, OnGrid
<1> QED
  BY <1>3, <1>4, <1>5 DEF Next

\* When the horizon is a multiple of the control interval, no tick runs into an
\* assertion of the engine: no bus is sent off its pattern and the trace index
\* stays inside the event log (vehicles.rs:51-63, engine.rs:149).  For other
\* horizons the property fails.
THEOREM AlignedNeverPanics ==
  ASSUME NEW CONSTANT m \in Nat, Horizon = m * Interval
  PROVE  Spec => []NeverPanics
<1>1. Init => OnGrid(m)
  <2> SUFFICES ASSUME Init PROVE OnGrid(m)
    OBVIOUS
  <2>1. now + ticksLeft = 0 * Interval /\ 0 <= m
    BY TimeAssumption DEF Init
  <2> QED
    BY <2>1 DEF OnGrid
<1>2. Inv /\ OnGrid(m) /\ [Next]_vars => OnGrid(m)'
  BY GridStep
<1>3. Inv /\ OnGrid(m) => NeverPanics
  <2> SUFFICES ASSUME Inv, OnGrid(m), ticksLeft > 0
               PROVE  TickSafe(Fleet1)
    BY DEF NeverPanics
  <2>1. PICK q \in Nat : now + ticksLeft = q * Interval /\ q <= m
    BY DEF OnGrid
  <2>2. now \in Nat /\ ticksLeft \in Nat /\ Interval \in Nat
    BY TimeAssumption DEF Inv, TypeOK
  <2>3. q * Interval <= m * Interval
    BY <2>1, <2>2
  <2>4. now < Horizon
    BY <2>1, <2>2, <2>3
  <2> QED
    BY <2>4, EnteringOpen DEF TickSafe
<1> QED
  BY <1>1, <1>2, <1>3, Invariance, PTL DEF Spec

-----------------------------------------------------------------------------
(* The floor of two committed buses per route *)

\* Removing a bus the donor guard lets go leaves two buses committed.
LEMMA RemovalKeepsTwo ==
  ASSUME Inv, NEW r \in Route, Cardinality(FullCommitted(r)) >= 2,
         NEW b, bus[b].route = r => TwoStay(r),
         FullCommitted(r) \ {b} \subseteq FullCommitted(r)'
  PROVE  Cardinality(FullCommitted(r)') >= 2
<1>1. FullCommitted(r) \subseteq Bus /\ FullCommitted(r)' \subseteq Bus
  BY DEF FullCommitted
<1>2. IsFiniteSet(FullCommitted(r)) /\ IsFiniteSet(FullCommitted(r)')
  BY <1>1, FleetAssumption, FS_Subset
<1>3. /\ IsFiniteSet(FullCommitted(r) \ {b})
      /\ Cardinality(FullCommitted(r) \ {b}) =
           IF b \in FullCommitted(r) THEN Cardinality(FullCommitted(r)) - 1
                                     ELSE Cardinality(FullCommitted(r))
  BY <1>2, FS_RemoveElement
<1>4. b \in FullCommitted(r) => Cardinality(FullCommitted(r)) - 1 >= 2
  BY DEF FullCommitted, TwoStay
<1>5. Cardinality(FullCommitted(r) \ {b}) <= Cardinality(FullCommitted(r)')
  BY <1>2, FS_Subset
<1>6. /\ Cardinality(FullCommitted(r)) \in Nat
      /\ Cardinality(FullCommitted(r)') \in Nat
      /\ Cardinality(FullCommitted(r) \ {b}) \in Nat
  BY <1>2, <1>3, FS_CardinalityType
<1> QED
  BY <1>3, <1>4, <1>5, <1>6

\* The end of a phase takes no committed bus from its route.
LEMMA CompletedStays ==
  ASSUME Inv, NEW b \in Bus, bus[b].pattern = "FULL",
         bus[b].phase \notin {"DEPOT_IDLE", "DEADHEAD"}
  PROVE  /\ Completed(b).route = bus[b].route
         /\ Completed(b).pattern = "FULL"
         /\ Completed(b).phase \notin {"DEPOT_IDLE", "DEADHEAD"}
<1>1. bus[b] \in VehicleType
  BY DEF Inv, TypeOK
<1> QED
  BY <1>1 DEF Completed, EndEdge, EndLayover, VehicleType

LEMMA AfterTickStays ==
  ASSUME Inv, NEW duration \in [Entering(Fleet1) -> EdgeTimes], NEW b \in Bus,
         bus[b].pattern = "FULL",
         bus[b].phase \notin {"DEPOT_IDLE", "DEADHEAD"}
  PROVE  LET w == AfterTick(Fleet1, Leaving(Fleet1), duration, b)
         IN /\ w.route = bus[b].route
            /\ w.pattern = "FULL"
            /\ w.phase \notin {"DEPOT_IDLE", "DEADHEAD"}
<1> DEFINE v == Fleet1[b]
<1>1. /\ v.route = bus[b].route /\ v.pattern = "FULL"
      /\ v.phase \notin {"DEPOT_IDLE", "DEADHEAD"}
  BY CompletedStays DEF Fleet1
<1>2. v \in VehicleType
  BY CompletedGood DEF Fleet1, Good
<1> HIDE DEF v
<1> QED
  BY <1>1, <1>2 DEF AfterTick, EnterEdge, Elapse, VehicleType, v

LEMMA KeepsTwoStep ==
  ASSUME Inv, [Next]_vars, NEW r \in Route,
         Cardinality(FullCommitted(r)) >= 2
  PROVE  Cardinality(FullCommitted(r)') >= 2
<1>1. ASSUME NEW b \in Bus, NEW v, Accept(b, v)
      PROVE  FullCommitted(r) \ {b} \subseteq FullCommitted(r)'
  BY <1>1 DEF Accept, FullCommitted, Inv, TypeOK
<1>2. bus' = bus => FullCommitted(r)' = FullCommitted(r)
  BY DEF FullCommitted
<1>3. ASSUME NEW b \in Bus, bus[b].phase = "DEPOT_IDLE", NEW v, Accept(b, v)
      PROVE  Cardinality(FullCommitted(r)') >= 2
  <2>1. bus[b].route # r
    BY <1>3, RouteAssumption DEF Inv, MissionsMakeSense, MissionInv
  <2> QED
    BY <1>1, <1>3, <2>1, RemovalKeepsTwo
<1>4. ASSUME NEW b \in Bus, DonorGuard(b), NEW v, Accept(b, v)
      PROVE  Cardinality(FullCommitted(r)') >= 2
  <2>1. bus[b].route = r => TwoStay(r)
    BY <1>4 DEF DonorGuard
  <2> QED
    BY <1>1, <1>4, <2>1, RemovalKeepsTwo
<1>5. CASE Noop \/ (\E q \in Route, h \in Headways : SetHeadway(q, h))
  BY <1>2, <1>5 DEF Noop, SetHeadway
<1>6. ASSUME NEW b \in Bus, NEW q \in Route, Dispatch(b, q)
      PROVE  Cardinality(FullCommitted(r)') >= 2
  BY <1>3, <1>6 DEF Dispatch, CanDispatch
<1>7. ASSUME NEW b \in Bus, Recall(b)
      PROVE  Cardinality(FullCommitted(r)') >= 2
  BY <1>4, <1>7 DEF Recall, CanRecall
<1>8. ASSUME NEW b \in Bus, NEW q \in Route, Reassign(b, q)
      PROVE  Cardinality(FullCommitted(r)') >= 2
  BY <1>4, <1>8 DEF Reassign, CanReassign
<1>9. ASSUME NEW b \in Bus, NEW q \in Route, ShortTurn(b, q)
      PROVE  Cardinality(FullCommitted(r)') >= 2
  BY <1>3, <1>4, <1>9 DEF ShortTurn, CanShortTurn
<1>10. CASE Tick
  <2>1. PICK duration \in [Entering(Fleet1) -> EdgeTimes] :
          FleetTick(Fleet1, duration)
    BY <1>10 DEF Tick
  <2>2. FullCommitted(r) \subseteq FullCommitted(r)'
    BY <2>1, AfterTickStays DEF FleetTick, FullCommitted
  <2>3. IsFiniteSet(FullCommitted(r)')
    BY FleetAssumption, FS_Subset DEF FullCommitted
  <2>4. Cardinality(FullCommitted(r)) <= Cardinality(FullCommitted(r)')
    BY <2>2, <2>3, FS_Subset
  <2>5. /\ Cardinality(FullCommitted(r)) \in Nat
        /\ Cardinality(FullCommitted(r)') \in Nat
    BY <2>2, <2>3, FS_Subset, FS_CardinalityType
  <2> QED
    BY <2>4, <2>5
<1>11. CASE UNCHANGED vars
  BY <1>2, <1>11 DEF vars
<1> QED
  BY <1>5, <1>6, <1>7, <1>8, <1>9, <1>10, <1>11 DEF Next, Decide

\* No sequence of decisions takes a route that starts with two buses below two
\* FULL buses committed to it: the donor guard (guards.rs:21-50), which looks
\* at one decision only, protects the floor for good.
THEOREM RoutesKeepTwo == Spec => []RouteKeepsTwo
<1>1. Init => RouteKeepsTwo
  <2> SUFFICES ASSUME Init, NEW r \in Route
               PROVE  FullCommitted(r) = HomeFleet(r)
    BY DEF RouteKeepsTwo
  <2> QED
    BY RouteAssumption, FleetAssumption
       DEF Init, Vehicle, FullCommitted, HomeFleet
<1>2. Inv /\ RouteKeepsTwo /\ [Next]_vars => RouteKeepsTwo'
  BY KeepsTwoStep DEF RouteKeepsTwo, HomeFleet
<1> QED
  BY <1>1, <1>2, Invariance, PTL DEF Spec
=============================================================================
