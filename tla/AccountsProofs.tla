--------------------------- MODULE AccountsProofs ---------------------------
(***************************************************************************)
(* Proofs about the accounts of module Accounts, for any fleet, demand and *)
(* weights of the costs, about what modules Observation and Dashboard show *)
(* of a day, and about what the controllers of module Controllers do.  The *)
(* inductive invariant is AccInv: the kernel's invariant, that what was    *)
(* billed is what happened (Paid), that the minutes billed are those the   *)
(* passengers waited and rode (InTime), and that the ring of finished      *)
(* cohorts still holds all an observation looks at (Ringed).  EdgesInv is  *)
(* a second one: the tape brings every moving bus to its next stop when it *)
(* is due.                                                                 *)
(***************************************************************************)
EXTENDS Dashboard, KernelProofs

-----------------------------------------------------------------------------
(* Costs *)

\* The kinds of cost.
Kinds == DOMAIN NoCost

\* An amount per kind.
CostType == [Kinds -> Int]

\* Three more elements leave a finite set finite.
LEMMA ThreeMore ==
  ASSUME NEW S, IsFiniteSet(S), NEW x, NEW y, NEW z
  PROVE  IsFiniteSet(S \cup {x, y, z})
<1>1. IsFiniteSet(S \cup {x})
  BY FS_AddElement
<1>2. IsFiniteSet((S \cup {x}) \cup {y})
  BY <1>1, FS_AddElement
<1>3. IsFiniteSet(((S \cup {x}) \cup {y}) \cup {z})
  BY <1>2, FS_AddElement
<1>4. ((S \cup {x}) \cup {y}) \cup {z} = S \cup {x, y, z}
  OBVIOUS
<1> QED
  BY <1>3, <1>4

\* There are ten kinds of cost.
LEMMA KindsAre ==
  /\ Kinds = {"waiting", "onboard", "crowding", "active", "deadhead", "fairness",
              "first_denied", "abandoned", "mission", "unfinished"}
  /\ NoCost \in CostType
  /\ \A k \in Kinds : NoCost[k] = 0
  /\ IsFiniteSet(Kinds)
<1>1. Kinds = {"waiting", "onboard", "crowding", "active", "deadhead", "fairness",
              "first_denied", "abandoned", "mission", "unfinished"}
  BY DEF Kinds, NoCost
<1>2. \A k \in Kinds : NoCost[k] = 0
  BY <1>1 DEF NoCost
<1>3. NoCost \in CostType
  BY <1>1 DEF NoCost, CostType
<1>4. IsFiniteSet(Kinds)
  <2> DEFINE A == {} \cup {"waiting", "onboard", "crowding"}
             B == A \cup {"active", "deadhead", "fairness"}
             C == B \cup {"first_denied", "abandoned", "mission"}
             D == C \cup {"unfinished"}
  <2>1. IsFiniteSet({})
    BY FS_EmptySet
  <2>2. IsFiniteSet(A)
    BY <2>1, ThreeMore
  <2>3. IsFiniteSet(B)
    BY <2>2, ThreeMore
  <2>4. IsFiniteSet(C)
    BY <2>3, ThreeMore
  <2>5. IsFiniteSet(D)
    BY <2>4, FS_AddElement
  <2>6. Kinds = D
    BY <1>1
  <2> QED
    BY <2>5, <2>6
<1> QED
  BY <1>1, <1>2, <1>3, <1>4

\* Costs add up kind by kind.
LEMMA AddedIs ==
  ASSUME NEW x \in CostType, NEW y \in CostType
  PROVE  /\ Added(x, y) \in CostType
         /\ \A k \in Kinds : Added(x, y)[k] = x[k] + y[k]
<1>1. DOMAIN x = Kinds
  BY DEF CostType
<1>2. \A k \in Kinds : x[k] + y[k] \in Int
  BY DEF CostType
<1> QED
  BY <1>1, <1>2 DEF Added, CostType

\* The cost of two intervals is the sum of their costs.
LEMMA CostsAdd ==
  ASSUME NEW x \in CostType, NEW y \in CostType
  PROVE  /\ IntervalCost(Added(x, y)) = IntervalCost(x) + IntervalCost(y)
         /\ IntervalCost(x) \in Int
<1> DEFINE z == Added(x, y)
           f(u) == [k \in Kinds |-> Reward[k] * u[k]]
           fx == f(x)
           fy == f(y)
           fz == f(z)
<1>1. z \in CostType /\ \A k \in Kinds : z[k] = x[k] + y[k]
  BY AddedIs
<1> HIDE DEF z
<1>2. ASSUME NEW u \in CostType
      PROVE  IntervalCost(u) = SumFunctionOnSet(f(u), Kinds)
  <2>1. DOMAIN u = Kinds
    BY DEF CostType
  <2>2. IntervalCost(u) = SumFunction(f(u))
    BY <2>1 DEF IntervalCost
  <2>3. DOMAIN f(u) = Kinds
    OBVIOUS
  <2> HIDE DEF f
  <2> QED
    BY <2>2, <2>3, SumWhole
<1>3. /\ IntervalCost(x) = SumFunctionOnSet(fx, Kinds)
      /\ IntervalCost(y) = SumFunctionOnSet(fy, Kinds)
      /\ IntervalCost(z) = SumFunctionOnSet(fz, Kinds)
  BY <1>1, <1>2
<1>4. Reward \in [Kinds -> Int]
  BY AccountAssumption DEF Kinds
<1>5. \A k \in Kinds : fx[k] = Reward[k] * x[k] /\ fy[k] = Reward[k] * y[k]
                       /\ fz[k] = Reward[k] * z[k]
  OBVIOUS
<1> HIDE DEF fx, fy, fz
<1>6. \A k \in Kinds : fx[k] \in Int /\ fy[k] \in Int /\ fz[k] = fx[k] + fy[k]
  <2> TAKE k \in Kinds
  <2> DEFINE r == Reward[k]
             m == x[k]
             n == y[k]
  <2>1. r \in Int /\ m \in Int /\ n \in Int /\ z[k] = m + n
    BY <1>1, <1>4 DEF CostType
  <2>2. fx[k] = r * m /\ fy[k] = r * n /\ fz[k] = r * (m + n)
    BY <1>5, <2>1
  <2> HIDE DEF r, m, n
  <2>3. r * m \in Int /\ r * n \in Int /\ r * (m + n) = r * m + r * n
    BY <2>1
  <2> QED
    BY <2>2, <2>3
<1>7. SumFunctionOnSet(fz, Kinds) = SumFunctionOnSet(fx, Kinds) + SumFunctionOnSet(fy, Kinds)
  BY <1>6, KindsAre, SumAdd
<1>8. SumFunctionOnSet(fx, Kinds) \in Int
  BY <1>6, KindsAre, SumInt
<1> QED
  BY <1>3, <1>7, <1>8 DEF z

\* No costs, no reward.
LEMMA NoCostCosts == IntervalCost(NoCost) = 0
<1> DEFINE f == [k \in Kinds |-> Reward[k] * NoCost[k]]
<1>1. IntervalCost(NoCost) = SumFunction(f)
  BY DEF IntervalCost, Kinds
<1>2. DOMAIN f = Kinds
  OBVIOUS
<1>3. \A k \in Kinds : f[k] = 0
  <2> TAKE k \in Kinds
  <2>1. Reward[k] \in Int /\ NoCost[k] = 0
    BY AccountAssumption, KindsAre DEF Kinds
  <2> QED
    BY <2>1
<1> HIDE DEF f
<1>4. SumFunction(f) = SumFunctionOnSet(f, Kinds)
  BY <1>2, SumWhole
<1> QED
  BY <1>1, <1>3, <1>4, KindsAre, SumZero

\* The costs that have been paid or are still to be paid add up to what is owed.
LEMMA OwedIs ==
  ASSUME costs \in CostType, spent \in CostType
  PROVE  /\ Owed \in CostType
         /\ \A k \in Kinds : Owed[k] = IF ticksLeft = 0 THEN spent[k] ELSE spent[k] + costs[k]
BY AddedIs DEF Owed

-----------------------------------------------------------------------------
(* What decisions and ticks owe *)

\* A number of buses is a natural number.
LEMMA InPhaseNat == ASSUME NEW phases PROVE InPhase(phases) \in Nat
<1> DEFINE S == {b \in Bus : bus'[b].phase \in phases}
<1>1. IsFiniteSet(S)
  BY FleetAssumption, FS_Subset
<1> HIDE DEF S
<1>2. Cardinality(S) \in Nat
  BY <1>1, FS_CardinalityType
<1> QED
  BY <1>2 DEF S, InPhase

\* So is what is above a limit.
LEMMA AboveNat == ASSUME NEW x \in Int, NEW limit \in Int PROVE Above(x, limit) \in Nat
BY DEF Above

\* The costs of a tick are costs.
LEMMA TickCostsType ==
  ASSUME KInv, KInv', day' = day
  PROVE  TickCosts \in CostType
<1>1. totals' \in Counters /\ waiting' \in [Cohort -> Nat]
      /\ billed' \in [denied : Nat, abandoned : Nat, unfinished : Nat]
      /\ load' \in [Bus -> 0 .. Capacity]
  <2>1. (RidersNow \in Riders)' /\ Cohort' = Cohort
    BY DayStays DEF KInv
  <2> QED
    BY <2>1 DEF Riders, RidersNow, Counters
<1>2. billed \in [denied : Nat, abandoned : Nat, unfinished : Nat]
  BY DEF KInv, Riders, RidersNow
<1>3. IsFiniteSet(Cohort) /\ IsFiniteSet(Bus)
  BY DayFacts, FleetAssumption DEF KInv
<1> DEFINE f == [b \in Bus |-> Above(load'[b], Comfort)]
           S == {c \in Cohort : Age(c) >= ExcessAge}
<1>4. SumFunction(f) \in Nat
  <2>1. \A b \in Bus : f[b] \in Nat
    <3> TAKE b \in Bus
    <3>1. load'[b] \in Int /\ Comfort \in Int
      BY <1>1, FleetAssumption, AccountAssumption
    <3> QED
      BY <3>1, AboveNat
  <2>2. DOMAIN f = Bus
    OBVIOUS
  <2> HIDE DEF f
  <2>3. SumFunctionOnSet(f, Bus) \in Nat
    BY <1>3, <2>1, SumNat
  <2> QED
    BY <2>2, <2>3, SumWhole
<1>5. SumFunctionOnSet(waiting', S) \in Nat
  <2>1. IsFiniteSet(S) /\ \A c \in S : c \in Cohort
    BY <1>3, FS_Subset
  <2>2. \A c \in S : waiting'[c] \in Nat
    BY <1>1, <2>1
  <2> HIDE DEF S
  <2> QED
    BY <2>1, <2>2, SumNat
<1>6. InPhase(Phases \ {"DEPOT_IDLE"}) \in Nat /\ InPhase({"DEADHEAD"}) \in Nat
  BY InPhaseNat
<1>7. /\ totals'.waiting \in Int /\ totals'.onboard \in Int
      /\ billed'.denied - billed.denied \in Int
      /\ billed'.abandoned - billed.abandoned \in Int
      /\ billed'.unfinished - billed.unfinished \in Int
  BY <1>1, <1>2 DEF Counters
<1> DEFINE T == [waiting |-> totals'.waiting,
   onboard |-> totals'.onboard,
   crowding |-> SumFunction(f),
   active |-> InPhase(Phases \ {"DEPOT_IDLE"}),
   deadhead |-> InPhase({"DEADHEAD"}),
   fairness |-> SumFunctionOnSet(waiting', S),
   first_denied |-> billed'.denied - billed.denied,
   abandoned |-> billed'.abandoned - billed.abandoned,
   mission |-> 0,
   unfinished |-> billed'.unfinished - billed.unfinished]
<1>8. TickCosts = T
  BY DEF TickCosts
<1> HIDE DEF f, S
<1>9. T \in CostType
  BY <1>4, <1>5, <1>6, <1>7, KindsAre DEF CostType
<1> QED
  BY <1>8, <1>9

\* The part of the books that has to do with events and rewards.
Paid ==
  /\ costs \in CostType
  /\ spent \in CostType
  /\ now <= Horizon
  /\ reward = -IntervalCost(spent)
  /\ Owed.first_denied = billed.denied
  /\ Owed.abandoned = billed.abandoned
  /\ Owed.unfinished = billed.unfinished

\* A decision begins the costs of a new interval with at most a mission's, and those
\* of the last one have been spent.
LEMMA DecideOwes ==
  ASSUME KInv, Paid, AccDecide
  PROVE  /\ costs' \in CostType /\ spent' = spent /\ reward' = reward
         /\ \A k \in Kinds \ {"mission"} : Owed'[k] = Owed[k]
         /\ now' = now /\ UNCHANGED <<day, riders>> /\ now < Horizon
<1>1. spent' = spent /\ reward' = reward /\ Decide /\ UNCHANGED <<day, riders>>
  BY DEF AccDecide, KDecide
<1>2. ticksLeft = 0 /\ ticksLeft' = Interval /\ now < Horizon
  BY <1>1 DEF Decide, Noop, Dispatch, Recall, Reassign, ShortTurn, SetHeadway, Boundary, Accept
<1>3. now' = now
  BY <1>1, DecideBus DEF KInv
<1>4. PICK n : n \in {0, 1} /\ costs' = [NoCost EXCEPT !.mission = n]
  BY DEF AccDecide
<1>5. costs' \in CostType /\ \A k \in Kinds \ {"mission"} : costs'[k] = 0
  BY <1>4, KindsAre DEF CostType
<1>6. Interval # 0
  BY TimeAssumption
<1>7. Owed' = Added(spent, costs')
  BY <1>1, <1>2, <1>6 DEF Owed, Added
<1>8. \A k \in Kinds \ {"mission"} : Owed'[k] = spent[k]
  <2> TAKE k \in Kinds \ {"mission"}
  <2>1. PICK x : x = costs'
    OBVIOUS
  <2>2. Owed'[k] = spent[k] + x[k]
    BY <1>5, <1>7, <2>1, AddedIs DEF Paid
  <2>3. spent[k] \in Int /\ x[k] = 0
    BY <1>5, <2>1 DEF Paid, CostType
  <2> QED
    BY <2>2, <2>3
<1>9. \A k \in Kinds : Owed[k] = spent[k]
  BY <1>2 DEF Owed
<1> QED
  BY <1>1, <1>2, <1>3, <1>5, <1>8, <1>9

\* A tick adds its costs to what is owed, whether it ends the interval or not, and
\* rewards the cost that is spent.
LEMMA TickOwes ==
  ASSUME KInv, Paid, AccTick, TickCosts \in CostType
  PROVE  /\ costs' \in CostType /\ spent' \in CostType
         /\ reward' = -IntervalCost(spent')
         /\ \A k \in Kinds : Owed'[k] = Owed[k] + TickCosts[k]
<1>1. /\ KTick /\ costs' = Added(costs, TickCosts)
      /\ IF ticksLeft = 1
         THEN /\ spent' = Added(spent, costs')
              /\ reward' = reward - IntervalCost(costs')
         ELSE UNCHANGED <<spent, reward>>
  BY DEF AccTick
<1>2. ticksLeft > 0 /\ ticksLeft' = ticksLeft - 1 /\ ticksLeft \in Nat
  BY <1>1, TickOfFleet DEF Tick, FleetTick, KInv, Inv, TypeOK
<1>3. PICK T, new : T = TickCosts /\ new = costs'
  OBVIOUS
<1>4. T \in CostType /\ costs \in CostType /\ spent \in CostType
  BY <1>3 DEF Paid
<1>5. new \in CostType /\ \A k \in Kinds : new[k] = costs[k] + T[k]
  BY <1>1, <1>3, <1>4, AddedIs
<1>6. \A k \in Kinds : Owed[k] = spent[k] + costs[k]
  BY <1>2, <1>4, OwedIs
<1>7. \A k \in Kinds : T[k] \in Int /\ costs[k] \in Int /\ spent[k] \in Int /\ new[k] \in Int
  BY <1>4, <1>5 DEF CostType
<1>8. Added(spent, new) \in CostType /\ \A k \in Kinds : Added(spent, new)[k] = spent[k] + new[k]
  BY <1>4, <1>5, AddedIs
<1>9. Owed' = Added(spent, new)
  <2>1. CASE ticksLeft = 1
    BY <1>1, <1>2, <1>3, <2>1 DEF Owed
  <2>2. CASE ticksLeft # 1
    BY <1>1, <1>2, <1>3, <2>2 DEF Owed, Added
  <2> QED
    BY <2>1, <2>2
<1>10. \A k \in Kinds : Owed'[k] = Owed[k] + T[k]
  <2> TAKE k \in Kinds
  <2>1. Owed'[k] = spent[k] + new[k] /\ new[k] = costs[k] + T[k] /\ Owed[k] = spent[k] + costs[k]
    BY <1>5, <1>6, <1>8, <1>9
  <2>2. T[k] \in Int /\ costs[k] \in Int /\ spent[k] \in Int
    BY <1>7
  <2> QED
    BY <2>1, <2>2
<1>11. reward' = -IntervalCost(spent') /\ spent' \in CostType
  <2>1. CASE ticksLeft = 1
    <3>1. spent' = Added(spent, new) /\ reward' = reward - IntervalCost(new)
      <4>1. IntervalCost(costs') = IntervalCost(new)
        BY <1>3
      <4> QED
        BY <1>1, <1>3, <2>1, <4>1
    <3>2. /\ IntervalCost(Added(spent, new)) = IntervalCost(spent) + IntervalCost(new)
          /\ IntervalCost(spent) \in Int
      BY <1>4, <1>5, CostsAdd
    <3>3. IntervalCost(new) \in Int
      BY <1>5, CostsAdd
    <3>4. IntervalCost(spent') = IntervalCost(Added(spent, new))
      BY <3>1
    <3>5. reward = -IntervalCost(spent)
      BY DEF Paid
    <3> QED
      BY <1>8, <3>1, <3>2, <3>3, <3>4, <3>5
  <2>2. CASE ticksLeft # 1
    <3>1. spent' = spent /\ reward' = reward
      BY <1>1, <2>2
    <3>2. IntervalCost(spent') = IntervalCost(spent)
      BY <3>1
    <3> QED
      BY <1>4, <3>1, <3>2 DEF Paid
  <2> QED
    BY <2>1, <2>2
<1> QED
  BY <1>3, <1>5, <1>10, <1>11

\* A tick keeps the accounts paid.
LEMMA TickPays ==
  ASSUME KInv, KInv', Paid, AccTick
  PROVE  Paid'
<1>1. KTick
  BY DEF AccTick
<1>2. now < Horizon /\ now' = now + 1 /\ day' = day /\ now \in Nat /\ Horizon \in Nat
  BY <1>1, TickServes, TimeAssumption DEF TickTo, KInv, Inv, TypeOK
<1>3. /\ costs' \in CostType /\ spent' \in CostType
      /\ reward' = -IntervalCost(spent')
      /\ \A k \in Kinds : Owed'[k] = Owed[k] + TickCosts[k]
  BY <1>2, TickCostsType, TickOwes
<1>4. /\ TickCosts.first_denied = billed'.denied - billed.denied
      /\ TickCosts.abandoned = billed'.abandoned - billed.abandoned
      /\ TickCosts.unfinished = billed'.unfinished - billed.unfinished
  BY DEF TickCosts
<1>5. {"first_denied", "abandoned", "unfinished"} \subseteq Kinds
  BY KindsAre
<1>6. /\ billed \in [denied : Nat, abandoned : Nat, unfinished : Nat]
      /\ billed' \in [denied : Nat, abandoned : Nat, unfinished : Nat]
  BY DEF KInv, Riders, RidersNow
<1>7. PICK O : O = Owed'
  OBVIOUS
<1>8. /\ O.first_denied = billed'.denied
      /\ O.abandoned = billed'.abandoned
      /\ O.unfinished = billed'.unfinished
  BY <1>3, <1>4, <1>5, <1>6, <1>7 DEF Paid
<1>9. /\ (Owed.first_denied = billed.denied)'
      /\ (Owed.abandoned = billed.abandoned)'
      /\ (Owed.unfinished = billed.unfinished)'
  BY <1>7, <1>8
<1>10. (reward = -IntervalCost(spent))'
  <2>1. IntervalCost(spent)' = IntervalCost(spent')
    BY DEF IntervalCost
  <2> QED
    BY <1>3, <2>1
<1>11. (costs \in CostType)' /\ (spent \in CostType)'
  BY <1>3 DEF CostType, Kinds, NoCost
<1>12. (now <= Horizon)'
  BY <1>2
<1> QED
  BY <1>9, <1>10, <1>11, <1>12 DEF Paid

\* So does a decision.
LEMMA DecidePays ==
  ASSUME KInv, Paid, AccDecide
  PROVE  Paid'
<1>1. /\ costs' \in CostType /\ spent' = spent /\ reward' = reward
      /\ \A k \in Kinds \ {"mission"} : Owed'[k] = Owed[k]
      /\ now' = now /\ UNCHANGED <<day, riders>>
  BY DecideOwes
<1>2. {"first_denied", "abandoned", "unfinished"} \subseteq Kinds \ {"mission"}
  BY KindsAre
<1>3. billed' = billed
  BY <1>1 DEF riders
<1>4. /\ (Owed.first_denied = billed.denied)'
      /\ (Owed.abandoned = billed.abandoned)'
      /\ (Owed.unfinished = billed.unfinished)'
  BY <1>1, <1>2, <1>3 DEF Paid
<1>5. (reward = -IntervalCost(spent))'
  <2>1. IntervalCost(spent)' = IntervalCost(spent)
    BY <1>1 DEF IntervalCost
  <2> QED
    BY <1>1, <2>1 DEF Paid
<1>6. (costs \in CostType)' /\ (spent \in CostType)'
  BY <1>1 DEF Paid, CostType, Kinds, NoCost
<1> QED
  BY <1>1, <1>4, <1>5, <1>6 DEF Paid

-----------------------------------------------------------------------------
(* The minute that passes *)

\* What a minute of waiting is worth to fairness.
Beyond == [i \in Int |-> Above(i, ExcessAge)]

\* Minutes beyond the excess age are a weight.
LEMMA BeyondWeight == Beyond \in Weights
BY AccountAssumption DEF Beyond, Weights, Above

\* The wait of the passengers X of cohort c a tick later.
WaitLater(X, wt, c) == Times(X.waited[c], wt) + Worth(X.waiting[c], wt[Age(c) + 1])

\* The worth of all waits in the next state, with the clock moved on.
LEMMA WaitsLater ==
  ASSUME day \in Days, now \in Nat, day' = day, now' = now + 1, NEW X, X = RidersNow',
         NEW wt
  PROVE  WaitingTime(RidersNow, wt)'
           = SumFunctionOnSet([c \in Cohort |-> WaitLater(X, wt, c)], Cohort)
<1>1. Cohort' = Cohort /\ \A c : Trip(c)' = Trip(c)
  BY DayStays
<1>2. ASSUME NEW c \in Cohort PROVE Age(c)' = Age(c) + 1
  <2>1. Trip(c).tick \in Nat /\ Trip(c)' = Trip(c)
    BY <1>1, TripType
  <2> QED
    BY <2>1 DEF Age
<1>3. ASSUME NEW c \in Cohort PROVE WaitOf(RidersNow, wt, c)' = WaitLater(X, wt, c)
  BY <1>2 DEF WaitOf, WaitLater
<1> DEFINE f == [c \in Cohort |-> WaitLater(X, wt, c)]
           g == [c \in Cohort |-> WaitOf(RidersNow, wt, c)]
<1>4. g' = f
  <2>1. g' = [c \in Cohort' |-> WaitOf(RidersNow, wt, c)']
    OBVIOUS
  <2> QED
    BY <1>1, <1>3, <2>1
<1>5. WaitingTime(RidersNow, wt) = SumFunctionOnSet(g, Cohort)
  BY DEF WaitingTime
<1>6. WaitingTime(RidersNow, wt)' = SumFunctionOnSet(g', Cohort')
  BY DEF WaitingTime
<1> QED
  BY <1>1, <1>4, <1>6

\* In a tick, everybody who waits grows a minute older, and nothing else changes the
\* worth of the waits.
LEMMA WaitsAge ==
  ASSUME KInv, NEW R, TickTo(R), NEW X \in Riders, X = RidersNow', NEW wt \in Weights,
         NEW g, \A c \in Cohort : g[c] = Worth(X.waiting[c], wt[Age(c) + 1])
                                          - Worth(X.waiting[c], wt[Age(c)])
  PROVE  WaitingTime(RidersNow, wt)'
           = WaitingTime(RidersNow, wt) + SumFunctionOnSet(g, Cohort)
<1>1. day \in Days /\ now \in Nat /\ day' = day /\ now' = now + 1 /\ IsFiniteSet(Cohort)
  BY DayFacts DEF KInv, Inv, TypeOK, TickTo
<1>2. X.waited = R.waited /\ X.waiting = R.waiting
  BY TickSettles
<1>3. WaitingTime(X, wt) = WaitingTime(RidersNow, wt)
  <2>1. WaitingTime(R, wt) = WaitingTime(RidersNow, wt)
    BY DEF TickTo, Served, Timed
  <2>2. WaitingTime(X, wt) = WaitingTime(R, wt)
    BY <1>2 DEF WaitingTime, WaitOf
  <2> QED
    BY <2>1, <2>2
<1> DEFINE f == [c \in Cohort |-> WaitOf(X, wt, c)]
           h == [c \in Cohort |-> WaitLater(X, wt, c)]
<1>4. WaitingTime(X, wt) = SumFunctionOnSet(f, Cohort)
  BY DEF WaitingTime
<1>5. WaitingTime(RidersNow, wt)' = SumFunctionOnSet(h, Cohort)
  BY <1>1, WaitsLater
<1>6. \A c \in Cohort : f[c] = WaitOf(X, wt, c) /\ h[c] = WaitLater(X, wt, c)
  OBVIOUS
<1> HIDE DEF f, h
<1>7. \A c \in Cohort : f[c] \in Int /\ g[c] \in Int /\ h[c] = f[c] + g[c]
  <2> TAKE c \in Cohort
  <2> DEFINE t == Times(X.waited[c], wt)
             p == Worth(X.waiting[c], wt[Age(c)])
             q == Worth(X.waiting[c], wt[Age(c) + 1])
  <2>1. t \in Nat /\ p \in Nat /\ Age(c) \in Int
    BY <1>1, WaitInt
  <2>2. q \in Nat
    <3>1. X.waiting[c] \in Nat
      BY DEF Riders
    <3>2. wt[Age(c) + 1] \in Nat
      BY <2>1 DEF Weights
    <3> QED
      BY <3>1, <3>2, WorthNat
  <2>3. f[c] = t + p /\ h[c] = t + q /\ g[c] = q - p
    BY <1>6 DEF WaitOf, WaitLater
  <2> HIDE DEF t, p, q
  <2> QED
    BY <2>1, <2>2, <2>3
<1>8. SumFunctionOnSet(h, Cohort) = SumFunctionOnSet(f, Cohort) + SumFunctionOnSet(g, Cohort)
  BY <1>1, <1>7, SumAdd
<1> QED
  BY <1>3, <1>4, <1>5, <1>8

\* Each tick, everybody who waits has waited a minute more.
LEMMA MinutesPass ==
  ASSUME KInv, NEW R, TickTo(R), NEW X, X = RidersNow'
  PROVE  WaitingTime(RidersNow, Minutes)' = WaitingTime(RidersNow, Minutes) + totals'.waiting
<1>1. day \in Days /\ now \in Nat /\ IsFiniteSet(Cohort)
  BY DayFacts DEF KInv, Inv, TypeOK
<1>2. Settled(X, now + 1)
  BY TickSettles
<1>3. X \in Riders /\ Counted(X, Came(now + 1))
  BY <1>2 DEF Settled
<1>4. \A c \in Cohort : X.waiting[c] = Worth(X.waiting[c], Minutes[Age(c) + 1])
                                        - Worth(X.waiting[c], Minutes[Age(c)])
  <2> TAKE c \in Cohort
  <2> DEFINE n == X.waiting[c]
             a == Age(c)
             x == Minutes[a]
             y == Minutes[a + 1]
  <2>1. n \in Nat /\ a \in Int
    BY <1>1, <1>3, WaitInt, MinutesWeight DEF Riders
  <2>2. x \in Nat /\ y \in Nat
    <3> HIDE DEF a
    <3> QED
      BY <2>1 DEF Minutes
  <2>3. CASE n = 0
    <3>1. Worth(0, y) = 0 /\ Worth(0, x) = 0
      BY <2>2, WorthNothing
    <3> QED
      BY <2>3, <3>1
  <2>4. CASE n # 0
    <3>1. Trip(c).tick < now + 1
      BY <1>1, <1>3, <2>4, NotYet
    <3>2. a >= 0
      BY <1>1, <3>1, TripType DEF Age
    <3> HIDE DEF a
    <3>3. y = x + 1
      BY <2>1, <3>2 DEF Minutes
    <3> HIDE DEF x, y, n
    <3>4. Worth(n, y) - Worth(n, x) = n
      <4>1. n * y \in Int /\ n * x \in Int /\ n * (x + 1) = n * x + n
        BY <2>1, <2>2
      <4> QED
        BY <2>1, <2>2, <3>3, <4>1 DEF Worth
    <3>5. n = Worth(n, y) - Worth(n, x)
      BY <3>4
    <3> USE DEF x, y, n, a
    <3> QED
      BY <3>5
  <2> QED
    BY <2>3, <2>4
<1>5. WaitingTime(RidersNow, Minutes)'
        = WaitingTime(RidersNow, Minutes) + SumFunctionOnSet(X.waiting, Cohort)
  <2> DEFINE g == X.waiting
  <2>1. \A c \in Cohort : g[c] = Worth(X.waiting[c], Minutes[Age(c) + 1])
                                  - Worth(X.waiting[c], Minutes[Age(c)])
    BY <1>4
  <2>2. Minutes \in Weights
    BY MinutesWeight
  <2> HIDE DEF g
  <2>3. WaitingTime(RidersNow, Minutes)'
          = WaitingTime(RidersNow, Minutes) + SumFunctionOnSet(g, Cohort)
    BY <1>3, <2>1, <2>2, WaitsAge
  <2> QED
    BY <2>3 DEF g
<1>6. totals'.waiting = SumFunctionOnSet(X.waiting, Cohort)
  <2>1. totals' = X.totals
    BY DEF RidersNow
  <2> QED
    BY <1>3, <2>1 DEF Counted
<1> QED
  BY <1>5, <1>6

\* Each tick, those who have waited too long have done so a minute more.
LEMMA ExcessPasses ==
  ASSUME KInv, NEW R, TickTo(R), NEW X, X = RidersNow'
  PROVE  WaitingTime(RidersNow, Beyond)'
           = WaitingTime(RidersNow, Beyond)
             + SumFunctionOnSet(waiting', {c \in Cohort : Age(c) >= ExcessAge})
<1>1. day \in Days /\ now \in Nat /\ IsFiniteSet(Cohort) /\ ExcessAge \in Nat
  BY DayFacts, AccountAssumption DEF KInv, Inv, TypeOK
<1>2. Settled(X, now + 1)
  BY TickSettles
<1>3. X \in Riders /\ Counted(X, Came(now + 1))
  BY <1>2 DEF Settled
<1> DEFINE S == {c \in Cohort : Age(c) >= ExcessAge}
           g == [c \in Cohort |-> IF c \in S THEN X.waiting[c] ELSE 0]
<1>4. \A c \in Cohort : g[c] = Worth(X.waiting[c], Beyond[Age(c) + 1])
                                - Worth(X.waiting[c], Beyond[Age(c)])
  <2> TAKE c \in Cohort
  <2> DEFINE n == X.waiting[c]
             a == Age(c)
             x == Beyond[a]
             y == Beyond[a + 1]
  <2>1. n \in Nat /\ a \in Int
    BY <1>1, <1>3, WaitInt, MinutesWeight DEF Riders
  <2>2. g[c] = IF a >= ExcessAge THEN n ELSE 0
    OBVIOUS
  <2>3. /\ x \in Nat
        /\ a >= ExcessAge => y = x + 1
        /\ ~(a >= ExcessAge) => y = x
    <3> HIDE DEF a
    <3> QED
      BY <1>1, <2>1 DEF Beyond, Above
  <2>4. g[c] = Worth(n, y) - Worth(n, x)
    <3> HIDE DEF g, n, x, y, a
    <3>1. CASE a >= ExcessAge
      <4>1. n * y \in Int /\ n * x \in Int /\ n * (x + 1) = n * x + n
        BY <2>1, <2>3, <3>1
      <4> QED
        BY <2>1, <2>2, <2>3, <3>1, <4>1 DEF Worth
    <3>2. CASE ~(a >= ExcessAge)
      <4>1. Worth(n, x) \in Int
        BY <2>1, <2>3, WorthInt
      <4> QED
        BY <2>2, <2>3, <3>2, <4>1
    <3> QED
      BY <3>1, <3>2
  <2> QED
    BY <2>4
<1>5. WaitingTime(RidersNow, Beyond)'
        = WaitingTime(RidersNow, Beyond) + SumFunctionOnSet(g, Cohort)
  <2> HIDE DEF g
  <2> QED
    BY <1>3, <1>4, BeyondWeight, WaitsAge
<1>6. SumFunctionOnSet(g, Cohort) = SumFunctionOnSet(X.waiting, Cohort \cap S)
  <2>1. \A c \in Cohort \cap S : X.waiting[c] \in Int /\ g[c] = X.waiting[c]
    BY <1>3 DEF Riders
  <2>2. \A c \in Cohort \ S : g[c] = 0
    OBVIOUS
  <2> HIDE DEF S, g
  <2> QED
    BY <1>1, <2>1, <2>2, SumPart
<1>7. Cohort \cap S = S /\ X.waiting = waiting'
  BY DEF RidersNow
<1> QED
  BY <1>5, <1>6, <1>7

\* One unit more of something n have.
LEMMA TimesNext == \A n, y \in Int : n * y \in Int /\ n * (y + 1) = n * y + n
OBVIOUS

\* Each tick, everybody aboard has ridden a minute more.
LEMMA RidesPass ==
  ASSUME KInv, NEW R, TickTo(R), NEW X, X = RidersNow'
  PROVE  RideTime(RidersNow)' = RideTime(RidersNow) + totals'.onboard
<1>1. /\ day \in Days /\ now \in Nat /\ day' = day /\ now' = now + 1
      /\ IsFiniteSet(Cohort) /\ IsFiniteSet(Bus)
  BY DayFacts, FleetAssumption DEF KInv, Inv, TypeOK, TickTo
<1>2. /\ X.rode = R.rode /\ X.aboard = R.aboard /\ X.boardedAt = R.boardedAt
      /\ Settled(X, now + 1)
  BY TickSettles
<1>3. X \in Riders /\ Counted(X, Came(now + 1))
  BY <1>2 DEF Settled
<1>4. RideTime(X) = RideTime(RidersNow)
  <2>1. RideTime(R) = RideTime(RidersNow)
    BY DEF TickTo, Served, Timed
  <2>2. RideTime(X) = RideTime(R)
    BY <1>2 DEF RideTime, RidesOf, RideOf
  <2> QED
    BY <2>1, <2>2
<1>5. Cohort' = Cohort
  BY <1>1, DayStays
<1> DEFINE later(b, c) == Worth(X.aboard[b][c], now + 1 - X.boardedAt[b][c])
           row(c) == [b \in Bus |-> later(b, c)]
           was(c) == [b \in Bus |-> RideOf(X, b, c)]
           with(c) == [b \in Bus |-> X.aboard[b][c]]
           f == [c \in Cohort |-> RidesOf(X, c)]
           g == [c \in Cohort |-> Riding(X.aboard, c)]
           h == [c \in Cohort |-> Times(X.rode[c], Minutes) + SumFunctionOnSet(row(c), Bus)]
<1>6. RideTime(RidersNow)' = SumFunctionOnSet(h, Cohort)
  <2> DEFINE u == [c \in Cohort |-> RidesOf(RidersNow, c)]
  <2>1. ASSUME NEW c \in Cohort PROVE RidesOf(RidersNow, c)' = h[c]
    <3> DEFINE r == [b \in Bus |-> RideOf(RidersNow, b, c)]
    <3>1. \A b \in Bus : RideOf(RidersNow, b, c)' = later(b, c)
      <4> TAKE b \in Bus
      <4>1. RideOf(RidersNow, b, c)' = Worth(X.aboard[b][c], now' - X.boardedAt[b][c])
        BY DEF RideOf
      <4>2. now' - X.boardedAt[b][c] = now + 1 - X.boardedAt[b][c]
        <5>1. X.boardedAt[b][c] \in Nat
          BY <1>3 DEF Riders
        <5> DEFINE y == X.boardedAt[b][c]
        <5> HIDE DEF y
        <5>2. now' - y = now + 1 - y
          BY <1>1, <5>1 DEF y
        <5> QED
          BY <5>2 DEF y
      <4> QED
        BY <4>1, <4>2
    <3>2. r' = [b \in Bus |-> RideOf(RidersNow, b, c)']
      OBVIOUS
    <3>3. r' = row(c)
      BY <3>1, <3>2
    <3>4. RidesOf(RidersNow, c) = Times(RidersNow.rode[c], Minutes) + SumFunctionOnSet(r, Bus)
      BY DEF RidesOf
    <3>5. RidesOf(RidersNow, c)' = Times(X.rode[c], Minutes) + SumFunctionOnSet(r', Bus)
      BY DEF RidesOf
    <3> QED
      BY <3>3, <3>5
  <2>2. u' = [c \in Cohort' |-> RidesOf(RidersNow, c)']
    OBVIOUS
  <2>3. u' = h
    BY <1>5, <2>1, <2>2
  <2>4. RideTime(RidersNow)' = SumFunctionOnSet(u', Cohort')
    BY DEF RideTime
  <2> QED
    BY <1>5, <2>3, <2>4
<1>7. RideTime(X) = SumFunctionOnSet(f, Cohort)
  BY DEF RideTime
<1>8. ASSUME NEW c \in Cohort
      PROVE  f[c] \in Int /\ g[c] \in Nat /\ h[c] = f[c] + g[c]
  <2>1. \A b \in Bus : was(c)[b] \in Int /\ with(c)[b] \in Int /\ row(c)[b] = was(c)[b] + with(c)[b]
    <3> TAKE b \in Bus
    <3> DEFINE n == X.aboard[b][c]
               y == now - X.boardedAt[b][c]
               z == now + 1 - X.boardedAt[b][c]
    <3>1. n \in Nat /\ X.boardedAt[b][c] \in Nat
      BY <1>3 DEF Riders
    <3>2. y \in Int /\ z = y + 1
      BY <1>1, <3>1
    <3>3. was(c)[b] = Worth(n, y) /\ with(c)[b] = n /\ row(c)[b] = Worth(n, z)
      BY DEF RideOf
    <3> HIDE DEF n, y, z, was, with, row
    <3>4. n * y \in Int /\ n * (y + 1) = n * y + n
      BY <3>1, <3>2, TimesNext
    <3> QED
      BY <3>1, <3>2, <3>3, <3>4 DEF Worth
  <2> DEFINE p == row(c)
             q == was(c)
             s == with(c)
  <2>2. Times(X.rode[c], Minutes) \in Nat
    <3>1. X.rode[c] \in [Span -> Nat]
      BY <1>3 DEF Riders, Span
    <3> QED
      BY <3>1, TimesNat, MinutesWeight
  <2>3. /\ f[c] = Times(X.rode[c], Minutes) + SumFunctionOnSet(q, Bus)
        /\ h[c] = Times(X.rode[c], Minutes) + SumFunctionOnSet(p, Bus)
        /\ g[c] = SumFunctionOnSet(s, Bus)
    BY DEF RidesOf, Riding
  <2>4. g[c] \in Nat
    BY <1>3, RidingNat
  <2>5. \A b \in Bus : q[b] \in Int /\ s[b] \in Int /\ p[b] = q[b] + s[b]
    BY <2>1
  <2> HIDE DEF p, q, s, f, g, h
  <2>6. SumFunctionOnSet(p, Bus) = SumFunctionOnSet(q, Bus) + SumFunctionOnSet(s, Bus)
    BY <1>1, <2>5, SumAdd
  <2>7. SumFunctionOnSet(q, Bus) \in Int
    BY <1>1, <2>5, SumInt
  <2> QED
    BY <2>2, <2>3, <2>4, <2>6, <2>7
<1> HIDE DEF f, h
<1>9. SumFunctionOnSet(h, Cohort) = SumFunctionOnSet(f, Cohort) + SumFunctionOnSet(g, Cohort)
  <2> HIDE DEF g
  <2>1. \A c \in Cohort : f[c] \in Int /\ g[c] \in Int /\ h[c] = f[c] + g[c]
    BY <1>8
  <2> QED
    BY <1>1, <2>1, SumAdd
<1>10. SumFunctionOnSet(g, Cohort) = X.totals.onboard
  <2> DEFINE w == X.waiting
             d == X.completed
             e == X.abandoned
             K == Came(now + 1)
             wg == [c \in Cohort |-> w[c] + g[c]]
             de == [c \in Cohort |-> d[c] + e[c]]
  <2>1. \A c \in Cohort : w[c] \in Nat /\ d[c] \in Nat /\ e[c] \in Nat /\ g[c] \in Nat
    BY <1>3, <1>8 DEF Riders
  <2>2. \A c \in Cohort : K[c] = wg[c] + de[c]
    <3> TAKE c \in Cohort
    <3>1. w[c] + g[c] + d[c] + e[c] = K[c]
      BY <1>3 DEF Counted
    <3> HIDE DEF w, d, e, K, g
    <3> QED
      BY <2>1, <3>1
  <2>3. /\ X.totals.generated = SumFunctionOnSet(K, Cohort)
        /\ X.totals.waiting = SumFunctionOnSet(w, Cohort)
        /\ X.totals.completed = SumFunctionOnSet(d, Cohort)
        /\ X.totals.abandoned = SumFunctionOnSet(e, Cohort)
    BY <1>3 DEF Counted
  <2>4. X.totals.generated = X.totals.waiting + X.totals.onboard
                              + X.totals.completed + X.totals.abandoned
    BY <1>2 DEF Settled
  <2>5. X.totals.onboard \in Int
    BY <1>3 DEF Riders, Counters
  <2>6. \A c \in Cohort : wg[c] = w[c] + g[c] /\ de[c] = d[c] + e[c]
    OBVIOUS
  <2> HIDE DEF w, d, e, K, g, wg, de
  <2>7. SumFunctionOnSet(wg, Cohort) = SumFunctionOnSet(w, Cohort) + SumFunctionOnSet(g, Cohort)
    BY <1>1, <2>1, <2>6, SumAdd
  <2>8. SumFunctionOnSet(de, Cohort) = SumFunctionOnSet(d, Cohort) + SumFunctionOnSet(e, Cohort)
    BY <1>1, <2>1, <2>6, SumAdd
  <2>9. SumFunctionOnSet(K, Cohort) = SumFunctionOnSet(wg, Cohort) + SumFunctionOnSet(de, Cohort)
    <3>1. \A c \in Cohort : wg[c] \in Int /\ de[c] \in Int
      BY <2>1, <2>6
    <3> QED
      BY <1>1, <2>2, <3>1, SumAdd
  <2>10. /\ SumFunctionOnSet(w, Cohort) \in Int /\ SumFunctionOnSet(g, Cohort) \in Int
         /\ SumFunctionOnSet(d, Cohort) \in Int /\ SumFunctionOnSet(e, Cohort) \in Int
    <3>1. SumFunctionOnSet(w, Cohort) \in Nat
      BY <1>1, <2>1, SumNat
    <3>2. SumFunctionOnSet(g, Cohort) \in Nat
      BY <1>1, <2>1, SumNat
    <3>3. SumFunctionOnSet(d, Cohort) \in Nat
      BY <1>1, <2>1, SumNat
    <3>4. SumFunctionOnSet(e, Cohort) \in Nat
      BY <1>1, <2>1, SumNat
    <3> QED
      BY <3>1, <3>2, <3>3, <3>4
  <2> DEFINE sw == SumFunctionOnSet(w, Cohort)
             sg == SumFunctionOnSet(g, Cohort)
             sd == SumFunctionOnSet(d, Cohort)
             se == SumFunctionOnSet(e, Cohort)
             o == X.totals.onboard
  <2>11. /\ sw \in Int /\ sg \in Int /\ sd \in Int /\ se \in Int /\ o \in Int
         /\ (sw + sg) + (sd + se) = sw + o + sd + se
    BY <2>3, <2>4, <2>5, <2>7, <2>8, <2>9, <2>10
  <2> HIDE DEF sw, sg, sd, se, o
  <2>12. sg = o
    BY <2>11
  <2> QED
    BY <2>12 DEF sg, o
<1>11. X.totals = totals'
  BY DEF RidersNow
<1> QED
  BY <1>4, <1>6, <1>7, <1>9, <1>10, <1>11

-----------------------------------------------------------------------------
(* The metrics of module Accounts *)

\* A day's waits of cohort c, each with its weight, are those of its row and of
\* those who wait on.
LEMMA WaitsWorth ==
  ASSUME KInv, now <= Horizon, NEW c \in Cohort, NEW wt \in Weights
  PROVE  /\ Waits(c) \in [Span -> Nat]
         /\ Times(Waits(c), wt) = WaitOf(RidersNow, wt, c)
<1> DEFINE row == waited[c]
           n == waiting[c]
           a == Age(c)
           new == Waits(c)
<1>1. day \in Days /\ now \in Nat /\ Horizon \in Nat /\ RidersNow \in Riders
      /\ Counted(RidersNow, Came(now))
  BY TimeAssumption DEF KInv, Inv, TypeOK
<1>2. row \in [Span -> Nat] /\ n \in Nat /\ RidersNow.waited[c] = row /\ RidersNow.waiting[c] = n
  BY <1>1 DEF Riders, RidersNow, Span
<1>3. /\ Times(row, wt) \in Nat /\ a \in Int /\ wt[a] \in Int /\ Worth(n, wt[a]) \in Nat
      /\ WaitOf(RidersNow, wt, c) = Times(row, wt) + Worth(n, wt[a])
  BY <1>1, <1>2, WaitInt DEF WaitOf
<1>4. CASE Arrived(c)
  <2>1. Trip(c).tick < now /\ Trip(c).tick \in Nat
    BY <1>1, <1>4, TripType DEF Arrived
  <2>2. a \in Span
    <3>1. a \in Nat /\ a <= Horizon
      BY <1>1, <2>1 DEF Age
    <3> QED
      BY <3>1, SpanIs
  <2>3. new = [row EXCEPT ![a] = @ + n]
    BY <1>4 DEF Waits
  <2> HIDE DEF a, row, n, new
  <2>4. row[a] + n \in Nat
    BY <1>2, <2>2
  <2>5. new \in [Span -> Nat] /\ new[a] = row[a] + n /\ \A w \in Span \ {a} : new[w] = row[w]
    BY <1>2, <2>2, <2>3, <2>4
  <2>6. Times(new, wt) = Times(row, wt) + Worth(n, wt[a])
    BY <1>2, <2>2, <2>5, TimesChange
  <2> QED
    BY <1>3, <2>5, <2>6 DEF new
<1>5. CASE ~Arrived(c)
  <2>1. n = 0
    BY <1>1, <1>2, <1>5, NotYet DEF Arrived
  <2>2. new = row
    BY <1>5 DEF Waits
  <2> HIDE DEF a, row, n, new
  <2>3. Worth(n, wt[a]) = 0
    BY <1>3, <2>1, WorthNothing
  <2> QED
    BY <1>2, <1>3, <2>2, <2>3 DEF new
<1> QED
  BY <1>4, <1>5

\* The sum over the times of a row, by its weight.
LEMMA SumTimesIs ==
  ASSUME NEW row, NEW wt, NEW f, f = [w \in Span |-> row[w] * wt[w]]
  PROVE  SumFunction(f) = Times(row, wt)
<1>1. DOMAIN f = Span
  OBVIOUS
<1>2. SumFunction(f) = SumFunctionOnSet(f, Span)
  BY <1>1, SumWhole
<1> QED
  BY <1>2 DEF Times, Worth

\* The metric is the worth of all waits in minutes.
LEMMA TotalWaitIs ==
  ASSUME KInv, now <= Horizon
  PROVE  TotalWait = WaitingTime(RidersNow, Minutes)
<1> DEFINE g(c) == [w \in Ticks |-> Waits(c)[w] * w]
           f == [c \in Cohort |-> SumFunction(g(c))]
           h == [c \in Cohort |-> WaitOf(RidersNow, Minutes, c)]
<1>1. TotalWait = SumFunction(f)
  BY DEF TotalWait, OverCohorts, SumTimes
<1>2. ASSUME NEW c \in Cohort PROVE SumFunction(g(c)) = WaitOf(RidersNow, Minutes, c)
  <2>1. g(c) = [w \in Span |-> Waits(c)[w] * Minutes[w]]
    BY SpanIs, MinutesWeight DEF Ticks, Span
  <2>2. SumFunction(g(c)) = Times(Waits(c), Minutes)
    <3> HIDE DEF g
    <3> QED
      BY <2>1, SumTimesIs
  <2> QED
    BY <2>2, WaitsWorth, MinutesWeight
<1>3. f = h
  BY <1>2
<1>4. DOMAIN h = Cohort
  OBVIOUS
<1>5. WaitingTime(RidersNow, Minutes) = SumFunctionOnSet(h, Cohort)
  BY DEF WaitingTime
<1> HIDE DEF f, h
<1> QED
  BY <1>1, <1>3, <1>4, <1>5, SumWhole

\* The minutes waited beyond the excess age.
ExcessWait ==
  OverCohorts(LAMBDA c : SumTimes(Waits(c), LAMBDA w : Above(w, ExcessAge)))

\* They are the worth of all waits beyond it.
LEMMA ExcessWaitIs ==
  ASSUME KInv, now <= Horizon
  PROVE  ExcessWait = WaitingTime(RidersNow, Beyond)
<1> DEFINE g(c) == [w \in Ticks |-> Waits(c)[w] * Above(w, ExcessAge)]
           f == [c \in Cohort |-> SumFunction(g(c))]
           h == [c \in Cohort |-> WaitOf(RidersNow, Beyond, c)]
<1>1. ExcessWait = SumFunction(f)
  BY DEF ExcessWait, OverCohorts, SumTimes
<1>2. ASSUME NEW c \in Cohort PROVE SumFunction(g(c)) = WaitOf(RidersNow, Beyond, c)
  <2>1. \A w \in Span : Beyond[w] = Above(w, ExcessAge)
    BY SpanIs DEF Beyond
  <2>2. g(c) = [w \in Span |-> Waits(c)[w] * Beyond[w]]
    BY <2>1 DEF Ticks, Span
  <2>3. SumFunction(g(c)) = Times(Waits(c), Beyond)
    <3> HIDE DEF g
    <3> QED
      BY <2>2, SumTimesIs
  <2> QED
    BY <2>3, WaitsWorth, BeyondWeight
<1>3. f = h
  BY <1>2
<1>4. DOMAIN h = Cohort
  OBVIOUS
<1>5. WaitingTime(RidersNow, Beyond) = SumFunctionOnSet(h, Cohort)
  BY DEF WaitingTime
<1> HIDE DEF f, h
<1> QED
  BY <1>1, <1>3, <1>4, <1>5, SumWhole

\* The metric is that of all rides.
LEMMA RidingTimeIs ==
  ASSUME KInv
  PROVE  RidingTime = RideTime(RidersNow)
<1> DEFINE g(c) == [w \in Ticks |-> rode[c][w] * w]
           e(c) == [b \in Bus |-> aboard[b][c] * (now - boardedAt[b][c])]
           f == [c \in Cohort |-> SumFunction(g(c)) + SumFunction(e(c))]
           h == [c \in Cohort |-> RidesOf(RidersNow, c)]
<1>1. RidingTime = SumFunction(f)
  BY DEF RidingTime, OverCohorts, SumTimes
<1>2. RidersNow.rode = rode /\ RidersNow.aboard = aboard /\ RidersNow.boardedAt = boardedAt
  BY DEF RidersNow
<1>3. ASSUME NEW c \in Cohort PROVE f[c] = h[c]
  <2>1. g(c) = [w \in Span |-> rode[c][w] * Minutes[w]]
    BY SpanIs, MinutesWeight DEF Ticks, Span
  <2>2. SumFunction(g(c)) = Times(rode[c], Minutes)
    <3> HIDE DEF g
    <3> QED
      BY <2>1, SumTimesIs
  <2>3. e(c) = [b \in Bus |-> RideOf(RidersNow, b, c)]
    BY <1>2 DEF RideOf, Worth
  <2>4. DOMAIN e(c) = Bus
    OBVIOUS
  <2>5. SumFunction(e(c)) = SumFunctionOnSet(e(c), Bus)
    <3> HIDE DEF e
    <3> QED
      BY <2>4, SumWhole
  <2>6. h[c] = Times(rode[c], Minutes)
                 + SumFunctionOnSet([b \in Bus |-> RideOf(RidersNow, b, c)], Bus)
    BY <1>2 DEF RidesOf
  <2>7. f[c] = SumFunction(g(c)) + SumFunction(e(c))
    OBVIOUS
  <2> HIDE DEF e, g, f, h
  <2> QED
    BY <2>2, <2>3, <2>5, <2>6, <2>7
<1>4. f = h
  BY <1>3
<1>5. DOMAIN h = Cohort
  OBVIOUS
<1>6. RideTime(RidersNow) = SumFunctionOnSet(h, Cohort)
  BY DEF RideTime
<1> HIDE DEF f, h
<1> QED
  BY <1>1, <1>4, <1>5, <1>6, SumWhole

\* Where there is excessive waiting, somebody has waited too long.
LEMMA ExcessiveSeen ==
  ASSUME KInv, now <= Horizon, ExcessWait > 0
  PROVE  Excessive > 0
<1> DEFINE over == [w \in Ticks |-> IF w >= ExcessAge THEN 1 ELSE 0]
           g(c) == [w \in Ticks |-> Waits(c)[w] * (IF w >= ExcessAge THEN 1 ELSE 0)]
           f == [c \in Cohort |-> SumFunction(g(c))]
           k(c) == [w \in Ticks |-> Waits(c)[w] * Above(w, ExcessAge)]
           h == [c \in Cohort |-> SumFunction(k(c))]
<1>1. Excessive = SumFunction(f) /\ ExcessWait = SumFunction(h)
  BY DEF Excessive, ExcessWait, OverCohorts, SumTimes
<1>2. IsFiniteSet(Cohort) /\ IsFiniteSet(Ticks) /\ Ticks = Span
  BY DayFacts, SpanIs DEF KInv, Ticks, Span
<1>3. ASSUME NEW c \in Cohort
      PROVE  /\ \A w \in Ticks : g(c)[w] \in Nat /\ k(c)[w] \in Nat /\ (g(c)[w] = 0 => k(c)[w] = 0)
             /\ SumFunction(g(c)) = SumFunctionOnSet(g(c), Ticks)
             /\ SumFunction(k(c)) = SumFunctionOnSet(k(c), Ticks)
  <2>1. Waits(c) \in [Span -> Nat]
    BY WaitsWorth, MinutesWeight
  <2>2. ASSUME NEW w \in Ticks
        PROVE  g(c)[w] \in Nat /\ k(c)[w] \in Nat /\ (g(c)[w] = 0 => k(c)[w] = 0)
    <3> DEFINE n == Waits(c)[w]
               x == Above(w, ExcessAge)
    <3>1. n \in Nat
      BY <1>2, <2>1
    <3>2. w \in Nat
      BY <1>2, SpanIs
    <3>3. x \in Nat /\ (~(w >= ExcessAge) => x = 0)
      BY <3>2, AccountAssumption DEF Above
    <3>4. k(c)[w] = n * x /\ g(c)[w] = n * (IF w >= ExcessAge THEN 1 ELSE 0)
      OBVIOUS
    <3> HIDE DEF n, x, g, k
    <3>5. CASE w >= ExcessAge
      <4>1. n * x \in Nat /\ n * 1 = n /\ 0 * x = 0
        BY <3>1, <3>3, Products
      <4> QED
        BY <3>1, <3>4, <3>5, <4>1
    <3>6. CASE ~(w >= ExcessAge)
      <4>1. n * 0 = 0
        BY <3>1
      <4> QED
        BY <3>3, <3>4, <3>6, <4>1
    <3> QED
      BY <3>5, <3>6
  <2>3. DOMAIN g(c) = Ticks /\ DOMAIN k(c) = Ticks
    OBVIOUS
  <2> HIDE DEF g, k
  <2> QED
    BY <2>2, <2>3, SumWhole
<1>4. DOMAIN f = Cohort /\ DOMAIN h = Cohort
  OBVIOUS
<1>5. \A c \in Cohort : f[c] = SumFunction(g(c)) /\ h[c] = SumFunction(k(c))
  OBVIOUS
<1> HIDE DEF f, g, h, k
<1>6. \A c \in Cohort : f[c] \in Nat
  <2> TAKE c \in Cohort
  <2>1. SumFunctionOnSet(g(c), Ticks) \in Nat
    BY <1>2, <1>3, SumNat
  <2> QED
    BY <1>3, <1>5, <2>1
<1>7. SumFunction(f) = SumFunctionOnSet(f, Cohort) /\ SumFunction(h) = SumFunctionOnSet(h, Cohort)
  BY <1>4, SumWhole
<1>8. SumFunctionOnSet(f, Cohort) \in Nat
  BY <1>2, <1>6, SumNat
<1>9. SUFFICES ASSUME SumFunctionOnSet(f, Cohort) = 0 PROVE FALSE
  BY <1>1, <1>7, <1>8
<1>10. ASSUME NEW c \in Cohort PROVE h[c] = 0
  <2>1. f[c] <= 0 /\ f[c] \in Nat
    BY <1>2, <1>6, <1>9, SumBounds
  <2>2. SumFunctionOnSet(g(c), Ticks) = 0
    BY <1>3, <1>5, <2>1
  <2>3. \A w \in Ticks : k(c)[w] = 0
    <3> TAKE w \in Ticks
    <3>1. g(c)[w] <= 0 /\ g(c)[w] \in Nat
      BY <1>2, <1>3, <2>2, SumBounds
    <3> QED
      BY <1>3, <3>1
  <2>4. SumFunctionOnSet(k(c), Ticks) = 0
    BY <1>2, <2>3, SumZero
  <2> QED
    BY <1>3, <1>5, <2>4
<1>11. SumFunctionOnSet(h, Cohort) = 0
  BY <1>2, <1>10, SumZero
<1> QED
  BY <1>1, <1>7, <1>11

-----------------------------------------------------------------------------
(* The ring between the ticks *)

\* p is q without its first places, up to shift.
Shifted(p, q, shift) ==
  /\ p \in Seq(Entry) /\ q \in Seq(Entry) /\ shift \in Nat /\ Len(p) \in Nat
  /\ DOMAIN p = 1 .. Len(p) /\ DOMAIN q = 1 .. Len(p) + shift
  /\ \A k \in 1 .. Len(p) : p[k] = q[k + shift]

\* Pruning shifts the ring past entries that no observation needs.
LEMMA PruneShifts ==
  ASSUME NEW q \in Seq(Entry), NEW t
  PROVE  \E shift \in Nat :
           /\ Shifted(Pruned(q, t), q, shift)
           /\ \A k \in DOMAIN q : k <= shift => ~Needed(q[k], t)
<1>1. PICK p : p = Pruned(q, t)
  OBVIOUS
<1>2. PICK m \in 1 .. Len(q) + 1 :
        /\ p \in Seq(Entry) /\ Len(p) = Len(q) - m + 1
        /\ \A k \in 1 .. Len(q) - m + 1 : p[k] = q[k + m - 1]
        /\ \A k \in DOMAIN q : k < m => ~Needed(q[k], t)
  BY <1>1, PrunedIs
<1>3. Len(q) \in Nat /\ DOMAIN q = 1 .. Len(q) /\ DOMAIN p = 1 .. Len(p) /\ Len(p) \in Nat
  BY <1>2
<1> DEFINE shift == m - 1
<1>4. shift \in Nat /\ Len(q) = Len(p) + shift
  BY <1>2, <1>3
<1>5. \A k \in 1 .. Len(p) : p[k] = q[k + shift]
  <2> TAKE k \in 1 .. Len(p)
  <2>1. k \in 1 .. Len(q) - m + 1 /\ k + m - 1 = k + shift
    BY <1>2, <1>3
  <2>2. p[k] = q[k + m - 1]
    BY <1>2, <2>1
  <2> HIDE DEF shift
  <2> QED
    BY <2>1, <2>2
<1>6. \A k \in DOMAIN q : k <= shift => ~Needed(q[k], t)
  BY <1>2, <1>3
<1> HIDE DEF shift
<1>7. Shifted(p, q, shift)
  BY <1>2, <1>3, <1>4, <1>5 DEF Shifted
<1> QED
  BY <1>1, <1>4, <1>6, <1>7

\* A tally is the same after a shift past places that it does not add up.
LEMMA ShiftKeeps ==
  ASSUME NEW p, NEW q, NEW shift, Shifted(p, q, shift), NEW c, NEW st, NEW since,
         \A k \in Places(q, c, st, since) : k > shift
  PROVE  Tally(p, c, st, since) = Tally(q, c, st, since)
<1> DEFINE f == [k \in DOMAIN q |-> q[k].count]
           g == [k \in DOMAIN p |-> p[k].count]
           S == Places(q, c, st, since)
           K == Places(p, c, st, since)
           part == [k \in K |-> {k + shift}]
<1>0. /\ p \in Seq(Entry) /\ q \in Seq(Entry) /\ shift \in Nat /\ Len(p) \in Nat
      /\ DOMAIN p = 1 .. Len(p) /\ DOMAIN q = 1 .. Len(p) + shift
      /\ \A k \in 1 .. Len(p) : p[k] = q[k + shift]
  BY DEF Shifted
<1>1. Tally(q, c, st, since) = SumFunctionOnSet(f, S)
      /\ IsFiniteSet(S) /\ \A k \in DOMAIN q : f[k] \in Nat
  BY <1>0, TallyIs
<1>2. Tally(p, c, st, since) = SumFunctionOnSet(g, K) /\ IsFiniteSet(K)
  BY <1>0, TallyIs
<1>3. S \subseteq DOMAIN q /\ K \subseteq DOMAIN p
  BY DEF Places
<1>4. \A k \in DOMAIN p : k + shift \in DOMAIN q /\ k \in Nat
  BY <1>0
<1>5. \A k \in K : k + shift \in S
  <2> TAKE k \in K
  <2>1. k \in DOMAIN p /\ p[k] = q[k + shift]
    BY <1>0, <1>3
  <2>2. k + shift \in DOMAIN q
    BY <1>4, <2>1
  <2> QED
    BY <2>1, <2>2 DEF Places
<1>6. \A x \in S : \E k \in K : x = k + shift
  <2> TAKE x \in S
  <2>1. x \in DOMAIN q /\ x > shift
    BY <1>3
  <2>2. x - shift \in DOMAIN p /\ x = (x - shift) + shift
    BY <1>0, <2>1
  <2>3. p[x - shift] = q[x]
    BY <1>0, <2>2, Zenon
  <2>4. x - shift \in K
    BY <2>1, <2>2, <2>3 DEF Places
  <2> QED
    BY <2>2, <2>4
<1>7. \A k \in K : g[k] = f[k + shift]
  BY <1>0, <1>3, <1>4
<1>8. \A x \in S : f[x] \in Int
  BY <1>1, <1>3
<1>9. part \in [K -> SUBSET S] /\ \A k \in K : part[k] = {k + shift}
  BY <1>5
<1>10. K \subseteq Nat
  BY <1>3, <1>4
<1> HIDE DEF f, g, S, K, part
<1>11. \A k \in K : g[k] = SumFunctionOnSet(f, part[k])
  <2> TAKE k \in K
  <2>1. PICK x : x = k + shift
    OBVIOUS
  <2>2. x \in S /\ part[k] = {x} /\ g[k] = f[x] /\ f[x] \in Int
    BY <1>5, <1>7, <1>8, <1>9, <2>1
  <2>3. IsFiniteSet({x}) /\ {x} \ {x} = {} /\ \A y \in {x} : f[y] \in Int
    BY <2>2, FS_Singleton
  <2>4. SumFunctionOnSet(f, {x}) = f[x] + SumFunctionOnSet(f, {x} \ {x})
    BY <2>3, SumSplit
  <2>5. SumFunctionOnSet(f, {x}) = f[x]
    BY <2>2, <2>3, <2>4, SumEmpty
  <2> QED
    BY <2>2, <2>5
<1>12. \A k, l \in K : k # l => part[k] \cap part[l] = {}
  BY <1>0, <1>9, <1>10
<1>13. \A x \in S : \E k \in K : x \in part[k]
  BY <1>6, <1>9
<1>14. Parted(S, K, part, f, g)
  BY <1>1, <1>2, <1>8, <1>9, <1>11, <1>12, <1>13 DEF Parted
<1> QED
  BY <1>1, <1>2, <1>14, SumParts

\* A tally whose entries are needed is the same after pruning.
LEMMA PruneKeeps ==
  ASSUME NEW q \in Seq(Entry), NEW t, NEW c, NEW st, NEW since,
         \A k \in Places(q, c, st, since) : Needed(q[k], t)
  PROVE  Tally(Pruned(q, t), c, st, since) = Tally(q, c, st, since)
<1>1. PICK shift \in Nat :
        /\ Shifted(Pruned(q, t), q, shift)
        /\ \A k \in DOMAIN q : k <= shift => ~Needed(q[k], t)
  BY PruneShifts
<1>2. \A k \in Places(q, c, st, since) : k > shift
  <2> TAKE k \in Places(q, c, st, since)
  <2>1. k \in DOMAIN q /\ k \in Nat
    BY DEF Places
  <2> QED
    BY <1>1, <2>1
<1> QED
  BY <1>1, <1>2, ShiftKeeps

\* An empty ring has no tally.
LEMMA EmptyTally ==
  ASSUME NEW c, NEW st, NEW since
  PROVE  Tally(<<>>, c, st, since) = 0
<1>1. <<>> \in Seq(Entry) /\ DOMAIN <<>> = {}
  OBVIOUS
<1>2. Places(<<>>, c, st, since) = {}
  BY <1>1 DEF Places
<1>3. PICK f : Tally(<<>>, c, st, since) = SumFunctionOnSet(f, Places(<<>>, c, st, since))
  BY <1>1, TallyIs
<1> QED
  BY <1>2, <1>3, SumEmpty

\* The time since which an observation at the end of the interval counts.
SinceTurn == now - Interval + ticksLeft

\* Nobody was done at this time or later.
EndedBefore(q, t) == \A k \in DOMAIN q : q[k].tick < t

\* A cohort an observation looks at, for its arrival.
Recent(c) == Trip(c).tick >= now - HistoryLags * Interval

\* What the ring still knows: how the passengers of every cohort that arrived within
\* the lags have ended, and who completed in this interval.
Ringed ==
  /\ EndedBefore(recentFinished, now)
  /\ completedBefore \in [Cohort -> Nat]
  /\ \A c \in Cohort, st \in Statuses :
       Recent(c) => Tally(recentFinished, c, st, 0) = DoneAs(RidersNow, st)[c]
  /\ \A c \in Cohort :
       Tally(recentFinished, c, "COMPLETED", SinceTurn) = completed[c] - completedBefore[c]

-----------------------------------------------------------------------------
(* The accounts *)

\* The part of the books that has to do with time.
InTime ==
  /\ Owed.waiting = WaitingTime(RidersNow, Minutes)
  /\ Owed.onboard = RideTime(RidersNow)
  /\ Owed.fairness = WaitingTime(RidersNow, Beyond)

\* The inductive invariant of the accounts.
AccInv == KInv /\ Paid /\ InTime /\ Ringed

\* Minutes waited and ridden depend on the tables, the day and the clock only.
LEMMA TimesStay ==
  ASSUME day' = day, now' = now, RidersNow' = RidersNow
  PROVE  /\ \A wt : WaitingTime(RidersNow, wt)' = WaitingTime(RidersNow, wt)
         /\ RideTime(RidersNow)' = RideTime(RidersNow)
<1>1. Cohort' = Cohort /\ \A c : Trip(c)' = Trip(c)
  BY DayStays
<1>2. \A c : Age(c)' = Age(c)
  BY <1>1 DEF Age
<1>3. ASSUME NEW wt PROVE WaitingTime(RidersNow, wt)' = WaitingTime(RidersNow, wt)
  <2> DEFINE g == [c \in Cohort |-> WaitOf(RidersNow, wt, c)]
  <2>1. \A c : WaitOf(RidersNow, wt, c)' = WaitOf(RidersNow, wt, c)
    BY <1>2 DEF WaitOf
  <2>2. g' = [c \in Cohort' |-> WaitOf(RidersNow, wt, c)']
    OBVIOUS
  <2>3. g' = g
    BY <1>1, <2>1, <2>2
  <2>4. WaitingTime(RidersNow, wt)' = SumFunctionOnSet(g', Cohort')
    BY DEF WaitingTime
  <2>5. WaitingTime(RidersNow, wt) = SumFunctionOnSet(g, Cohort)
    BY DEF WaitingTime
  <2> QED
    BY <1>1, <2>3, <2>4, <2>5
<1>4. RideTime(RidersNow)' = RideTime(RidersNow)
  <2> DEFINE g == [c \in Cohort |-> RidesOf(RidersNow, c)]
  <2>1. ASSUME NEW c PROVE RidesOf(RidersNow, c)' = RidesOf(RidersNow, c)
    <3> DEFINE r == [b \in Bus |-> RideOf(RidersNow, b, c)]
    <3>1. \A b : RideOf(RidersNow, b, c)' = RideOf(RidersNow, b, c)
      BY DEF RideOf
    <3>2. r' = [b \in Bus |-> RideOf(RidersNow, b, c)']
      OBVIOUS
    <3>3. r' = r
      BY <3>1, <3>2
    <3>4. RidesOf(RidersNow, c)' = Times(RidersNow'.rode[c], Minutes) + SumFunctionOnSet(r', Bus)
      BY DEF RidesOf
    <3>5. RidesOf(RidersNow, c) = Times(RidersNow.rode[c], Minutes) + SumFunctionOnSet(r, Bus)
      BY DEF RidesOf
    <3> QED
      BY <3>3, <3>4, <3>5
  <2>2. g' = [c \in Cohort' |-> RidesOf(RidersNow, c)']
    OBVIOUS
  <2>3. g' = g
    BY <1>1, <2>1, <2>2
  <2>4. RideTime(RidersNow)' = SumFunctionOnSet(g', Cohort')
    BY DEF RideTime
  <2>5. RideTime(RidersNow) = SumFunctionOnSet(g, Cohort)
    BY DEF RideTime
  <2> QED
    BY <1>1, <2>3, <2>4, <2>5
<1> QED
  BY <1>3, <1>4

\* A decision bills no time.
LEMMA DecideInTime == ASSUME KInv, Paid, InTime, AccDecide PROVE InTime'
<1>1. /\ \A k \in Kinds \ {"mission"} : Owed'[k] = Owed[k]
      /\ now' = now /\ UNCHANGED <<day, riders>>
  BY DecideOwes
<1>2. {"waiting", "onboard", "fairness"} \subseteq Kinds \ {"mission"}
  BY KindsAre
<1>3. load' = load
  BY DecideBus DEF AccDecide, KDecide, KInv
<1>4. RidersNow' = RidersNow
  BY <1>1, <1>3 DEF RidersNow, riders
<1>5. /\ WaitingTime(RidersNow, Minutes)' = WaitingTime(RidersNow, Minutes)
      /\ WaitingTime(RidersNow, Beyond)' = WaitingTime(RidersNow, Beyond)
      /\ RideTime(RidersNow)' = RideTime(RidersNow)
  BY <1>1, <1>4, TimesStay DEF Minutes, Beyond, Above
<1>6. /\ Owed'.waiting = Owed.waiting /\ Owed'.onboard = Owed.onboard
      /\ Owed'.fairness = Owed.fairness
  BY <1>1, <1>2
<1> QED
  BY <1>5, <1>6 DEF InTime

\* A tick bills the minute that passes.
LEMMA TickInTime == ASSUME KInv, KInv', Paid, InTime, AccTick PROVE InTime'
<1>1. KTick
  BY DEF AccTick
<1>2. PICK R : TickTo(R)
  BY <1>1, TickServes
<1>3. PICK X : X = RidersNow'
  OBVIOUS
<1>4. /\ WaitingTime(RidersNow, Minutes)' = WaitingTime(RidersNow, Minutes) + totals'.waiting
      /\ RideTime(RidersNow)' = RideTime(RidersNow) + totals'.onboard
      /\ WaitingTime(RidersNow, Beyond)'
           = WaitingTime(RidersNow, Beyond)
             + SumFunctionOnSet(waiting', {c \in Cohort : Age(c) >= ExcessAge})
  BY <1>2, <1>3, MinutesPass, RidesPass, ExcessPasses
<1>5. /\ TickCosts.waiting = totals'.waiting
      /\ TickCosts.onboard = totals'.onboard
      /\ TickCosts.fairness = SumFunctionOnSet(waiting', {c \in Cohort : Age(c) >= ExcessAge})
  BY DEF TickCosts
<1>6. \A k \in Kinds : Owed'[k] = Owed[k] + TickCosts[k]
  BY <1>2, TickCostsType, TickOwes DEF TickTo
<1>7. {"waiting", "onboard", "fairness"} \subseteq Kinds
  BY KindsAre
<1>8. /\ Owed'.waiting = Owed.waiting + TickCosts.waiting
      /\ Owed'.onboard = Owed.onboard + TickCosts.onboard
      /\ Owed'.fairness = Owed.fairness + TickCosts.fairness
  BY <1>6, <1>7
<1> QED
  BY <1>4, <1>5, <1>8 DEF InTime

\* Numbers that add up to 0 are opposite.
LEMMA Opposite == \A x, y \in Int : x + y = 0 => x = -y
OBVIOUS

\* The ring when a day begins.
LEMMA RingBegins == ASSUME AccInit, KInv PROVE Ringed
<1>1. /\ recentFinished = <<>> /\ completedBefore = completed
      /\ completed = [c \in Cohort |-> 0] /\ abandoned = [c \in Cohort |-> 0]
  BY DEF AccInit, KInit
<1>2. completedBefore \in [Cohort -> Nat]
  BY <1>1
<1>3. EndedBefore(recentFinished, now)
  <2>1. DOMAIN recentFinished = {}
    BY <1>1
  <2> QED
    BY <2>1 DEF EndedBefore
<1>4. ASSUME NEW c \in Cohort, NEW st \in Statuses
      PROVE  Tally(recentFinished, c, st, 0) = DoneAs(RidersNow, st)[c]
  <2>1. DoneAs(RidersNow, st)[c] = 0
    BY <1>1 DEF DoneAs, RidersNow
  <2> QED
    BY <1>1, <2>1, EmptyTally
<1>5. ASSUME NEW c \in Cohort
      PROVE  Tally(recentFinished, c, "COMPLETED", SinceTurn) = completed[c] - completedBefore[c]
  <2>1. completed[c] - completedBefore[c] = 0
    BY <1>1
  <2> QED
    BY <1>1, <2>1, EmptyTally
<1> QED
  BY <1>2, <1>3, <1>4, <1>5 DEF Ringed

\* A decision opens an interval in which nobody has completed.
LEMMA DecideRinged == ASSUME KInv, Paid, Ringed, AccDecide PROVE Ringed'
<1>1. now' = now /\ UNCHANGED <<day, riders>>
  BY DecideOwes
<1>2. /\ recentFinished' = recentFinished /\ completed' = completed /\ abandoned' = abandoned
      /\ Cohort' = Cohort /\ (\A c : Trip(c)' = Trip(c))
  BY <1>1, DayStays DEF riders
<1>3. ticksLeft' = Interval /\ completedBefore' = completed
  BY DEF AccDecide, KDecide, Decide, Noop, Dispatch, Recall, Reassign, ShortTurn, SetHeadway,
         Boundary, Accept
<1>4. now \in Nat /\ Interval \in Nat /\ completed \in [Cohort -> Nat]
      /\ recentFinished \in Seq(Entry)
  BY TimeAssumption DEF KInv, Inv, TypeOK, RidersNow, Riders
<1>5. SinceTurn' = now
  BY <1>1, <1>3, <1>4 DEF SinceTurn
<1>6. ASSUME NEW c \in Cohort PROVE Tally(recentFinished, c, "COMPLETED", now) = 0
  <2>1. Places(recentFinished, c, "COMPLETED", now) = {}
    <3> SUFFICES ASSUME NEW k \in DOMAIN recentFinished, recentFinished[k].tick >= now
                 PROVE  FALSE
      BY DEF Places
    <3>1. recentFinished[k] \in Entry
      BY <1>4
    <3>2. recentFinished[k].tick < now
      BY DEF Ringed, EndedBefore
    <3> QED
      BY <1>4, <3>1, <3>2 DEF Entry
  <2> QED
    BY <1>4, <2>1, TallyIs, SumEmpty
<1>7. EndedBefore(recentFinished', now')
  BY <1>1, <1>2 DEF Ringed, EndedBefore
<1>8. ASSUME NEW c \in Cohort, NEW st \in Statuses, Recent(c)'
      PROVE  Tally(recentFinished', c, st, 0) = DoneAs(RidersNow', st)[c]
  <2>1. Recent(c)
    BY <1>1, <1>2, <1>8 DEF Recent
  <2>2. DoneAs(RidersNow', st) = DoneAs(RidersNow, st)
    BY <1>2 DEF DoneAs, RidersNow
  <2> QED
    BY <1>2, <2>1, <2>2 DEF Ringed
<1>9. ASSUME NEW c \in Cohort
      PROVE  Tally(recentFinished', c, "COMPLETED", SinceTurn')
               = completed'[c] - completedBefore'[c]
  <2>1. completed[c] \in Nat
    BY <1>4
  <2> QED
    BY <1>2, <1>3, <1>5, <1>6, <2>1
<1> QED
  BY <1>2, <1>3, <1>4, <1>7, <1>8, <1>9 DEF Ringed

\* A tick pushes those who are done, and prunes no more than nobody needs.
LEMMA TickRinged == ASSUME KInv, Ringed, AccTick PROVE Ringed'
<1>1. KTick
  BY DEF AccTick
<1>2. PICK R : TickTo(R)
  BY <1>1, TickServes
<1>3. /\ now' = now + 1 /\ completed' = R.completed /\ abandoned' = R.abandoned
      /\ day' = day /\ recentFinished' = Pruned(R.recent, now + 1) /\ Grown(R) /\ R \in Riders
  BY <1>2 DEF TickTo, Served
<1>4. Cohort' = Cohort /\ \A c : Trip(c)' = Trip(c)
  BY <1>3, DayStays
<1>5. completedBefore' = completedBefore
  BY DEF AccTick
<1>6. ticksLeft > 0 /\ ticksLeft' = ticksLeft - 1
  BY <1>1 DEF KTick, FleetTick
<1>7. /\ now \in Nat /\ Interval \in Nat \ {0} /\ HistoryLags \in Nat \ {0}
      /\ ticksLeft \in 0 .. Interval /\ recentFinished \in Seq(Entry) /\ R.recent \in Seq(Entry)
      /\ RidersNow.completed = completed /\ completed \in [Cohort -> Nat]
      /\ R.completed \in [Cohort -> Nat] /\ completedBefore \in [Cohort -> Nat]
  BY <1>3, TimeAssumption, DemandAssumption DEF KInv, Inv, TypeOK, RidersNow, Riders, Ringed
<1>8. SinceTurn' = SinceTurn /\ SinceTurn \in Int /\ SinceTurn <= now
      /\ SinceTurn >= now + 1 - Interval
  BY <1>3, <1>6, <1>7 DEF SinceTurn
<1>9. EndedBefore(recentFinished', now')
  <2>1. DoneBy(recentFinished, now)
    <3> SUFFICES ASSUME NEW k \in DOMAIN recentFinished PROVE recentFinished[k].tick <= now
      BY DEF DoneBy
    <3>1. recentFinished[k] \in Entry /\ recentFinished[k].tick < now
      BY <1>7 DEF Ringed, EndedBefore
    <3> QED
      BY <1>7, <3>1 DEF Entry
  <2>2. DoneBy(R.recent, now)
    BY <1>3, <2>1 DEF Grown
  <2>3. PICK q : q = R.recent
    OBVIOUS
  <2>4. PICK shift \in Nat : Shifted(Pruned(q, now + 1), q, shift)
    BY <1>7, <2>3, PruneShifts
  <2>5. PICK p : p = recentFinished'
    OBVIOUS
  <2>6. Shifted(p, q, shift)
    BY <1>3, <2>3, <2>4, <2>5
  <2>7. ASSUME NEW k \in DOMAIN p PROVE p[k].tick < now + 1
    <3>1. p[k] = q[k + shift] /\ k + shift \in DOMAIN q /\ q \in Seq(Entry)
      BY <2>6 DEF Shifted
    <3>2. q[k + shift] \in Entry /\ q[k + shift].tick <= now
      BY <2>2, <2>3, <3>1 DEF DoneBy
    <3> QED
      BY <1>7, <3>1, <3>2 DEF Entry
  <2> QED
    BY <1>3, <2>5, <2>7 DEF EndedBefore
<1>10. ASSUME NEW c \in Cohort, NEW st \in Statuses, NEW since \in Int, since <= now,
              \A k \in Places(R.recent, c, st, since) : Needed(R.recent[k], now + 1)
       PROVE  Tally(recentFinished', c, st, since)
                = Tally(recentFinished, c, st, since)
                  + (DoneAs(R, st)[c] - DoneAs(RidersNow, st)[c])
  <2>1. Tally(R.recent, c, st, since)
          = Tally(recentFinished, c, st, since) + (DoneAs(R, st)[c] - DoneAs(RidersNow, st)[c])
    BY <1>3, <1>10, Zenon DEF Grown
  <2>2. Tally(Pruned(R.recent, now + 1), c, st, since) = Tally(R.recent, c, st, since)
    <3>1. PICK q : q = R.recent
      OBVIOUS
    <3>2. /\ q \in Seq(Entry)
          /\ \A k \in Places(q, c, st, since) : Needed(q[k], now + 1)
      BY <1>7, <1>10, <3>1
    <3>3. Tally(Pruned(q, now + 1), c, st, since) = Tally(q, c, st, since)
      BY <3>2, PruneKeeps
    <3> QED
      BY <3>1, <3>3
  <2> QED
    BY <1>3, <2>1, <2>2
<1>11. ASSUME NEW c \in Cohort, NEW st \in Statuses, Recent(c)'
       PROVE  Tally(recentFinished', c, st, 0) = DoneAs(RidersNow', st)[c]
  <2> DEFINE reach == HistoryLags * Interval
             t == Trip(c).tick
  <2>1. t \in Nat
    BY TripType DEF KInv
  <2>2. reach \in Nat
    BY <1>7
  <2>3. /\ Recent(c)' <=> t >= now + 1 - reach
        /\ Recent(c) <=> t >= now - reach
        /\ \A e : e.cohort = c /\ t > (now + 1) - 1 - reach => Needed(e, now + 1)
    <3>1. Recent(c)' <=> Trip(c)'.tick >= now' - reach
      BY DEF Recent
    <3>2. Trip(c)'.tick = t /\ now' = now + 1
      BY <1>3, <1>4
    <3>3. Recent(c) <=> t >= now - reach
      BY DEF Recent
    <3>4. ASSUME NEW e, e.cohort = c, t > (now + 1) - 1 - reach
          PROVE  Needed(e, now + 1)
      <4>1. Trip(e.cohort).tick > (now + 1) - 1 - HistoryLags * Interval
        BY <3>4
      <4> QED
        BY <4>1, Zenon DEF Needed
    <3> HIDE DEF reach
    <3>5. Recent(c)' <=> t >= now + 1 - reach
      BY <1>7, <2>2, <3>1, <3>2
    <3>6. \A e : e.cohort = c /\ t > (now + 1) - 1 - reach => Needed(e, now + 1)
      BY <3>4, Zenon
    <3> QED
      BY <3>3, <3>5, <3>6, Zenon
  <2> HIDE DEF reach, t
  <2>4. Recent(c) /\ \A k \in Places(R.recent, c, st, 0) : Needed(R.recent[k], now + 1)
    <3>1. t >= now + 1 - reach
      BY <1>11, <2>3
    <3>2. t >= now - reach /\ t > (now + 1) - 1 - reach
      BY <1>7, <2>1, <2>2, <3>1
    <3>3. \A k \in Places(R.recent, c, st, 0) : R.recent[k].cohort = c
      BY DEF Places
    <3> QED
      BY <2>3, <3>2, <3>3
  <2>5. Tally(recentFinished', c, st, 0)
          = Tally(recentFinished, c, st, 0) + (DoneAs(R, st)[c] - DoneAs(RidersNow, st)[c])
    BY <1>7, <1>10, <2>4
  <2>6. Tally(recentFinished, c, st, 0) = DoneAs(RidersNow, st)[c]
    BY <2>4 DEF Ringed
  <2>7. DoneAs(RidersNow, st)[c] \in Nat /\ DoneAs(R, st)[c] \in Nat
    BY <1>3, DoneNat DEF KInv
  <2>8. DoneAs(RidersNow', st) = DoneAs(R, st)
    BY <1>3 DEF DoneAs, RidersNow
  <2> QED
    BY <2>5, <2>6, <2>7, <2>8
<1>12. ASSUME NEW c \in Cohort
       PROVE  Tally(recentFinished', c, "COMPLETED", SinceTurn')
                = completed'[c] - completedBefore'[c]
  <2>1. \A k \in Places(R.recent, c, "COMPLETED", SinceTurn) : Needed(R.recent[k], now + 1)
    <3> TAKE k \in Places(R.recent, c, "COMPLETED", SinceTurn)
    <3>1. k \in DOMAIN R.recent /\ R.recent[k].status = "COMPLETED"
          /\ R.recent[k].tick >= SinceTurn
      BY DEF Places
    <3>2. R.recent[k].tick \in Nat
      <4>1. R.recent[k] \in Entry
        BY <1>7, <3>1
      <4> QED
        BY <4>1 DEF Entry
    <3>3. R.recent[k].tick >= now + 1 - Interval
      BY <1>7, <1>8, <3>1, <3>2
    <3> QED
      BY <1>7, <3>1, <3>3 DEF Needed
  <2>2. Tally(recentFinished', c, "COMPLETED", SinceTurn)
          = Tally(recentFinished, c, "COMPLETED", SinceTurn) + (R.completed[c] - completed[c])
    BY <1>7, <1>8, <1>10, <2>1 DEF DoneAs, Statuses
  <2>3. Tally(recentFinished, c, "COMPLETED", SinceTurn) = completed[c] - completedBefore[c]
    BY DEF Ringed
  <2>4. completed[c] \in Nat /\ completedBefore[c] \in Nat /\ R.completed[c] \in Nat
    BY <1>7
  <2> QED
    BY <1>3, <1>5, <1>8, <2>2, <2>3, <2>4
<1>13. completedBefore' \in [Cohort' -> Nat]
  BY <1>4, <1>5, <1>7
<1> QED
  BY <1>4, <1>9, <1>11, <1>12, <1>13 DEF Ringed

\* A step that changes nothing leaves the ring as it is.
LEMMA RingStays == ASSUME Ringed, UNCHANGED avars PROVE Ringed'
<1>1. /\ now' = now /\ ticksLeft' = ticksLeft /\ recentFinished' = recentFinished
      /\ completed' = completed /\ abandoned' = abandoned
      /\ completedBefore' = completedBefore /\ RidersNow' = RidersNow /\ day' = day
  BY DEF avars, kvars, vars, riders, accounts, RidersNow
<1>2. Cohort' = Cohort /\ \A c : Trip(c)' = Trip(c)
  BY <1>1, DayStays
<1>3. SinceTurn' = SinceTurn /\ \A c : Recent(c)' <=> Recent(c)
  BY <1>1, <1>2 DEF SinceTurn, Recent
<1>4. EndedBefore(recentFinished', now') /\ completedBefore' \in [Cohort' -> Nat]
  BY <1>1, <1>2 DEF Ringed, EndedBefore
<1>5. ASSUME NEW c \in Cohort, NEW st \in Statuses, Recent(c)'
      PROVE  Tally(recentFinished', c, st, 0) = DoneAs(RidersNow', st)[c]
  BY <1>1, <1>3, <1>5 DEF Ringed
<1>6. ASSUME NEW c \in Cohort
      PROVE  Tally(recentFinished', c, "COMPLETED", SinceTurn')
               = completed'[c] - completedBefore'[c]
  BY <1>1, <1>3 DEF Ringed
<1> QED
  BY <1>2, <1>4, <1>5, <1>6 DEF Ringed

\* The invariant holds when a day begins.
LEMMA AccInitInv == AccInit => AccInv
<1> SUFFICES ASSUME AccInit PROVE AccInv
  OBVIOUS
<1>1. KInv /\ now = 0 /\ ticksLeft = 0 /\ costs = NoCost /\ spent = NoCost /\ reward = 0
  BY KInitKInv DEF AccInit, KInit, Init
<1>2. /\ billed.denied = 0 /\ billed.abandoned = 0 /\ billed.unfinished = 0
      /\ Horizon \in Nat
  BY TimeAssumption DEF AccInit, KInit, NoCosts
<1>3. Owed = NoCost
  BY <1>1 DEF Owed
<1>4. {"waiting", "onboard", "fairness", "first_denied", "abandoned", "unfinished"} \subseteq Kinds
  BY KindsAre
<1>5. Paid
  <2>1. costs \in CostType /\ spent \in CostType
    BY <1>1, KindsAre
  <2>2. reward = -IntervalCost(spent)
    <3>1. IntervalCost(spent) = 0
      BY <1>1, NoCostCosts
    <3>2. IntervalCost(spent) \in Int /\ reward \in Int /\ reward + IntervalCost(spent) = 0
      BY <1>1, <3>1
    <3> QED
      BY <3>2, Opposite, Zenon
  <2>3. Owed["first_denied"] = 0 /\ Owed["abandoned"] = 0 /\ Owed["unfinished"] = 0
    BY <1>3, <1>4, KindsAre
  <2>4. now <= Horizon
    BY <1>1, <1>2
  <2> QED
    BY <1>2, <2>1, <2>2, <2>3, <2>4 DEF Paid
<1>6. day \in Days /\ now \in Nat /\ RidersNow \in Riders /\ IsFiniteSet(Cohort)
      /\ IsFiniteSet(Bus)
  BY <1>1, DayFacts, FleetAssumption DEF KInv, Inv, TypeOK
<1>7. /\ waited = [c \in Cohort |-> [w \in Span |-> 0]]
      /\ rode = [c \in Cohort |-> [w \in Span |-> 0]]
      /\ waiting = [c \in Cohort |-> 0]
      /\ aboard = [b \in Bus |-> [c \in Cohort |-> 0]]
      /\ boardedAt = [b \in Bus |-> [c \in Cohort |-> 0]]
      /\ RidersNow.waited = waited /\ RidersNow.rode = rode /\ RidersNow.waiting = waiting
      /\ RidersNow.aboard = aboard /\ RidersNow.boardedAt = boardedAt
  BY DEF AccInit, KInit, Span, RidersNow
<1>8. ASSUME NEW wt \in Weights, NEW row, row = [w \in Span |-> 0]
      PROVE  Times(row, wt) = 0
  <2> DEFINE f == [w \in Span |-> Worth(row[w], wt[w])]
  <2>1. \A w \in Span : f[w] = 0
    <3> TAKE w \in Span
    <3>1. wt[w] \in Int
      BY SpanIs DEF Weights
    <3>2. Worth(0, wt[w]) = 0
      BY <3>1, WorthNothing
    <3> QED
      BY <1>8, <3>2
  <2> HIDE DEF f
  <2>2. SumFunctionOnSet(f, Span) = 0
    BY <2>1, SpanIs, SumZero
  <2> QED
    BY <2>2 DEF Times, f
<1>9. ASSUME NEW wt \in Weights PROVE WaitingTime(RidersNow, wt) = 0
  <2> DEFINE f == [c \in Cohort |-> WaitOf(RidersNow, wt, c)]
  <2>1. \A c \in Cohort : f[c] = 0
    <3> TAKE c \in Cohort
    <3>1. wt[Age(c)] \in Int
      BY <1>6, WaitInt
    <3>2. Times(RidersNow.waited[c], wt) = 0
      BY <1>7, <1>8
    <3>3. Worth(RidersNow.waiting[c], wt[Age(c)]) = 0
      BY <1>7, <3>1, WorthNothing
    <3> QED
      BY <3>2, <3>3 DEF WaitOf
  <2> HIDE DEF f
  <2>2. SumFunctionOnSet(f, Cohort) = 0
    BY <1>6, <2>1, SumZero
  <2> QED
    BY <2>2 DEF WaitingTime, f
<1>10. RideTime(RidersNow) = 0
  <2> DEFINE f == [c \in Cohort |-> RidesOf(RidersNow, c)]
  <2>1. \A c \in Cohort : f[c] = 0
    <3> TAKE c \in Cohort
    <3> DEFINE r == [b \in Bus |-> RideOf(RidersNow, b, c)]
    <3>1. Times(RidersNow.rode[c], Minutes) = 0
      BY <1>7, <1>8, MinutesWeight
    <3>2. \A b \in Bus : r[b] = 0
      BY <1>1, <1>7, WorthNothing DEF RideOf
    <3>3. RidesOf(RidersNow, c) = Times(RidersNow.rode[c], Minutes) + SumFunctionOnSet(r, Bus)
      BY DEF RidesOf
    <3> HIDE DEF r
    <3>4. SumFunctionOnSet(r, Bus) = 0
      BY <1>6, <3>2, SumZero
    <3> QED
      BY <3>1, <3>3, <3>4
  <2> HIDE DEF f
  <2>2. SumFunctionOnSet(f, Cohort) = 0
    BY <1>6, <2>1, SumZero
  <2> QED
    BY <2>2 DEF RideTime, f
<1>11. InTime
  <2>1. WaitingTime(RidersNow, Minutes) = 0 /\ WaitingTime(RidersNow, Beyond) = 0
    BY <1>9, MinutesWeight, BeyondWeight
  <2> QED
    BY <1>3, <1>4, <1>10, <2>1, KindsAre DEF InTime
<1> QED
  BY <1>1, <1>5, <1>11, RingBegins DEF AccInv

\* A step that changes nothing keeps it.
LEMMA AccStutter == ASSUME AccInv, UNCHANGED avars PROVE AccInv'
<1>1. UNCHANGED kvars /\ UNCHANGED accounts /\ UNCHANGED vars /\ UNCHANGED day /\ UNCHANGED riders
  BY DEF avars, kvars
<1>2. KInv'
  BY <1>1, KStutterKeepsKInv DEF AccInv
<1>3. Owed' = Owed /\ costs' = costs /\ spent' = spent /\ reward' = reward
  BY <1>1 DEF accounts, vars, Owed, Added
<1>4. now' = now /\ billed' = billed /\ RidersNow' = RidersNow
  BY <1>1 DEF vars, riders, RidersNow
<1>5. IntervalCost(spent)' = IntervalCost(spent)
  BY <1>3 DEF IntervalCost
<1>6. Paid'
  BY <1>3, <1>4, <1>5 DEF AccInv, Paid, CostType, Kinds, NoCost
<1>7. /\ WaitingTime(RidersNow, Minutes)' = WaitingTime(RidersNow, Minutes)
      /\ WaitingTime(RidersNow, Beyond)' = WaitingTime(RidersNow, Beyond)
      /\ RideTime(RidersNow)' = RideTime(RidersNow)
  BY <1>1, <1>4, TimesStay DEF Minutes, Beyond, Above
<1>8. InTime'
  BY <1>3, <1>7 DEF AccInv, InTime
<1> QED
  BY <1>2, <1>6, <1>8, RingStays DEF AccInv

\* The inductive invariant of the accounts holds at all times.
THEOREM AccInvariance == AccSpec => []AccInv
<1>1. AccInv /\ [AccNext]_avars => AccInv'
  <2> SUFFICES ASSUME AccInv, [AccNext]_avars PROVE AccInv'
    OBVIOUS
  <2>1. CASE AccDecide
    BY <2>1, KDecideKeepsKInv, DecidePays, DecideInTime, DecideRinged DEF AccInv, AccDecide
  <2>2. CASE AccTick
    BY <2>2, KTickKeepsKInv, TickPays, TickInTime, TickRinged DEF AccInv, AccTick
  <2>3. CASE UNCHANGED avars
    BY <2>3, AccStutter
  <2> QED
    BY <2>1, <2>2, <2>3 DEF AccNext
<1> QED
  BY <1>1, AccInitInv, PTL DEF AccSpec

\* The accounts only watch the kernel.
THEOREM AccountsKeepKernel == AccSpec => KSpec
<1>1. AccInit => KInit
  BY DEF AccInit
<1>2. [AccNext]_avars => [KNext]_kvars
  BY DEF AccNext, AccDecide, AccTick, KNext, avars
<1> QED
  BY <1>1, <1>2, PTL DEF AccSpec, KSpec

\* The rewards of an episode add up to its cost, and what was billed as denied,
\* abandoned and unfinished is what became of its passengers.
THEOREM RewardsAreCosts == AccSpec => []RewardIsCost
<1>1. AccInv => RewardIsCost
  <2> SUFFICES ASSUME AccInv PROVE RewardIsCost
    OBVIOUS
  <2>1. Booked(RidersNow, now) /\ SettledOnce
    BY DEF AccInv, KInv
  <2>2. billed.abandoned = totals.abandoned
    BY <2>1 DEF Booked, RidersNow
  <2> QED
    BY <2>1, <2>2 DEF AccInv, Paid, SettledOnce, RewardIsCost
<1> QED
  BY <1>1, AccInvariance, PTL

\* The denials billed are the passengers that carry the mark, however their cohorts
\* were split.
THEOREM DeniedOnlyOnce == AccSpec => []DeniedOnce
<1>1. AccInv => DeniedOnce
  <2> SUFFICES ASSUME AccInv PROVE DeniedOnce
    OBVIOUS
  <2>1. Booked(RidersNow, now)
    BY DEF AccInv, KInv
  <2>2. billed.denied = branded + SumFunctionOnSet(waiting, {c \in Cohort : denied[c]})
    BY <2>1 DEF Booked, Marked, RidersNow
  <2> QED
    BY <2>2 DEF AccInv, Paid, DeniedOnce, UniqueDenied
<1> QED
  BY <1>1, AccInvariance, PTL

\* The minutes the ticks integrated are the minutes the passengers waited and rode,
\* and the excessive ones those beyond the excess age.
THEOREM TimeAlwaysBilled == AccSpec => []TimeIsBilled
<1>1. AccInv => TimeIsBilled
  <2> SUFFICES ASSUME AccInv PROVE TimeIsBilled
    OBVIOUS
  <2>1. KInv /\ now <= Horizon /\ InTime
    BY DEF AccInv, Paid
  <2>2. Owed.waiting = TotalWait /\ Owed.onboard = RidingTime /\ Owed.fairness = ExcessWait
    BY <2>1, TotalWaitIs, RidingTimeIs, ExcessWaitIs DEF InTime
  <2>3. Owed.fairness > 0 => Excessive > 0
    BY <2>1, <2>2, ExcessiveSeen
  <2> QED
    BY <2>2, <2>3 DEF TimeIsBilled, ExcessWait
<1> QED
  BY <1>1, AccInvariance, PTL

-----------------------------------------------------------------------------
(* Departure clocks *)

\* No FULL bus has left from a turning point before the end of the route, and
\* every clock that was set in the day was set by a departure of the day.
ClockInv ==
  /\ \A r \in Route : TurnStop[r] # LastStop => lastFull[<<r, -1, TurnStop[r]>>] < 0
  /\ \A k \in Terminal : lastFull[k] >= 0 =>
       \E e \in departures : /\ e.time = lastFull[k]
                             /\ e.route = k[1]
                             /\ e.direction = k[2]

\* A FULL bus that leaves a terminal is of its route and direction, and an inbound
\* one stands at the end of the route.
LEMMA FullLeaves ==
  ASSUME Inv, NEW k \in Terminal, NEW b \in Departing(Fleet1, k),
         Fleet1[b].pattern = "FULL"
  PROVE  /\ b \in Leaving(Fleet1)
         /\ Fleet1[b].route = k[1] /\ Fleet1[b].direction = k[2]
         /\ k[2] = -1 => k[3] = LastStop
<1>1. b \in Leaving(Fleet1)
  BY DEF Leaving
<1>2. b \in Bus /\ Fleet1[b].phase = "TERMINAL_IDLE"
  BY <1>1, LeavingIdle
<1>3. TerminalOf(Fleet1[b]) = k
  BY DEF Departing, Due, Extras, Fulls, Ready
<1>4. Good(Fleet1[b])
  BY <1>2, CompletedGood DEF Fleet1
<1>5. AtEnd(Fleet1[b])
  BY <1>2, <1>4 DEF Good, MissionInv
<1>6. /\ k[1] = Fleet1[b].route /\ k[2] = Fleet1[b].direction /\ k[3] = Fleet1[b].at
  BY <1>3 DEF TerminalOf
<1>7. Fleet1[b].direction = -1 => Fleet1[b].at = LastStop
  BY <1>5 DEF AtEnd, Limit
<1> QED
  BY <1>1, <1>6, <1>7

\* The clocks a day begins with are those of no departure.
LEMMA ClocksBegin == AccInit => ClockInv
<1> SUFFICES ASSUME AccInit PROVE ClockInv
  OBVIOUS
<1>1. InitialAge \in Nat /\ InitialAge # 0
  BY TimeAssumption
<1>2. \A k \in Terminal : lastFull[k] < 0
  BY <1>1 DEF AccInit, KInit, Init
<1>3. \A r \in Route : <<r, -1, TurnStop[r]>> \in Terminal
  BY DEF Terminal, Terminals
<1>4. \A k \in Terminal : ~(lastFull[k] >= 0)
  <2> TAKE k \in Terminal
  <2>1. lastFull[k] = -InitialAge
    BY DEF AccInit, KInit, Init
  <2> QED
    BY <1>1, <2>1
<1> QED
  BY <1>2, <1>3, <1>4 DEF ClockInv

\* A tick sets the clocks of the terminals that FULL buses leave.
LEMMA TickSetsClocks == ASSUME Inv, ClockInv, AccTick PROVE ClockInv'
<1>1. /\ lastFull' = [k \in Terminal |->
           IF \E b \in Departing(Fleet1, k) : Fleet1[b].pattern = "FULL"
           THEN now ELSE lastFull[k]]
      /\ departures' = departures \cup {DepartureOf(Fleet1[b]) : b \in Leaving(Fleet1)}
  BY DEF AccTick, KTick, FleetTick
<1>2. ASSUME NEW r \in Route, TurnStop[r] # LastStop
      PROVE  lastFull'[<<r, -1, TurnStop[r]>>] < 0
  <2> DEFINE k == <<r, -1, TurnStop[r]>>
  <2>1. k \in Terminal /\ k[2] = -1 /\ k[3] # LastStop
    BY <1>2 DEF Terminal, Terminals
  <2>2. ~(\E b \in Departing(Fleet1, k) : Fleet1[b].pattern = "FULL")
    BY <2>1, FullLeaves
  <2>3. lastFull'[k] = lastFull[k]
    BY <1>1, <2>1, <2>2
  <2> QED
    BY <1>2, <2>3 DEF ClockInv
<1>3. ASSUME NEW k \in Terminal, lastFull'[k] >= 0
      PROVE  \E e \in departures' : /\ e.time = lastFull'[k]
                                    /\ e.route = k[1]
                                    /\ e.direction = k[2]
  <2>1. CASE \E b \in Departing(Fleet1, k) : Fleet1[b].pattern = "FULL"
    <3>1. PICK b \in Departing(Fleet1, k) : Fleet1[b].pattern = "FULL"
      BY <2>1
    <3>2. /\ b \in Leaving(Fleet1)
          /\ Fleet1[b].route = k[1] /\ Fleet1[b].direction = k[2]
      BY <3>1, FullLeaves
    <3> DEFINE e == DepartureOf(Fleet1[b])
    <3>3. e \in departures' /\ lastFull'[k] = now
      BY <1>1, <2>1, <3>2
    <3>4. e.time = now /\ e.route = k[1] /\ e.direction = k[2]
      BY <3>2 DEF DepartureOf
    <3> QED
      BY <3>3, <3>4
  <2>2. CASE ~(\E b \in Departing(Fleet1, k) : Fleet1[b].pattern = "FULL")
    <3>1. lastFull'[k] = lastFull[k]
      BY <1>1, <2>2
    <3> QED
      BY <1>1, <1>3, <3>1 DEF ClockInv
  <2> QED
    BY <2>1, <2>2
<1> QED
  BY <1>2, <1>3 DEF ClockInv, Terminal, Terminals

\* Every gap that the dashboard shows is one since a FULL departure of the day, and a
\* turning point before the end of the route, which has none, raises no alarm.
THEOREM QuietAtTheTurn == AccSpec => []NoAlarmAtTheTurn
<1>1. ASSUME AccInv, ClockInv, [AccNext]_avars PROVE ClockInv'
  <2>1. CASE AccDecide
    <3>1. lastFull' = lastFull /\ departures' = departures
      BY <2>1 DEF AccDecide, KDecide, Decide, Noop, Dispatch, Recall, Reassign, ShortTurn,
                  SetHeadway, Accept, clocks
    <3> QED
      BY <1>1, <3>1 DEF ClockInv, Terminal, Terminals
  <2>2. CASE AccTick
    BY <1>1, <2>2, TickSetsClocks DEF AccInv, KInv
  <2>3. CASE UNCHANGED avars
    <3>1. lastFull' = lastFull /\ departures' = departures
      BY <2>3 DEF avars, accounts, kvars, vars, clocks
    <3> QED
      BY <1>1, <3>1 DEF ClockInv, Terminal, Terminals
  <2> QED
    BY <1>1, <2>1, <2>2, <2>3 DEF AccNext
<1>2. AccInv /\ ClockInv => NoAlarmAtTheTurn
  <2> SUFFICES ASSUME AccInv, ClockInv, NEW r \in Route
               PROVE  /\ TurnStop[r] # LastStop => ~ClockShown(<<r, -1, TurnStop[r]>>).known
                      /\ \A k \in Terminals(r) : ClockShown(k).known =>
                           \E e \in departures : /\ e.time = lastFull[k]
                                                 /\ e.route = r
                                                 /\ e.direction = k[2]
    BY DEF NoAlarmAtTheTurn
  <2>1. \A k : ClockShown(k).known <=> lastFull[k] >= 0
    BY DEF ClockShown
  <2>2. \A k \in Terminals(r) : k \in Terminal /\ k[1] = r
    BY DEF Terminals, Terminal
  <2>3. \A k \in Terminals(r) : lastFull[k] >= 0 =>
           \E e \in departures : e.time = lastFull[k] /\ e.route = r /\ e.direction = k[2]
    BY <2>2, Zenon DEF ClockInv
  <2>4. TurnStop[r] # LastStop => ~(lastFull[<<r, -1, TurnStop[r]>>] >= 0)
    <3> DEFINE k == <<r, -1, TurnStop[r]>>
    <3>1. k \in Terminal
      BY DEF Terminal, Terminals
    <3>2. lastFull[k] \in Int
      BY <3>1 DEF AccInv, KInv, Inv, TypeOK
    <3>3. TurnStop[r] # LastStop => lastFull[k] < 0
      BY DEF ClockInv
    <3> QED
      BY <3>2, <3>3
  <2> QED
    BY <2>1, <2>3, <2>4
<1> QED
  BY <1>1, <1>2, AccInvariance, ClocksBegin, PTL DEF AccSpec

-----------------------------------------------------------------------------
(* What a controller sees *)

\* size[r] is how many elements b of S have part[b] = r, and W are those with a part
\* in R.
Divided(S, R, W, part, parts, size) ==
  /\ \A r \in R : /\ size[r] = Cardinality(parts[r])
                  /\ parts[r] \subseteq S
                  /\ \A b \in S : b \in parts[r] <=> part[b] = r
  /\ W \in SUBSET S
  /\ \A b \in S : b \in W <=> part[b] \in R

\* A set whose elements fall into finitely many parts is as large as the parts
\* together.
LEMMA PartsAdd ==
  ASSUME NEW S, IsFiniteSet(S), NEW R, IsFiniteSet(R), NEW W, NEW part, NEW parts,
         NEW size, Divided(S, R, W, part, parts, size)
  PROVE  SumFunctionOnSet(size, R) = Cardinality(W)
<1> DEFINE P == {T \in SUBSET R :
                   SumFunctionOnSet(size, T) = Cardinality({b \in S : part[b] \in T})}
<1>0. \A r \in R : size[r] = Cardinality({b \in S : part[b] = r})
  <2> TAKE r \in R
  <2>1. parts[r] = {b \in S : part[b] = r}
    BY DEF Divided
  <2> QED
    BY <2>1 DEF Divided
<1>1. {} \in P
  <2>1. {b \in S : part[b] \in {}} = {}
    OBVIOUS
  <2>2. SumFunctionOnSet(size, {}) = Cardinality({})
    BY SumEmpty, FS_EmptySet
  <2> QED
    BY <2>1, <2>2
<1>2. ASSUME NEW T \in SUBSET R, T # {}, \A x \in T : T \ {x} \in P
      PROVE  T \in P
  <2>1. PICK x \in T : T \ {x} \in P
    BY <1>2
  <2> DEFINE One == {b \in S : part[b] = x}
             Rest == {b \in S : part[b] \in T \ {x}}
             All == {b \in S : part[b] \in T}
  <2>2. /\ IsFiniteSet(T) /\ IsFiniteSet(One) /\ IsFiniteSet(Rest)
        /\ All = One \cup Rest /\ One \cap Rest = {}
    BY FS_Subset
  <2>3. SumFunctionOnSet(size, T \ {x}) = Cardinality(Rest) /\ size[x] = Cardinality(One)
    BY <1>0, <2>1
  <2>4. \A y \in T : size[y] \in Int
    <3> TAKE y \in T
    <3>1. IsFiniteSet({b \in S : part[b] = y})
      BY FS_Subset
    <3>2. Cardinality({b \in S : part[b] = y}) \in Nat
      BY <3>1, FS_CardinalityType
    <3> QED
      BY <1>0, <3>2
  <2>5. SumFunctionOnSet(size, T) = size[x] + SumFunctionOnSet(size, T \ {x})
    BY <2>1, <2>2, <2>4, SumSplit
  <2>6. Cardinality(All) = Cardinality(One) + Cardinality(Rest)
    <3> HIDE DEF One, Rest, All
    <3>1. Cardinality(One \cup Rest)
            = Cardinality(One) + Cardinality(Rest) - Cardinality(One \cap Rest)
      BY <2>2, FS_Union
    <3>2. Cardinality(One) \in Nat /\ Cardinality(Rest) \in Nat
      BY <2>2, FS_CardinalityType
    <3>3. Cardinality(One \cap Rest) = 0 /\ Cardinality(All) = Cardinality(One \cup Rest)
      BY <2>2, FS_EmptySet, Zenon
    <3> QED
      BY <3>1, <3>2, <3>3
  <2>7. SumFunctionOnSet(size, T) = Cardinality(All)
    BY <2>3, <2>5, <2>6
  <2> QED
    BY <2>7
<1> HIDE DEF P
<1>3. R \in P
  BY <1>1, <1>2, SetInductionOn
<1>4. W = {b \in S : part[b] \in R}
  BY DEF Divided
<1> QED
  BY <1>3, <1>4 DEF P

\* What a quotient says of a number.
LEMMA Quotient ==
  ASSUME NEW x \in Nat, NEW n \in Nat \ {0}, NEW q \in Nat
  PROVE  x \div n = q <=> q * n <= x /\ x < (q + 1) * n
OBVIOUS

\* A cohort arrived lag intervals ago if its tick is in that interval.
LEMMA LagIs ==
  ASSUME day \in Days, now \in Nat, NEW c \in Cohort, NEW lag \in Lags
  PROVE  (Arrived(c) /\ LagOf(c) = lag) <=>
           /\ now - (lag + 1) * Interval <= Trip(c).tick
           /\ Trip(c).tick < now - lag * Interval
<1>1. Trip(c).tick \in Nat /\ Interval \in Nat \ {0} /\ lag \in Nat
  BY TripType, TimeAssumption DEF Lags
<1> DEFINE t == Trip(c).tick
           x == now - 1 - t
           low == lag * Interval
           high == (lag + 1) * Interval
<1>2. low \in Nat /\ high \in Nat
  BY <1>1
<1>3. CASE t < now
  <2>1. x \in Nat
    BY <1>1, <1>3
  <2>2. x \div Interval = lag <=> low <= x /\ x < high
    <3> HIDE DEF x
    <3> QED
      BY <1>1, <2>1, Quotient
  <2>3. LagOf(c) = x \div Interval /\ Arrived(c)
    BY <1>3 DEF LagOf, Arrived
  <2> HIDE DEF low, high
  <2>4. (low <= x /\ x < high) <=> (now - high <= t /\ t < now - low)
    BY <1>1, <1>2
  <2> QED
    BY <2>2, <2>3, <2>4 DEF low, high
<1>4. CASE ~(t < now)
  <2>1. ~Arrived(c)
    BY <1>4 DEF Arrived
  <2> HIDE DEF low
  <2>2. ~(t < now - low)
    BY <1>1, <1>2, <1>4
  <2> QED
    BY <2>1, <2>2 DEF low
<1> QED
  BY <1>3, <1>4

\* What an observation comes across is a number of passengers.
LEMMA SeenNat ==
  ASSUME KInv, NEW c \in Cohort
  PROVE  Seen(c) \in Nat
<1> DEFINE f == [b \in Bus |-> aboard[b][c]]
<1>1. waiting[c] \in Nat /\ (\A b \in Bus : f[b] \in Nat) /\ recentFinished \in Seq(Entry)
  BY DEF KInv, RidersNow, Riders
<1>2. OnBuses(c) = SumFunctionOnSet(f, Bus)
  BY SumWhole DEF OnBuses
<1> HIDE DEF f
<1>3. OnBuses(c) \in Nat
  BY <1>1, <1>2, FleetAssumption, SumNat
<1>4. /\ Tally(recentFinished, c, "COMPLETED", 0) \in Nat
      /\ Tally(recentFinished, c, "ABANDONED", 0) \in Nat
  BY <1>1, TallyNat
<1> QED
  BY <1>1, <1>3, <1>4 DEF Seen

\* An observation comes across all passengers of a cohort that arrived within the
\* lags, though the ring has been pruned.
LEMMA SeenIs ==
  ASSUME KInv, Ringed, NEW c \in Cohort, Arrived(c), Recent(c)
  PROVE  Seen(c) = Trip(c).count
<1>1. waiting[c] + Riding(aboard, c) + completed[c] + abandoned[c] = Came(now)[c]
  BY DEF KInv, Counted, RidersNow
<1>2. Came(now)[c] = Trip(c).count
  BY DEF Came, Arrived
<1>3. OnBuses(c) = Riding(aboard, c)
  BY SumWhole DEF OnBuses, Riding
<1>4. \A st \in Statuses : Tally(recentFinished, c, st, 0) = DoneAs(RidersNow, st)[c]
  BY DEF Ringed
<1>5. /\ Tally(recentFinished, c, "COMPLETED", 0) = completed[c]
      /\ Tally(recentFinished, c, "ABANDONED", 0) = abandoned[c]
  BY <1>4 DEF Statuses, DoneAs, RidersNow
<1> QED
  BY <1>1, <1>2, <1>3, <1>5 DEF Seen

\* The interval of a lag lies within the lags.
LEMMA LagsFit ==
  ASSUME NEW lag \in Lags
  PROVE  /\ (lag + 1) * Interval \in Nat /\ HistoryLags * Interval \in Nat
         /\ (lag + 1) * Interval <= HistoryLags * Interval
<1>1. Interval \in Nat /\ HistoryLags \in Nat
  BY TimeAssumption, DemandAssumption
<1>2. lag \in Nat /\ lag + 1 <= HistoryLags
  BY <1>1 DEF Lags
<1>3. PICK more \in Nat : HistoryLags = (lag + 1) + more
  <2>1. HistoryLags - (lag + 1) \in Nat
    BY <1>1, <1>2
  <2> QED
    BY <1>1, <1>2, <2>1
<1>4. HistoryLags * Interval = (lag + 1) * Interval + more * Interval
  BY <1>1, <1>2, <1>3
<1>5. (lag + 1) * Interval \in Nat /\ more * Interval \in Nat /\ HistoryLags * Interval \in Nat
  BY <1>1, <1>2
<1> QED
  BY <1>4, <1>5

\* The arrival history of a cell is the demand of the tape.
LEMMA HistoryIsTape ==
  ASSUME KInv, Ringed, NEW r, NEW d, NEW i, NEW lag \in Lags
  PROVE  History(r, d, i, lag) = TapeArrivals(r, d, i, lag)
<1>0. day \in Days /\ now \in Nat /\ IsFiniteSet(Cohort)
  BY DayFacts DEF KInv, Inv, TypeOK
<1> DEFINE S == {c \in At(r, d, i) : Arrived(c) /\ LagOf(c) = lag}
           T == {c \in At(r, d, i) :
                   now - (lag + 1) * Interval <= Trip(c).tick
                     /\ Trip(c).tick < now - lag * Interval}
           f == [c \in Cohort |-> Seen(c)]
           g == [c \in Cohort |-> Trip(c).count]
<1>1. \A c \in At(r, d, i) : c \in Cohort
  BY DEF At
<1>2. S = T
  BY <1>0, <1>1, LagIs
<1>3. \A c \in S : c \in Cohort /\ f[c] = g[c]
  <2> TAKE c \in S
  <2>1. c \in Cohort /\ Arrived(c) /\ LagOf(c) = lag
    BY <1>1
  <2>2. Recent(c)
    <3>1. now - (lag + 1) * Interval <= Trip(c).tick /\ Trip(c).tick \in Nat
      BY <1>0, <2>1, LagIs, TripType
    <3>2. (lag + 1) * Interval \in Nat /\ HistoryLags * Interval \in Nat
          /\ (lag + 1) * Interval <= HistoryLags * Interval
      BY LagsFit
    <3> QED
      BY <1>0, <3>1, <3>2 DEF Recent
  <2> QED
    BY <2>1, <2>2, SeenIs
<1>4. IsFiniteSet(S)
  <2>1. S \subseteq Cohort
    BY <1>1
  <2> QED
    BY <1>0, <2>1, FS_Subset
<1>5. History(r, d, i, lag) = SumFunctionOnSet(f, S)
  BY DEF History, Here
<1>6. TapeArrivals(r, d, i, lag) = SumFunctionOnSet(g, T)
  BY DEF TapeArrivals, Here
<1> HIDE DEF S, T, f, g
<1>7. SumFunctionOnSet(f, S) = SumFunctionOnSet(g, S)
  BY <1>3, <1>4, SumEqual
<1> QED
  BY <1>2, <1>5, <1>6, <1>7

\* The arrivals of the last interval are those of lag 0.
LEMMA ArrivedIsHistory ==
  ASSUME KInv, NEW r, NEW d, NEW i
  PROVE  JustArrived(r, d, i) = History(r, d, i, 0)
<1>1. day \in Days /\ now \in Nat /\ Interval \in Nat /\ 0 \in Lags
  BY TimeAssumption, DemandAssumption DEF KInv, Inv, TypeOK, Lags
<1>2. ASSUME NEW c \in At(r, d, i)
      PROVE  LastStart <= Trip(c).tick /\ Arrived(c) <=> Arrived(c) /\ LagOf(c) = 0
  <2>1. c \in Cohort
    BY DEF At
  <2>2. Trip(c).tick \in Nat
    BY <1>1, <2>1, TripType
  <2>3. (Arrived(c) /\ LagOf(c) = 0) <=>
           /\ now - (0 + 1) * Interval <= Trip(c).tick
           /\ Trip(c).tick < now - 0 * Interval
    BY <1>1, <2>1, LagIs
  <2> QED
    BY <1>1, <2>2, <2>3 DEF LastStart, Arrived
<1>3. {c \in At(r, d, i) : LastStart <= Trip(c).tick /\ Arrived(c)}
        = {c \in At(r, d, i) : Arrived(c) /\ LagOf(c) = 0}
  BY <1>2
<1> QED
  BY <1>3, Zenon DEF JustArrived, History

\* At a control boundary the completions shown are those of the whole interval.
LEMMA CompletedIsNew ==
  ASSUME KInv, Ringed, ticksLeft = 0, NEW r, NEW d, NEW i
  PROVE  JustCompleted(r, d, i) = NewlyCompleted(r, d, i)
<1>0. day \in Days /\ now \in Nat /\ Interval \in Nat /\ IsFiniteSet(Cohort)
  BY DayFacts, TimeAssumption DEF KInv, Inv, TypeOK
<1> DEFINE f == [c \in Cohort |-> Tally(recentFinished, c, "COMPLETED", LastStart)]
           g == [c \in Cohort |-> completed[c] - completedBefore[c]]
           S == At(r, d, i)
<1>1. LastStart = SinceTurn
  BY <1>0 DEF LastStart, SinceTurn
<1>2. \A c \in Cohort : f[c] = g[c]
  BY <1>1 DEF Ringed
<1>3. S \subseteq Cohort
  BY DEF At
<1>4. JustCompleted(r, d, i) = SumFunctionOnSet(f, S)
  BY DEF JustCompleted, Here
<1>5. NewlyCompleted(r, d, i) = SumFunctionOnSet(g, S)
  BY DEF NewlyCompleted, Here
<1> HIDE DEF f, g, S
<1>6. IsFiniteSet(S)
  BY <1>0, <1>3, FS_Subset
<1>7. SumFunctionOnSet(f, S) = SumFunctionOnSet(g, S)
  BY <1>2, <1>3, <1>6, SumEqual
<1> QED
  BY <1>4, <1>5, <1>7

\* The buses that serve a route are those that are committed to it.
LEMMA ServingIsCommitted ==
  ASSUME Inv, NEW r \in Route
  PROVE  Serving(r) = FullCommitted(r)
<1>1. ASSUME NEW b \in Bus, bus[b].route = r PROVE bus[b].phase # "DEPOT_IDLE"
  <2>1. MissionInv(bus[b])
    BY DEF Inv, MissionsMakeSense
  <2> QED
    BY <1>1, <2>1, RouteAssumption DEF MissionInv
<1> QED
  BY <1>1 DEF Serving, Assigned, FullCommitted

\* A bus of a route is on its way to it, serves it, or runs short.
LEMMA SightedIsAssigned ==
  ASSUME Inv, NEW r \in Route
  PROVE  Sighted(r) = Cardinality(Assigned(r))
<1>1. ASSUME NEW b \in Assigned(r)
      PROVE  b \in Serving(r) \cup Incoming(r) \cup Short(r)
  <2>1. b \in Bus
    BY DEF Assigned
  <2>2. bus[b].pattern \in {"FULL", "SHORT"}
    BY <2>1 DEF Inv, TypeOK, VehicleType
  <2> QED
    BY <2>2 DEF Serving, Incoming, Short
<1>2. Serving(r) \cup Incoming(r) \cup Short(r) \subseteq Assigned(r)
  BY DEF Serving, Incoming, Short
<1>3. Serving(r) \cup Incoming(r) \cup Short(r) = Assigned(r)
  BY <1>1, <1>2
<1> QED
  BY <1>3 DEF Sighted

\* A bus of no route is at the depot or on its way there.
LEMMA ReserveIsSeen ==
  ASSUME Inv
  PROVE  Cardinality(Assigned(NoRoute))
           = DepotCount + Cardinality({b \in Assigned(NoRoute) : bus[b].phase = "DEADHEAD"})
<1> DEFINE Idle == {b \in Bus : bus[b].phase = "DEPOT_IDLE"}
           Back == {b \in Assigned(NoRoute) : bus[b].phase = "DEADHEAD"}
<1>1. ASSUME NEW b \in Bus
      PROVE  bus[b].route = NoRoute <=>
               bus[b].phase = "DEPOT_IDLE" \/ (bus[b].route = NoRoute /\ bus[b].phase = "DEADHEAD")
  <2>1. MissionInv(bus[b])
    BY DEF Inv, MissionsMakeSense
  <2> QED
    BY <2>1, RouteAssumption DEF MissionInv
<1>2. /\ Assigned(NoRoute) = Idle \cup Back /\ Idle \cap Back = {}
      /\ Idle \subseteq Bus /\ Back \subseteq Bus
  BY <1>1 DEF Assigned
<1>3. IsFiniteSet(Idle) /\ IsFiniteSet(Back)
  BY <1>2, FleetAssumption, FS_Subset
<1>4. DepotCount = Cardinality(Idle)
  BY DEF DepotCount
<1> HIDE DEF Idle
<1>5. Cardinality(Assigned(NoRoute)) = Cardinality(Idle) + Cardinality(Back)
  <2> HIDE DEF Back
  <2>1. Cardinality(Idle \cup Back)
          = Cardinality(Idle) + Cardinality(Back) - Cardinality(Idle \cap Back)
    BY <1>3, FS_Union
  <2>2. Cardinality(Idle) \in Nat /\ Cardinality(Back) \in Nat
    BY <1>3, FS_CardinalityType
  <2>3. Cardinality(Idle \cap Back) = 0 /\ Cardinality(Assigned(NoRoute)) = Cardinality(Idle \cup Back)
    BY <1>2, FS_EmptySet, Zenon
  <2> QED
    BY <2>1, <2>2, <2>3
<1> QED
  BY <1>4, <1>5

\* Every bus is seen once.
LEMMA SeenOnce ==
  ASSUME Inv
  PROVE  SumFunction([r \in Route |-> Sighted(r)]) + DepotCount
           + Cardinality({b \in Assigned(NoRoute) : bus[b].phase = "DEADHEAD"})
         = Cardinality(Bus)
<1> DEFINE f == [r \in Route |-> Sighted(r)]
           part == [b \in Bus |-> bus[b].route]
           parts == [r \in Route |-> Assigned(r)]
           On == {b \in Bus : part[b] \in Route}
           Off == Assigned(NoRoute)
           Back == Cardinality({b \in Assigned(NoRoute) : bus[b].phase = "DEADHEAD"})
<1>1. Divided(Bus, Route, On, part, parts, f)
  BY SightedIsAssigned DEF Assigned, Divided
<1>2. SumFunction(f) = SumFunctionOnSet(f, Route)
  BY SumWhole
<1>3. On \cup Off = Bus /\ On \cap Off = {} /\ On \subseteq Bus /\ Off \subseteq Bus
  <2>1. \A b \in Bus : bus[b].route \in Route \cup {NoRoute}
    BY DEF Inv, TypeOK, VehicleType
  <2> QED
    BY <2>1, RouteAssumption DEF Assigned
<1> HIDE DEF f, part, parts, On, Off
<1>4. IsFiniteSet(Bus) /\ IsFiniteSet(Route) /\ IsFiniteSet(On) /\ IsFiniteSet(Off)
  BY <1>3, FleetAssumption, RouteAssumption, FS_Subset
<1>5. SumFunctionOnSet(f, Route) = Cardinality(On)
  BY <1>1, <1>4, PartsAdd
<1>6. Cardinality(Off) = DepotCount + Back
  BY ReserveIsSeen DEF Off
<1>7. DepotCount \in Nat /\ Back \in Nat
  <2>1. IsFiniteSet({b \in Bus : bus[b].phase = "DEPOT_IDLE"})
        /\ IsFiniteSet({b \in Assigned(NoRoute) : bus[b].phase = "DEADHEAD"})
    BY <1>4, FS_Subset DEF Off
  <2> QED
    BY <2>1, FS_CardinalityType DEF DepotCount
<1> HIDE DEF Back
<1>8. Cardinality(Bus) = Cardinality(On) + Cardinality(Off)
  <2>1. Cardinality(On \cup Off)
          = Cardinality(On) + Cardinality(Off) - Cardinality(On \cap Off)
    BY <1>4, FS_Union
  <2>2. Cardinality(On) \in Nat /\ Cardinality(Off) \in Nat
    BY <1>4, FS_CardinalityType
  <2>3. Cardinality(On \cap Off) = 0 /\ Cardinality(Bus) = Cardinality(On \cup Off)
    BY <1>3, FS_EmptySet, Zenon
  <2> QED
    BY <2>1, <2>2, <2>3
<1>9. Cardinality(On) \in Nat
  BY <1>4, FS_CardinalityType
<1>10. SumFunction(f) + DepotCount + Back = Cardinality(Bus)
  BY <1>2, <1>5, <1>6, <1>7, <1>8, <1>9
<1> QED
  BY <1>10 DEF f, Back

\* A controller sees the day as it is, from a ring that forgets passengers: the
\* arrival history is the tape's demand, the completions shown are all those of the
\* interval, the buses that serve a route are those the guards count, and every bus is seen once.
THEOREM SeesTheDay == AccSpec => []ObservationIsTrue
<1>1. AccInv => ObservationIsTrue
  <2> SUFFICES ASSUME AccInv, ticksLeft = 0 PROVE ObservationIsTrue
    BY DEF ObservationIsTrue
  <2>1. KInv /\ Inv /\ Ringed
    BY DEF AccInv, KInv
  <2> DEFINE o == Observed
  <2>2. ASSUME NEW r \in Route, NEW d \in {1, -1}, NEW i \in 0 .. LastStop
        PROVE  /\ \A lag \in Lags : o.history[<<r, d, i>>][lag] = TapeArrivals(r, d, i, lag)
               /\ o.stops[<<r, d, i>>].arrived = o.history[<<r, d, i>>][0]
               /\ o.stops[<<r, d, i>>].completed = NewlyCompleted(r, d, i)
    <3>0. <<r, d, i>> \in Cell
      BY DEF Cell
    <3>1. \A lag \in Lags : o.history[<<r, d, i>>][lag] = History(r, d, i, lag)
      BY <3>0 DEF Observed
    <3>2. /\ o.stops[<<r, d, i>>].arrived = JustArrived(r, d, i)
          /\ o.stops[<<r, d, i>>].completed = JustCompleted(r, d, i)
      <4>1. o.stops[<<r, d, i>>] = StopRow(r, d, i)
        BY <3>0 DEF Observed
      <4> QED
        BY <4>1 DEF StopRow
    <3>3. 0 \in Lags
      BY DemandAssumption DEF Lags
    <3>4. \A lag \in Lags : History(r, d, i, lag) = TapeArrivals(r, d, i, lag)
      BY <2>1, HistoryIsTape
    <3>5. JustArrived(r, d, i) = History(r, d, i, 0)
      BY <2>1, ArrivedIsHistory
    <3>6. JustCompleted(r, d, i) = NewlyCompleted(r, d, i)
      BY <2>1, CompletedIsNew
    <3> HIDE DEF o
    <3> QED
      BY <3>1, <3>2, <3>3, <3>4, <3>5, <3>6
  <2>3. \A r \in Route : o.routes[r].full = Cardinality(FullCommitted(r))
    <3> TAKE r \in Route
    <3>1. o.routes[r].full = Cardinality(Serving(r))
      BY DEF Observed, RouteRow
    <3> QED
      BY <2>1, <3>1, ServingIsCommitted
  <2>4. {b \in Assigned(NoRoute) : o.vehicles[b].phase = "DEADHEAD"}
          = {b \in Assigned(NoRoute) : bus[b].phase = "DEADHEAD"}
    <3>1. \A b \in Assigned(NoRoute) : o.vehicles[b].phase = bus[b].phase
      BY DEF Observed, VehicleRow, Assigned
    <3> QED
      BY <3>1
  <2>5. SumFunction([r \in Route |-> Sighted(r)]) + DepotCount
            + Cardinality({b \in Assigned(NoRoute) : o.vehicles[b].phase = "DEADHEAD"})
          = Cardinality(Bus)
    BY <2>1, <2>4, SeenOnce
  <2> HIDE DEF o
  <2> QED
    BY <2>2, <2>3, <2>5 DEF ObservationIsTrue, o
<1> QED
  BY <1>1, AccInvariance, PTL

-----------------------------------------------------------------------------
(* The first action that is not masked *)

\* A sequence, of whatever values.
IsSeq(p) == p \in Seq(Range(p))

\* A sequence of a type is a sequence of what it holds.
LEMMA SeqHolds == ASSUME NEW T, NEW p \in Seq(T) PROVE IsSeq(p)
<1>1. DOMAIN p = 1 .. Len(p) /\ Len(p) \in Nat /\ p = [i \in 1 .. Len(p) |-> p[i]]
  OBVIOUS
<1>2. \A i \in 1 .. Len(p) : p[i] \in Range(p)
  BY <1>1 DEF Range
<1> QED
  BY <1>1, <1>2 DEF IsSeq

\* A function written out for the numbers from 1 is a sequence.
LEMMA Written ==
  ASSUME NEW n \in Nat, NEW f, DOMAIN f = 1 .. n, f = [i \in DOMAIN f |-> f[i]]
  PROVE  IsSeq(f) /\ Len(f) = n
<1>1. \A i \in 1 .. n : f[i] \in Range(f)
  BY DEF Range
<1>2. f \in [1 .. n -> Range(f)]
  BY <1>1
<1> HIDE DEF Range
<1> QED
  BY <1>2 DEF IsSeq

\* What joining two sequences gives.
LEMMA Joined ==
  ASSUME NEW p, IsSeq(p), NEW q, IsSeq(q)
  PROVE  /\ IsSeq(p \o q) /\ Len(p) \in Nat /\ Len(q) \in Nat
         /\ Len(p \o q) = Len(p) + Len(q)
         /\ DOMAIN (p \o q) = 1 .. Len(p) + Len(q)
         /\ DOMAIN p = 1 .. Len(p) /\ DOMAIN q = 1 .. Len(q)
         /\ \A i \in 1 .. Len(p) : (p \o q)[i] = p[i]
         /\ \A i \in 1 .. Len(q) : (p \o q)[Len(p) + i] = q[i]
<1> DEFINE T == Range(p) \cup Range(q)
<1>0. p \in Seq(Range(p)) /\ q \in Seq(Range(q))
  BY DEF IsSeq
<1>1. p \in Seq(T) /\ q \in Seq(T)
  <2> HIDE DEF Range
  <2> QED
    BY <1>0
<1> HIDE DEF T
<1>2. p \o q \in Seq(T)
  BY <1>1
<1>3. IsSeq(p \o q)
  BY <1>2, SeqHolds
<1> QED
  BY <1>1, <1>3

\* p begins with h.
Opens(h, p) ==
  /\ IsSeq(h) /\ IsSeq(p)
  /\ Len(h) <= Len(p)
  /\ \A i \in 1 .. Len(h) : p[i] = h[i]

\* A sequence begins with itself.
LEMMA OpensItself == ASSUME NEW h, IsSeq(h) PROVE Opens(h, h)
<1>1. Len(h) \in Nat
  BY DEF IsSeq
<1> QED
  BY <1>1 DEF Opens

\* What is added at the end leaves the opening alone.
LEMMA OpensMore ==
  ASSUME NEW h, NEW p, Opens(h, p), NEW q, IsSeq(q)
  PROVE  Opens(h, p \o q)
<1>1. IsSeq(h) /\ IsSeq(p) /\ Len(h) \in Nat /\ Len(h) <= Len(p)
      /\ \A i \in 1 .. Len(h) : p[i] = h[i]
  BY DEF Opens, IsSeq
<1>2. /\ IsSeq(p \o q) /\ Len(p) \in Nat /\ Len(q) \in Nat
      /\ Len(p \o q) = Len(p) + Len(q)
      /\ \A i \in 1 .. Len(p) : (p \o q)[i] = p[i]
  BY <1>1, Joined
<1>3. \A i \in 1 .. Len(h) : (p \o q)[i] = h[i]
  BY <1>1, <1>2
<1> HIDE DEF IsSeq
<1> QED
  BY <1>1, <1>2, <1>3 DEF Opens

\* If an action of the opening is not masked, the one taken is of the opening.
LEMMA FirstOfOpening ==
  ASSUME NEW h, NEW p, Opens(h, p), \E i \in 1 .. Len(h) : Legal(h[i])
  PROVE  \E i \in 1 .. Len(h) : FirstLegal(p) = h[i]
<1> DEFINE legal == {i \in DOMAIN p : Legal(p[i])}
<1>1. DOMAIN p = 1 .. Len(p) /\ Len(p) \in Nat /\ Len(h) \in Nat
  BY DEF Opens, IsSeq
<1>2. PICK i \in 1 .. Len(h) : Legal(h[i])
  OBVIOUS
<1>3. p[i] = h[i] /\ i \in 1 .. Len(p)
  BY <1>1, <1>2 DEF Opens
<1>4. i \in legal
  BY <1>1, <1>2, <1>3
<1>5. legal \in SUBSET Nat
  BY <1>1
<1>6. FirstLegal(p) = p[Min(legal)]
  BY <1>4 DEF FirstLegal
<1>7. Min(legal) \in legal /\ Min(legal) <= i
  <2> HIDE DEF legal
  <2>1. \E e \in legal : \A x \in legal : e <= x
    BY <1>4, <1>5, MinIn
  <2> QED
    BY <1>4, <2>1, Zenon DEF Min
<1>8. Min(legal) \in 1 .. Len(h)
  BY <1>1, <1>2, <1>5, <1>7
<1>9. p[Min(legal)] = h[Min(legal)]
  BY <1>8 DEF Opens
<1> QED
  BY <1>6, <1>8, <1>9

\* The slots of a sequence of buses.
LEMMA SlotsOf ==
  ASSUME NEW kind, NEW buses, IsSeq(buses), NEW r
  PROVE  /\ IsSeq(Slots(kind, buses, r)) /\ Len(Slots(kind, buses, r)) = Len(buses)
         /\ Len(buses) \in Nat
         /\ \A i \in 1 .. Len(buses) :
              Slots(kind, buses, r)[i] = Action(kind, buses[i], r, NoHeadway)
<1>1. DOMAIN buses = 1 .. Len(buses) /\ Len(buses) \in Nat
  BY DEF IsSeq
<1>2. Slots(kind, buses, r) = [i \in 1 .. Len(buses) |-> Action(kind, buses[i], r, NoHeadway)]
  BY <1>1 DEF Slots, Each
<1>3. IsSeq(Slots(kind, buses, r)) /\ Len(Slots(kind, buses, r)) = Len(buses)
  BY <1>1, <1>2, Written
<1> QED
  BY <1>1, <1>2, <1>3

\* The donors, none and one element are sequences.
LEMMA OrderIsSeq ==
  /\ IsSeq(DonorOrder) /\ IsSeq(<<>>)
  /\ \A x : IsSeq(<<x>>)
<1>1. Cardinality(Bus) \in Nat
  BY FleetAssumption, FS_CardinalityType
<1>2. IsSeq(DonorOrder)
  <2>1. DOMAIN DonorOrder = 1 .. Cardinality(Bus)
        /\ DonorOrder = [i \in DOMAIN DonorOrder |-> DonorOrder[i]]
    BY DEF DonorOrder, OrderedBy
  <2> QED
    BY <1>1, <2>1, Written
<1>3. IsSeq(<<>>)
  BY DEF IsSeq
<1>4. ASSUME NEW x PROVE IsSeq(<<x>>)
  <2>1. <<x>> \in Seq({x})
    OBVIOUS
  <2> QED
    BY <2>1, SeqHolds
<1> QED
  BY <1>2, <1>3, <1>4

\* The list of some buses holds them all and no others.
LEMMA BusesListed ==
  ASSUME NEW S \in SUBSET Bus
  PROVE  /\ IsSeq(ByNumber(S)) /\ Len(ByNumber(S)) \in Nat
         /\ \A i \in 1 .. Len(ByNumber(S)) : ByNumber(S)[i] \in S
         /\ \A b \in S : \E i \in 1 .. Len(ByNumber(S)) : ByNumber(S)[i] = b
<1>1. S \in SUBSET Nat /\ IsFiniteSet(S)
  BY FleetAssumption, FS_Subset
<1>2. /\ ByNumber(S) \in Seq(S)
      /\ \A b \in S : \E i \in DOMAIN ByNumber(S) : ByNumber(S)[i] = b
  BY <1>1, Numbers DEF Lists
<1>3. IsSeq(ByNumber(S))
  BY <1>2, SeqHolds
<1>4. DOMAIN ByNumber(S) = 1 .. Len(ByNumber(S)) /\ Len(ByNumber(S)) \in Nat
      /\ \A i \in 1 .. Len(ByNumber(S)) : ByNumber(S)[i] \in S
  BY <1>2
<1> QED
  BY <1>2, <1>3, <1>4

\* Either list, or none, is a list.
LEMMA IfSeq == ASSUME NEW c, NEW p, IsSeq(p) PROVE IsSeq(IF c THEN p ELSE <<>>)
  BY OrderIsSeq

\* Where there is a crowd, the reserve goes first: the list of the actions tried
\* begins with those of the idle buses of the depot, and the mask forbids none of
\* them to a bus that can be dispatched.
THEOREM ReserveFirst == AccSpec => []ReserveGoesFirst
<1>1. ReserveGoesFirst
  <2> DEFINE r == BestRoute
             short == MostlyShort(r)
             turns == IF short THEN Slots("SHORT_TURN", DepotBuses, r) ELSE <<>>
             sent == Slots("DISPATCH", DepotBuses, r)
             h == turns \o sent
             moved == Slots("REASSIGN", DonorOrder, r)
             last == IF short THEN Slots("SHORT_TURN", BusOrder, r) ELSE <<>>
             target == <<Action("SET_HEADWAY", NoBus, r, WantedHeadway(RouteQueue(r)))>>
             back == IF RouteQueue(r) < QuietQueue THEN Recalls(BusOrder) ELSE <<>>
             all == h \o moved \o last \o target \o back
             Idle == {b \in Bus : bus[b].phase = "DEPOT_IDLE"}
  <2> SUFFICES ASSUME RouteQueue(r) >= CrowdedQueue,
                      NEW b \in Bus, CanDispatch(b)
               PROVE  /\ Threshold.kind \in {"DISPATCH", "SHORT_TURN"}
                      /\ Threshold.route = r
                      /\ bus[Threshold.bus].phase = "DEPOT_IDLE"
    BY DEF ReserveGoesFirst
  <2>1. Threshold = FirstLegal(all)
    BY DEF Threshold, Relief
  <2>2. DepotBuses = ByNumber(Idle) /\ BusOrder = ByNumber(Bus) /\ Idle \in SUBSET Bus
    BY DEF DepotBuses, BusOrder
  <2>3. b \in Idle
    BY DEF CanDispatch
  <2>4. IsSeq(DepotBuses) /\ IsSeq(BusOrder) /\ Len(DepotBuses) \in Nat
        /\ (\A i \in 1 .. Len(DepotBuses) : DepotBuses[i] \in Idle)
        /\ \E i \in 1 .. Len(DepotBuses) : DepotBuses[i] = b
    BY <2>2, <2>3, BusesListed
  <2>5. \A x \in Idle : bus[x].phase = "DEPOT_IDLE"
    OBVIOUS
  <2>6. /\ IsSeq(turns) /\ IsSeq(sent) /\ IsSeq(moved) /\ IsSeq(last)
        /\ IsSeq(target) /\ IsSeq(back)
    <3>1. \A p : IsSeq(p) => IsSeq(Slots("SHORT_TURN", p, r)) /\ IsSeq(sent)
                             /\ IsSeq(moved) /\ IsSeq(Recalls(BusOrder))
      BY <2>4, SlotsOf, OrderIsSeq DEF Recalls
    <3> QED
      BY <2>4, <3>1, OrderIsSeq, IfSeq
  <2>7. Len(turns) \in Nat /\ Len(sent) = Len(DepotBuses)
        /\ \A i \in 1 .. Len(DepotBuses) :
              sent[i] = Action("DISPATCH", DepotBuses[i], r, NoHeadway)
    BY <2>4, <2>6, SlotsOf DEF IsSeq
  <2>8. \A i \in 1 .. Len(turns) : \E x \in Idle : turns[i] = Action("SHORT_TURN", x, r, NoHeadway)
    <3>1. CASE short
      BY <2>4, <3>1, SlotsOf
    <3>2. CASE ~short
      BY <3>2
    <3> QED
      BY <3>1, <3>2
  <2> HIDE DEF Idle, turns, sent, moved, last, target, back, r, short
  <2>9. /\ IsSeq(h) /\ Len(h) = Len(turns) + Len(sent)
        /\ \A i \in 1 .. Len(turns) : h[i] = turns[i]
        /\ \A i \in 1 .. Len(sent) : h[Len(turns) + i] = sent[i]
    BY <2>6, Joined
  <2> HIDE DEF h
  <2>10. Opens(h, all)
    BY <2>6, <2>9, OpensItself, OpensMore
  <2>11. \A i \in 1 .. Len(h) : \E x \in Idle, kind \in {"DISPATCH", "SHORT_TURN"} :
            h[i] = Action(kind, x, r, NoHeadway)
    <3> TAKE i \in 1 .. Len(h)
    <3>1. CASE i <= Len(turns)
      BY <2>7, <2>8, <2>9, <3>1
    <3>2. CASE i > Len(turns)
      <4> DEFINE j == i - Len(turns)
      <4>1. j \in 1 .. Len(sent) /\ Len(turns) + j = i
        BY <2>4, <2>7, <2>9, <3>2
      <4> HIDE DEF j
      <4>2. h[i] = sent[j] /\ j \in 1 .. Len(DepotBuses)
        BY <2>7, <2>9, <4>1
      <4>3. h[i] = Action("DISPATCH", DepotBuses[j], r, NoHeadway) /\ DepotBuses[j] \in Idle
        BY <2>4, <2>7, <4>2
      <4> QED
        BY <4>3
    <3> QED
      BY <2>7, <3>1, <3>2
  <2>12. \E i \in 1 .. Len(h) : Legal(h[i])
    <3>1. PICK j \in 1 .. Len(DepotBuses) : DepotBuses[j] = b
      BY <2>4
    <3>2. Len(turns) + j \in 1 .. Len(h) /\ h[Len(turns) + j] = Action("DISPATCH", b, r, NoHeadway)
      BY <2>4, <2>7, <2>9, <3>1
    <3>3. Legal(Action("DISPATCH", b, r, NoHeadway))
      BY DEF Legal, Action
    <3> QED
      BY <3>2, <3>3
  <2>13. PICK i \in 1 .. Len(h) : Threshold = h[i]
    BY <2>1, <2>10, <2>12, FirstOfOpening
  <2>14. PICK x \in Idle, kind \in {"DISPATCH", "SHORT_TURN"} :
           Threshold = Action(kind, x, r, NoHeadway)
    BY <2>11, <2>13
  <2>15. Threshold.kind = kind /\ Threshold.route = r /\ Threshold.bus = x
    BY <2>14 DEF Action
  <2> QED
    BY <2>5, <2>14, <2>15
<1> QED
  BY <1>1, PTL

-----------------------------------------------------------------------------
(* The desired fleet *)

\* Multiples of a sum, and multiples in order.
LEMMA TimesAdds == \A k, a, b \in Int : k * (a + b) = k * a + k * b
OBVIOUS

LEMMA TimesOrder == \A k, a, b \in Int : k > 0 /\ k * a <= k * b => a <= b
<1> SUFFICES ASSUME NEW k \in Int, NEW a \in Int, NEW b \in Int, k > 0, k * a <= k * b, a > b
             PROVE  FALSE
  OBVIOUS
<1>1. PICK c \in Nat \ {0} : a = b + c
  <2>1. a - b \in Nat \ {0} /\ a = b + (a - b)
    OBVIOUS
  <2> QED
    BY <2>1
<1>2. k * a = k * b + k * c
  BY <1>1, TimesAdds
<1>3. k * c > 0 /\ k * c \in Int /\ k * b \in Int
  BY <1>1
<1> QED
  BY <1>2, <1>3

\* A sum of multiples is the multiple of the sum.
LEMMA SumScale ==
  ASSUME NEW f, NEW g, NEW S, IsFiniteSet(S), NEW k \in Int,
         \A x \in S : f[x] \in Int /\ g[x] = k * f[x]
  PROVE  SumFunctionOnSet(g, S) = k * SumFunctionOnSet(f, S)
<1> DEFINE P == {T \in SUBSET S : SumFunctionOnSet(g, T) = k * SumFunctionOnSet(f, T)}
<1>1. {} \in P
  BY SumEmpty
<1>2. ASSUME NEW T \in SUBSET S, T # {}, \A x \in T : T \ {x} \in P
      PROVE  T \in P
  <2>1. PICK x \in T : SumFunctionOnSet(g, T \ {x}) = k * SumFunctionOnSet(f, T \ {x})
    BY <1>2
  <2>2. IsFiniteSet(T) /\ IsFiniteSet(T \ {x})
    BY FS_Subset
  <2>3. \A y \in S : g[y] \in Int /\ f[y] \in Int
    OBVIOUS
  <2>4. /\ SumFunctionOnSet(f, T) = f[x] + SumFunctionOnSet(f, T \ {x})
        /\ SumFunctionOnSet(g, T) = g[x] + SumFunctionOnSet(g, T \ {x})
    BY <2>1, <2>2, <2>3, SumSplit
  <2>5. SumFunctionOnSet(f, T \ {x}) \in Int
    BY <2>2, <2>3, SumInt
  <2>6. g[x] = k * f[x] /\ f[x] \in Int
    BY <2>1
  <2>7. SumFunctionOnSet(g, T) = k * SumFunctionOnSet(f, T)
    BY <2>1, <2>4, <2>5, <2>6, TimesAdds
  <2> QED
    BY <2>7
<1> HIDE DEF P
<1>3. S \in P
  BY <1>1, <1>2, SetInductionOn
<1> QED
  BY <1>3 DEF P

\* Adding ones counts.
LEMMA SumCounts ==
  ASSUME NEW f, NEW S, IsFiniteSet(S), \A x \in S : f[x] = 1
  PROVE  SumFunctionOnSet(f, S) = Cardinality(S)
<1> DEFINE P == {T \in SUBSET S : SumFunctionOnSet(f, T) = Cardinality(T)}
<1>1. {} \in P
  BY SumEmpty, FS_EmptySet
<1>2. ASSUME NEW T \in SUBSET S, T # {}, \A x \in T : T \ {x} \in P
      PROVE  T \in P
  <2>1. PICK x \in T : SumFunctionOnSet(f, T \ {x}) = Cardinality(T \ {x})
    BY <1>2
  <2>2. IsFiniteSet(T)
    BY FS_Subset
  <2>3. \A y \in T : f[y] \in Int
    OBVIOUS
  <2>4. SumFunctionOnSet(f, T) = f[x] + SumFunctionOnSet(f, T \ {x})
    BY <2>1, <2>2, <2>3, SumSplit
  <2>5. Cardinality(T \ {x}) = Cardinality(T) - 1 /\ Cardinality(T) \in Nat
    BY <2>1, <2>2, FS_RemoveElement, FS_CardinalityType
  <2> QED
    BY <2>1, <2>4, <2>5
<1> HIDE DEF P
<1>3. S \in P
  BY <1>1, <1>2, SetInductionOn
<1> QED
  BY <1>3 DEF P

\* The sum over a set of ones for a part of it, and zeros, counts the part.
LEMMA SumPicked ==
  ASSUME NEW f, NEW S, IsFiniteSet(S), NEW T \in SUBSET S,
         \A x \in S : f[x] = IF x \in T THEN 1 ELSE 0
  PROVE  SumFunctionOnSet(f, S) = Cardinality(T)
<1>1. IsFiniteSet(T) /\ IsFiniteSet(S \ T)
  BY FS_Subset
<1>2. SumFunctionOnSet(f, S) = SumFunctionOnSet(f, T) + SumFunctionOnSet(f, S \ T)
  <2>1. \A x \in S : f[x] \in Int
    OBVIOUS
  <2> QED
    BY <2>1, SumDivide
<1>3. SumFunctionOnSet(f, T) = Cardinality(T)
  <2>1. \A x \in T : f[x] = 1
    OBVIOUS
  <2> QED
    BY <1>1, <2>1, SumCounts
<1>4. SumFunctionOnSet(f, S \ T) = 0
  <2>1. \A x \in S \ T : f[x] = 0
    OBVIOUS
  <2> QED
    BY <1>1, <2>1, SumZero
<1>5. Cardinality(T) \in Nat
  BY <1>1, FS_CardinalityType
<1> QED
  BY <1>2, <1>3, <1>4, <1>5

\* The first m of a finite set that is put in order are m.
LEMMA FirstAre ==
  ASSUME NEW K, IsFiniteSet(K), NEW before \in [K -> SUBSET K],
         \A p \in K : p \notin before[p],
         \A p, q \in K : p \in before[q] => before[p] \subseteq before[q],
         \A p, q \in K : p # q => p \in before[q] \/ q \in before[p],
         NEW m \in Nat, m <= Cardinality(K)
  PROVE  Cardinality({p \in K : Cardinality(before[p]) < m}) = m
<1> DEFINE T == {p \in K : Cardinality(before[p]) < m}
           place == [p \in T |-> Cardinality(before[p]) + 1]
           n == Cardinality(K)
<1>1. /\ n \in Nat
      /\ \A p \in K : Cardinality(before[p]) + 1 \in 1 .. n
      /\ \A p, q \in K : Cardinality(before[p]) = Cardinality(before[q]) => p = q
      /\ \A i \in 1 .. n : \E p \in K : Cardinality(before[p]) + 1 = i
  BY Ranks
<1>2. \A p \in K : Cardinality(before[p]) \in Nat
  BY FS_Subset, FS_CardinalityType
<1> HIDE DEF n
<1>3. \A p \in T : place[p] \in 1 .. m
  BY <1>1, <1>2
<1>4. \A p, q \in T : place[p] = place[q] => p = q
  BY <1>1, <1>2
<1>5. ASSUME NEW i \in 1 .. m PROVE \E p \in T : place[p] = i
  <2>1. i \in 1 .. n
    BY <1>1 DEF n
  <2>2. PICK p \in K : Cardinality(before[p]) + 1 = i
    BY <1>1, <2>1
  <2>3. p \in T
    BY <1>2, <2>2
  <2> QED
    BY <2>2, <2>3
<1> HIDE DEF T
<1>6. place \in Bijection(T, 1 .. m)
  BY <1>3, <1>4, <1>5 DEF Bijection, Injection, Surjection, IsInjective
<1>7. ExistsBijection(T, 1 .. m) /\ IsFiniteSet(T)
  BY <1>6, FS_Subset DEF ExistsBijection, T
<1>8. Cardinality(1 .. m) = m
  BY FS_Interval
<1> QED
  BY <1>7, <1>8, FS_Bijection DEF T

\* The whole budget of buses is given out, whatever the rates, and every route
\* gets its floor.
LEMMA BudgetGivenOut ==
  ASSUME NEW rates \in [Route -> Nat], NEW queue
  PROVE  /\ DesiredFleet(rates, queue) \in [Route -> Nat]
         /\ \A r \in Route : DesiredFleet(rates, queue)[r] >= Floor
         /\ SumFunction(DesiredFleet(rates, queue))
              = IF queue >= BusyDemand THEN BusyBudget ELSE QuietBudget
<1> DEFINE weight == IF SumFunction(rates) = 0 THEN [r \in Route |-> 1] ELSE rates
           budget == IF queue >= BusyDemand THEN BusyBudget ELSE QuietBudget
           n == Cardinality(Route)
           rest == budget - Floor * n
           W == SumFunction(weight)
           base == [r \in Route |-> (rest * weight[r]) \div W]
           fraction == [r \in Route |-> (rest * weight[r]) % W]
           leftover == rest - SumFunction(base)
           Sooner(r) == {s \in Route : \/ fraction[s] > fraction[r]
                                       \/ fraction[s] = fraction[r] /\ s < r}
           before == [r \in Route |-> Sooner(r)]
           chosen == {r \in Route : Cardinality(before[r]) < leftover}
           extra == [r \in Route |-> IF r \in chosen THEN 1 ELSE 0]
           desired == [r \in Route |-> Floor + base[r] + extra[r]]
<1>1. DesiredFleet(rates, queue) = desired
  <2>1. DesiredFleet(rates, queue)
          = [r \in Route |-> Floor + base[r] + IF Cardinality(Sooner(r)) < leftover THEN 1 ELSE 0]
    BY DEF DesiredFleet, SharesOf
  <2>2. \A r \in Route : (IF Cardinality(Sooner(r)) < leftover THEN 1 ELSE 0) = extra[r]
    OBVIOUS
  <2> HIDE DEF Sooner, leftover, base, extra
  <2> QED
    BY <2>1, <2>2
<1>23. IsFiniteSet(Route)
  BY RouteAssumption
<1>24. Floor \in Int /\ Route \subseteq Nat
  BY BudgetAssumption
<1>2. IsFiniteSet(Route) /\ Route \subseteq Nat /\ Route # {} /\ n \in Nat
      /\ Floor \in Nat /\ budget \in Nat /\ Floor * n <= budget
  BY RouteAssumption, BudgetAssumption, FS_CardinalityType
<1>3. weight \in [Route -> Nat] /\ W \in Nat \ {0}
  <2>1. SumFunction(rates) = SumFunctionOnSet(rates, Route) /\ W = SumFunctionOnSet(weight, Route)
    BY SumWhole
  <2>2. SumFunctionOnSet(rates, Route) \in Nat
    BY <1>2, SumNat
  <2>3. CASE SumFunction(rates) = 0
    <3>1. weight = [r \in Route |-> 1]
      BY <2>3
    <3>2. W = n
      BY <1>2, <2>1, <3>1, SumCounts
    <3>3. n # 0
      BY <1>2, FS_EmptySet
    <3> QED
      BY <1>2, <3>1, <3>2, <3>3
  <2>4. CASE SumFunction(rates) # 0
    <3>1. weight = rates
      BY <2>4
    <3> HIDE DEF weight
    <3> QED
      BY <2>1, <2>2, <2>4, <3>1
  <2> QED
    BY <2>3, <2>4
<1>4. rest \in Nat
  BY <1>2
<1> HIDE DEF weight, budget, n, rest, W
<1>5. ASSUME NEW r \in Route
      PROVE  /\ base[r] \in Nat /\ fraction[r] \in Nat /\ fraction[r] <= W
             /\ rest * weight[r] = W * base[r] + fraction[r] /\ rest * weight[r] \in Nat
  <2> DEFINE x == rest * weight[r]
  <2>1. x \in Nat
    BY <1>3, <1>4
  <2>2. base[r] = x \div W /\ fraction[r] = x % W
    OBVIOUS
  <2> HIDE DEF x, base, fraction
  <2>3. x \div W \in Nat /\ x % W \in 0 .. W - 1 /\ x = (W * (x \div W)) + (x % W)
    BY <1>3, <2>1
  <2> QED
    BY <1>3, <2>1, <2>2, <2>3 DEF x
<1> DEFINE portion == [r \in Route |-> rest * weight[r]]
           whole == [r \in Route |-> W * base[r]]
           ones == [r \in Route |-> 1]
           full == [r \in Route |-> W * ones[r]]
           Total(f) == SumFunctionOnSet(f, Route)
<1>6. Total(base) \in Nat /\ Total(fraction) \in Nat /\ Total(weight) = W
  <2>1. Total(base) \in Nat /\ Total(fraction) \in Nat
    BY <1>2, <1>5, SumNat
  <2>2. Total(weight) = W
    BY <1>3, SumWhole DEF W
  <2> QED
    BY <2>1, <2>2
<1>7. leftover = rest - Total(base)
  BY SumWhole
<1>8. Total(portion) = rest * W
  <2>1. \A r \in Route : weight[r] \in Int /\ portion[r] = rest * weight[r]
    BY <1>3
  <2> HIDE DEF portion
  <2> QED
    BY <1>23, <1>4, <1>6, <2>1, SumScale
<1>9. Total(whole) = W * Total(base)
  <2>1. \A r \in Route : base[r] \in Int /\ whole[r] = W * base[r]
    BY <1>5
  <2> HIDE DEF whole, base
  <2> QED
    BY <1>23, <1>3, <2>1, SumScale
<1>10. Total(portion) = Total(whole) + Total(fraction)
  <2>1. \A r \in Route : /\ whole[r] \in Int /\ fraction[r] \in Int
                         /\ portion[r] = whole[r] + fraction[r]
    <3> TAKE r \in Route
    <3>1. whole[r] = W * base[r] /\ portion[r] = rest * weight[r]
      OBVIOUS
    <3> HIDE DEF whole, portion, base, fraction
    <3> QED
      BY <1>3, <1>5, <3>1
  <2> HIDE DEF whole, fraction, portion
  <2> QED
    BY <1>23, <2>1, SumAdd
<1>11. Total(fraction) <= W * n
  <2>1. \A r \in Route : fraction[r] \in Int /\ full[r] \in Int /\ fraction[r] <= full[r]
    BY <1>3, <1>5
  <2>2. \A r \in Route : ones[r] \in Int /\ full[r] = W * ones[r] /\ ones[r] = 1
    OBVIOUS
  <2> HIDE DEF fraction, full, ones
  <2>3. Total(full) = W * Total(ones) /\ Total(ones) = n
    BY <1>23, <1>3, <2>2, SumScale, SumCounts DEF n
  <2> QED
    BY <1>23, <2>1, <2>3, SumMonotone
<1> HIDE DEF base, fraction, portion, whole
<1>12. leftover \in 0 .. n
  <2> DEFINE B == Total(base)
             F == Total(fraction)
  <2>1. B \in Nat /\ F \in Nat /\ rest * W = W * B + F /\ F <= W * n
    BY <1>6, <1>8, <1>9, <1>10, <1>11
  <2> HIDE DEF B, F
  <2>2. rest * W = W * rest /\ W * (B + n) = W * B + W * n
    BY <1>2, <1>3, <1>4, <2>1, TimesAdds
  <2>3. W * B <= W * rest /\ W * rest <= W * (B + n)
    <3>1. W * B \in Int /\ W * n \in Int /\ W * rest \in Int
      BY <1>2, <1>3, <1>4, <2>1
    <3> QED
      BY <2>1, <2>2, <3>1
  <2>4. B <= rest /\ rest <= B + n
    <3>1. W \in Int /\ W > 0 /\ B \in Int /\ rest \in Int /\ B + n \in Int
      BY <1>2, <1>3, <1>4, <2>1
    <3> QED
      BY <2>3, <3>1, TimesOrder
  <2> QED
    BY <1>2, <1>4, <1>7, <2>1, <2>4 DEF B
<1>13. \A r, s \in Route : s \in before[r] <=> \/ fraction[s] > fraction[r]
                                               \/ fraction[s] = fraction[r] /\ s < r
  OBVIOUS
<1>14. before \in [Route -> SUBSET Route]
  OBVIOUS
<1> HIDE DEF before, leftover
<1>15. Cardinality(chosen) = leftover
  <2>1. \A r, s \in Route : s \in before[r] <=> \/ fraction[s] > fraction[r]
                                                \/ fraction[s] = fraction[r] /\ s < r
    BY <1>13
  <2>2. \A r \in Route : r \in Nat /\ fraction[r] \in Nat
    BY <1>2, <1>5
  <2>3. \A p \in Route : p \notin before[p]
    BY <2>1, <2>2
  <2>4. \A p, q \in Route : p \in before[q] => before[p] \subseteq before[q]
    BY <1>14, <2>1, <2>2
  <2>5. \A p, q \in Route : p # q => p \in before[q] \/ q \in before[p]
    BY <2>1, <2>2
  <2>6. Cardinality(chosen) = leftover
    <3>1. leftover \in Nat /\ leftover <= Cardinality(Route)
      BY <1>2, <1>12 DEF n
    <3> QED
      BY <1>23, <1>14, <2>3, <2>4, <2>5, <3>1, FirstAre
  <2> QED
    BY <2>6
<1>16. \A r \in Route : extra[r] = IF r \in chosen THEN 1 ELSE 0
  OBVIOUS
<1>17. chosen \in SUBSET Route
  OBVIOUS
<1> HIDE DEF chosen, extra
<1>18. Total(extra) = leftover
  BY <1>23, <1>15, <1>16, <1>17, SumPicked
<1>19. \A r \in Route : /\ desired[r] = Floor + base[r] + extra[r]
                        /\ base[r] \in Nat /\ extra[r] \in Nat
  BY <1>5, <1>16
<1>20. Total(desired) = Floor * n + Total(base) + leftover
  <2> DEFINE floor == [r \in Route |-> Floor * ones[r]]
             more == [r \in Route |-> base[r] + extra[r]]
  <2>1. Total(floor) = Floor * n
    <3>1. \A r \in Route : ones[r] \in Int /\ floor[r] = Floor * ones[r] /\ ones[r] = 1
      OBVIOUS
    <3> HIDE DEF floor, ones
    <3>5. Floor \in Int /\ \A r \in Route : ones[r] \in Int /\ floor[r] = Floor * ones[r]
      BY <1>24, <3>1
    <3>2. Total(floor) = Floor * Total(ones)
      BY <1>23, <3>5, SumScale
    <3>3. \A r \in Route : ones[r] = 1
      BY <3>1
    <3>4. Total(ones) = n
      BY <1>23, <3>3, SumCounts DEF n
    <3> QED
      BY <3>2, <3>4
  <2>2. \A r \in Route : /\ base[r] \in Int /\ extra[r] \in Int /\ more[r] = base[r] + extra[r]
                         /\ floor[r] \in Int /\ more[r] \in Int
                         /\ desired[r] = floor[r] + more[r]
    BY <1>2, <1>19
  <2> HIDE DEF floor, more, desired
  <2>3. Total(more) = Total(base) + Total(extra)
    BY <1>23, <2>2, SumAdd
  <2>4. Total(desired) = Total(floor) + Total(more)
    BY <1>23, <2>2, SumAdd
  <2>5. Floor * n \in Int /\ Total(base) \in Int /\ leftover \in Int
    BY <1>2, <1>6, <1>12
  <2> QED
    BY <1>18, <2>1, <2>3, <2>4, <2>5
<1>21. SumFunction(desired) = budget
  <2>1. SumFunction(desired) = Total(desired)
    BY SumWhole
  <2>2. rest = budget - Floor * n /\ Floor * n \in Int
    BY <1>2 DEF rest
  <2> HIDE DEF desired
  <2> QED
    BY <1>2, <1>4, <1>6, <1>7, <1>20, <2>1, <2>2
<1>22. desired \in [Route -> Nat] /\ \A r \in Route : desired[r] >= Floor
  BY <1>2, <1>19
<1> HIDE DEF desired
<1> QED
  BY <1>1, <1>21, <1>22 DEF budget

-----------------------------------------------------------------------------
(* The routes above and below their desired fleet *)

\* The routes in surplus are above their desired fleet, those in shortage are routes.
LEMMA RoutesRanked ==
  ASSUME NEW desired \in [Route -> Nat], Inv
  PROVE  /\ Surplus(desired) \in Seq({r \in Route : Excess(desired, r) > 0})
         /\ Shortage(desired) \in Seq(Route)
<1> DEFINE Over == {r \in Route : Excess(desired, r) > 0}
           Under == {r \in Route : Excess(desired, r) < 0}
           over == [r \in Over |-> -Excess(desired, r)]
           under == [r \in Under |-> Excess(desired, r)]
           A == {<<-Excess(desired, r), r>> : r \in Over}
           B == {<<Excess(desired, r), r>> : r \in Under}
<1>1. /\ Over \in SUBSET Nat /\ Under \in SUBSET Nat
      /\ IsFiniteSet(Over) /\ IsFiniteSet(Under) /\ Under \subseteq Route
  BY BudgetAssumption, RouteAssumption, FS_Subset
<1>2. ASSUME NEW r \in Route PROVE Excess(desired, r) \in Int
  <2>1. IsFiniteSet(Serving(r))
    BY FleetAssumption, FS_Subset DEF Serving, Assigned
  <2>2. RouteRow(r).full = Cardinality(Serving(r)) /\ Cardinality(Serving(r)) \in Nat
    BY <2>1, FS_CardinalityType DEF RouteRow
  <2> QED
    BY <2>2 DEF Excess
<1>3. /\ over \in [Over -> Int] /\ under \in [Under -> Int]
      /\ A = {<<over[r], r>> : r \in Over} /\ B = {<<under[r], r>> : r \in Under}
  BY <1>2
<1>4. Surplus(desired) = ListOf(A, Cardinality(Over))
  BY DEF Surplus, OrderedBy, ListOf, Ahead
<1>5. Shortage(desired) = ListOf(B, Cardinality(Under))
  BY DEF Shortage, OrderedBy, ListOf, Ahead
<1> HIDE DEF A, B, over, under, Over, Under
<1>6. Surplus(desired) \in Seq(Over)
  BY <1>1, <1>3, <1>4, KeyedListed DEF Lists
<1>7. Shortage(desired) \in Seq(Under)
  BY <1>1, <1>3, <1>5, KeyedListed DEF Lists
<1>8. Shortage(desired) \in Seq(Route)
  <2>1. Under \subseteq Route
    BY <1>1
  <2> QED
    BY <1>7, <2>1, SeqGrows
<1> QED
  BY <1>6, <1>8 DEF Over

-----------------------------------------------------------------------------
(* Lists of lists *)

\* f flattens the first n sequences of s, as the community modules do.
Flattens(f, s, n) ==
  f = [i \in 1 .. n |-> IF i = 1 THEN s[i] ELSE f[i - 1] \o s[i]]

\* There is such a function for every number of sequences.
LEMMA FlattenExists ==
  ASSUME NEW s, NEW n \in Nat
  PROVE  \E f : Flattens(f, s, n)
<1> DEFINE P == {m \in Nat : \E f : Flattens(f, s, m)}
<1>1. 0 \in P
  <2>1. Flattens([i \in 1 .. 0 |-> s], s, 0)
    BY DEF Flattens
  <2> QED
    BY <2>1
<1>2. ASSUME NEW m \in Nat, m \in P PROVE m + 1 \in P
  <2>1. PICK f : Flattens(f, s, m)
    BY <1>2
  <2> DEFINE v == IF m + 1 = 1 THEN s[m + 1] ELSE f[m] \o s[m + 1]
             g == [i \in 1 .. m + 1 |-> IF i = m + 1 THEN v ELSE f[i]]
             e == [i \in 1 .. m + 1 |-> IF i = 1 THEN s[i] ELSE g[i - 1] \o s[i]]
  <2>2. ASSUME NEW i \in 1 .. m + 1 PROVE g[i] = e[i]
    <3>1. CASE i = m + 1
      <4>1. g[i] = v
        BY <3>1
      <4>2. CASE m = 0
        BY <3>1, <4>1, <4>2
      <4>3. CASE m # 0
        <5>1. m \in 1 .. m + 1 /\ m # m + 1 /\ i - 1 = m /\ i # 1
          BY <3>1, <4>3
        <5>2. g[m] = f[m]
          BY <5>1
        <5> QED
          BY <3>1, <4>1, <4>3, <5>1, <5>2
      <4> QED
        BY <4>2, <4>3
    <3>2. CASE i # m + 1
      <4>1. i \in 1 .. m
        BY <3>2
      <4>2. g[i] = f[i]
        BY <3>2
      <4>3. f[i] = IF i = 1 THEN s[i] ELSE f[i - 1] \o s[i]
        BY <2>1, <4>1 DEF Flattens
      <4>4. i # 1 => g[i - 1] = f[i - 1]
        <5> SUFFICES ASSUME i # 1 PROVE g[i - 1] = f[i - 1]
          OBVIOUS
        <5>1. i - 1 \in 1 .. m + 1 /\ i - 1 # m + 1
          BY <4>1
        <5> QED
          BY <5>1
      <4> QED
        BY <4>2, <4>3, <4>4
    <3> QED
      BY <3>1, <3>2
  <2>3. Flattens(g, s, m + 1)
    <3>1. g = e
      BY <2>2
    <3> QED
      BY <3>1 DEF Flattens
  <2> QED
    BY <2>3
<1> HIDE DEF P
<1>3. n \in P
  BY <1>1, <1>2, NatInductionOn
<1> QED
  BY <1>3 DEF P

\* F holds all elements of the first n sequences of s.
HoldsAll(F, s, n) ==
  \A a \in 1 .. n : \A k \in DOMAIN s[a] : \E x \in DOMAIN F : F[x] = s[a][k]

\* Appending one more sequence holds its elements too.
LEMMA HoldsNext ==
  ASSUME NEW S, NEW F \in Seq(S), NEW s, NEW n \in Nat, HoldsAll(F, s, n),
         s[n + 1] \in Seq(S)
  PROVE  F \o s[n + 1] \in Seq(S) /\ HoldsAll(F \o s[n + 1], s, n + 1)
<1> DEFINE B == s[n + 1]
           G == F \o B
<1>1. /\ G \in Seq(S) /\ Len(F) \in Nat /\ Len(B) \in Nat
      /\ DOMAIN G = 1 .. Len(F) + Len(B) /\ DOMAIN F = 1 .. Len(F) /\ DOMAIN B = 1 .. Len(B)
      /\ \A x \in 1 .. Len(F) : G[x] = F[x]
      /\ \A k \in 1 .. Len(B) : G[Len(F) + k] = B[k]
  OBVIOUS
<1> HIDE DEF G
<1>2. ASSUME NEW a \in 1 .. n + 1, NEW k \in DOMAIN s[a]
      PROVE  \E x \in DOMAIN G : G[x] = s[a][k]
  <2>1. CASE a = n + 1
    <3>1. k \in 1 .. Len(B)
      BY <1>1, <2>1
    <3>2. Len(F) + k \in DOMAIN G /\ G[Len(F) + k] = s[a][k]
      BY <1>1, <2>1, <3>1
    <3> QED
      BY <3>2
  <2>2. CASE a # n + 1
    <3>1. a \in 1 .. n
      BY <2>2
    <3>2. PICK x \in DOMAIN F : F[x] = s[a][k]
      BY <3>1 DEF HoldsAll
    <3>3. x \in DOMAIN G /\ G[x] = s[a][k]
      BY <1>1, <3>2
    <3> QED
      BY <3>3
  <2> QED
    BY <2>1, <2>2
<1> QED
  BY <1>1, <1>2 DEF HoldsAll, G

\* A flattened sequence of sequences holds all their elements and no others.
LEMMA FlattenHolds ==
  ASSUME NEW S, NEW n \in Nat, NEW s \in [1 .. n -> Seq(S)]
  PROVE  FlattenSeq(s) \in Seq(S) /\ HoldsAll(FlattenSeq(s), s, n)
<1>1. Len(s) = n
  OBVIOUS
<1>2. CASE n = 0
  <2>1. FlattenSeq(s) = s
    BY <1>1, <1>2 DEF FlattenSeq
  <2>2. s \in Seq(S)
    BY <1>2
  <2> QED
    BY <1>2, <2>1, <2>2 DEF HoldsAll
<1>3. CASE n # 0
  <2> DEFINE f == CHOOSE f : Flattens(f, s, n)
  <2>1. FlattenSeq(s) = f[n]
    BY <1>1, <1>3 DEF FlattenSeq, Flattens
  <2>2. Flattens(f, s, n)
    BY FlattenExists
  <2> HIDE DEF f
  <2>3. \A i \in 1 .. n : f[i] = IF i = 1 THEN s[i] ELSE f[i - 1] \o s[i]
    BY <2>2 DEF Flattens
  <2> DEFINE P == {m \in Nat : m \in 1 .. n => f[m] \in Seq(S) /\ HoldsAll(f[m], s, m)}
  <2>4. 0 \in P
    OBVIOUS
  <2>5. ASSUME NEW m \in Nat, m \in P PROVE m + 1 \in P
    <3> SUFFICES ASSUME m + 1 \in 1 .. n
                 PROVE  f[m + 1] \in Seq(S) /\ HoldsAll(f[m + 1], s, m + 1)
      OBVIOUS
    <3>1. CASE m = 0
      <4>1. f[1] = s[1] /\ s[1] \in Seq(S)
        BY <2>3, <3>1
      <4>2. m + 1 = 1 /\ \A a \in 1 .. m + 1 : a = 1
        BY <3>1
      <4> QED
        BY <4>1, <4>2 DEF HoldsAll
    <3>2. CASE m # 0
      <4>1. m \in 1 .. n /\ m + 1 # 1 /\ (m + 1) - 1 = m
        BY <3>2
      <4>2. f[m] \in Seq(S) /\ HoldsAll(f[m], s, m)
        BY <2>5, <4>1
      <4>3. f[m + 1] = f[m] \o s[m + 1] /\ s[m + 1] \in Seq(S)
        BY <2>3, <4>1
      <4> QED
        BY <4>2, <4>3, HoldsNext
    <3> QED
      BY <3>1, <3>2
  <2> HIDE DEF P
  <2>6. n \in P
    BY <2>4, <2>5, NatInductionOn
  <2> QED
    BY <1>3, <2>1, <2>6 DEF P
<1> QED
  BY <1>2, <1>3

-----------------------------------------------------------------------------
(* The actions there are *)

\* The actions of a family.
Acts(kind) ==
  CASE kind = "NOOP" -> {NoopAction}
    [] kind = "RECALL" -> {Action("RECALL", b, NoRoute, NoHeadway) : b \in Bus}
    [] kind = "SET_HEADWAY" ->
         {Action("SET_HEADWAY", NoBus, r, HeadwayFor[i]) : r \in Route, i \in 1 .. 3}
    [] OTHER -> {Action(kind, b, r, NoHeadway) : b \in Bus, r \in Route}

\* The slots of listed buses are a list of actions.
LEMMA SlotsIn ==
  ASSUME NEW kind, NEW B, NEW buses \in Seq(B), NEW r, NEW U,
         \A b \in B : Action(kind, b, r, NoHeadway) \in U
  PROVE  Slots(kind, buses, r) \in Seq(U)
<1>1. /\ DOMAIN buses = 1 .. Len(buses) /\ Len(buses) \in Nat
      /\ \A i \in 1 .. Len(buses) : buses[i] \in B
  OBVIOUS
<1>2. Slots(kind, buses, r) = [i \in 1 .. Len(buses) |-> Action(kind, buses[i], r, NoHeadway)]
  BY <1>1 DEF Slots, Each
<1>3. Slots(kind, buses, r) \in [1 .. Len(buses) -> U]
  BY <1>1, <1>2
<1> QED
  BY <1>1, <1>3, FunctionIsSeq

\* The elements of a sequence are of its type.
LEMMA SeqElements == \A S, s : s \in Seq(S) => \A i \in DOMAIN s : s[i] \in S
OBVIOUS

\* All buses and all routes, in order.
LEMMA Orders ==
  /\ Lists(BusOrder, Bus) /\ Lists(RouteOrder, Route)
  /\ BusOrder \in Seq(Bus) /\ RouteOrder \in Seq(Route)
  /\ DOMAIN BusOrder = 1 .. Cardinality(Bus) /\ DOMAIN RouteOrder = 1 .. Cardinality(Route)
  /\ Cardinality(Bus) \in Nat /\ Cardinality(Route) \in Nat
  /\ \A i \in 1 .. Cardinality(Bus) : BusOrder[i] \in Bus
  /\ \A i \in 1 .. Cardinality(Route) : RouteOrder[i] \in Route
<1>1. /\ Bus \in SUBSET Nat /\ IsFiniteSet(Bus)
      /\ Route \in SUBSET Nat /\ IsFiniteSet(Route)
  BY FleetAssumption, RouteAssumption, BudgetAssumption
<1>2. Lists(BusOrder, Bus) /\ Lists(RouteOrder, Route)
  BY <1>1, Numbers DEF BusOrder, RouteOrder
<1>3. Cardinality(Bus) \in Nat /\ Cardinality(Route) \in Nat
  BY <1>1, FS_CardinalityType
<1>4. /\ BusOrder \in Seq(Bus) /\ RouteOrder \in Seq(Route)
      /\ DOMAIN BusOrder = 1 .. Cardinality(Bus) /\ DOMAIN RouteOrder = 1 .. Cardinality(Route)
  BY <1>2 DEF Lists
<1>5. /\ \A i \in 1 .. Cardinality(Bus) : BusOrder[i] \in Bus
      /\ \A i \in 1 .. Cardinality(Route) : RouteOrder[i] \in Route
  BY <1>4, SeqElements
<1> QED
  BY <1>2, <1>3, <1>4, <1>5

\* The list of a family holds its actions.
LEMMA FamilyHolds ==
  ASSUME NEW kind \in {"SHORT_TURN", "REASSIGN", "RECALL", "SET_HEADWAY", "DISPATCH", "NOOP"}
  PROVE  /\ Family(kind) \in Seq(Acts(kind))
         /\ \A a \in Acts(kind) : \E i \in DOMAIN Family(kind) : Family(kind)[i] = a
<1> DEFINE nb == Cardinality(Bus)
           nr == Cardinality(Route)
<1>1. CASE kind = "NOOP"
  <2>1. Family(kind) = <<NoopAction>> /\ Acts(kind) = {NoopAction}
    BY <1>1 DEF Family, Acts
  <2> QED
    BY <2>1
<1>2. CASE kind = "RECALL"
  <2>1. /\ Family(kind) = Slots("RECALL", BusOrder, NoRoute)
        /\ Acts(kind) = {Action("RECALL", b, NoRoute, NoHeadway) : b \in Bus}
    BY <1>2 DEF Family, Acts, Recalls
  <2>2. \A b \in Bus : Action("RECALL", b, NoRoute, NoHeadway) \in Acts(kind)
    BY <2>1
  <2>3. Family(kind) \in Seq(Acts(kind))
    BY <2>1, <2>2, Orders, SlotsIn
  <2>4. Family(kind) = [i \in 1 .. nb |-> Action("RECALL", BusOrder[i], NoRoute, NoHeadway)]
    BY <2>1, Orders DEF Slots, Each
  <2>5. ASSUME NEW b \in Bus
        PROVE  \E i \in DOMAIN Family(kind) :
                 Family(kind)[i] = Action("RECALL", b, NoRoute, NoHeadway)
    <3>1. PICK i \in 1 .. nb : BusOrder[i] = b
      BY Orders DEF Lists
    <3> QED
      BY <2>4, <3>1
  <2> QED
    BY <2>1, <2>3, <2>5
<1>3. CASE kind = "SET_HEADWAY"
  <2> DEFINE row(r) == [i \in 1 .. 3 |-> Action("SET_HEADWAY", NoBus, r, HeadwayFor[i])]
             rows == [j \in 1 .. nr |-> row(RouteOrder[j])]
  <2>1. Acts(kind) = {Action("SET_HEADWAY", NoBus, r, HeadwayFor[i]) : r \in Route, i \in 1 .. 3}
    BY <1>3 DEF Acts
  <2>2. Family(kind) = FlattenSeq(rows)
    <3>1. DOMAIN HeadwayFor = 1 .. 3
      BY BudgetAssumption
    <3> QED
      BY <1>3, <3>1, Orders DEF Family, EachIn, Each
  <2>3. \A r \in Route : row(r) \in Seq(Acts(kind))
    <3> TAKE r \in Route
    <3>1. row(r) \in [1 .. 3 -> Acts(kind)]
      BY <2>1
    <3> HIDE DEF row
    <3> QED
      BY <3>1, FunctionIsSeq
  <2>4. rows \in [1 .. nr -> Seq(Acts(kind))]
    <3> HIDE DEF row
    <3> QED
      BY <2>3, Orders
  <2>5. /\ FlattenSeq(rows) \in Seq(Acts(kind)) /\ HoldsAll(FlattenSeq(rows), rows, nr)
    <3> HIDE DEF rows
    <3> QED
      BY <2>4, Orders, FlattenHolds
  <2>6. ASSUME NEW r \in Route, NEW i \in 1 .. 3
        PROVE  \E x \in DOMAIN Family(kind) :
                 Family(kind)[x] = Action("SET_HEADWAY", NoBus, r, HeadwayFor[i])
    <3>1. PICK j \in 1 .. nr : RouteOrder[j] = r
      BY Orders DEF Lists
    <3>2. rows[j] = row(r) /\ i \in DOMAIN rows[j]
          /\ rows[j][i] = Action("SET_HEADWAY", NoBus, r, HeadwayFor[i])
      BY <3>1
    <3> HIDE DEF rows
    <3> QED
      BY <2>2, <2>5, <3>2 DEF HoldsAll
  <2> HIDE DEF rows
  <2>7. \A a \in Acts(kind) : \E x \in DOMAIN Family(kind) : Family(kind)[x] = a
    BY <2>1, <2>6
  <2> QED
    BY <2>2, <2>5, <2>7
<1>4. CASE kind \in {"SHORT_TURN", "REASSIGN", "DISPATCH"}
  <2> DEFINE row(b) == [j \in 1 .. nr |-> Action(kind, b, RouteOrder[j], NoHeadway)]
             rows == [i \in 1 .. nb |-> row(BusOrder[i])]
  <2>1. Acts(kind) = {Action(kind, b, r, NoHeadway) : b \in Bus, r \in Route}
    BY <1>4 DEF Acts
  <2>2. Family(kind) = FlattenSeq(rows)
    BY <1>4, Orders DEF Family, EachIn, Each
  <2>3. \A b \in Bus : row(b) \in Seq(Acts(kind))
    <3> TAKE b \in Bus
    <3>1. row(b) \in [1 .. nr -> Acts(kind)]
      BY <2>1, Orders
    <3> HIDE DEF row
    <3> QED
      BY <3>1, Orders, FunctionIsSeq
  <2>4. rows \in [1 .. nb -> Seq(Acts(kind))]
    <3> HIDE DEF row
    <3> QED
      BY <2>3, Orders
  <2>5. /\ FlattenSeq(rows) \in Seq(Acts(kind)) /\ HoldsAll(FlattenSeq(rows), rows, nb)
    <3> HIDE DEF rows
    <3> QED
      BY <2>4, Orders, FlattenHolds
  <2>6. ASSUME NEW b \in Bus, NEW r \in Route
        PROVE  \E x \in DOMAIN Family(kind) :
                 Family(kind)[x] = Action(kind, b, r, NoHeadway)
    <3>1. PICK i \in 1 .. nb : BusOrder[i] = b
      BY Orders DEF Lists
    <3>2. PICK j \in 1 .. nr : RouteOrder[j] = r
      BY Orders DEF Lists
    <3>3. j \in DOMAIN rows[i] /\ rows[i][j] = Action(kind, b, r, NoHeadway)
      BY <3>1, <3>2
    <3> HIDE DEF rows
    <3>4. PICK x \in DOMAIN FlattenSeq(rows) : FlattenSeq(rows)[x] = rows[i][j]
      BY <2>5, <3>1, <3>3 DEF HoldsAll
    <3> QED
      BY <2>2, <3>3, <3>4
  <2> HIDE DEF rows
  <2>7. \A a \in Acts(kind) : \E x \in DOMAIN Family(kind) : Family(kind)[x] = a
    BY <2>1, <2>6
  <2> QED
    BY <2>2, <2>5, <2>7
<1> QED
  BY <1>1, <1>2, <1>3, <1>4

\* The families, and all actions.
Families == {"SHORT_TURN", "REASSIGN", "RECALL", "SET_HEADWAY", "DISPATCH", "NOOP"}

AllActs == UNION {Acts(kind) : kind \in Families}

\* The rotation goes through the six families.
LEMMA RotationIs ==
  /\ Len(Rotation) = 6 /\ DOMAIN Rotation = 1 .. 6
  /\ \A i \in 1 .. 6 : Rotation[i] \in Families
  /\ Range(Rotation) = Families
<1>1. Len(Rotation) = 6 /\ DOMAIN Rotation = 1 .. 6
  BY DEF Rotation
<1>2. /\ Rotation[1] = "SHORT_TURN" /\ Rotation[2] = "REASSIGN" /\ Rotation[3] = "RECALL"
      /\ Rotation[4] = "SET_HEADWAY" /\ Rotation[5] = "DISPATCH" /\ Rotation[6] = "NOOP"
  BY DEF Rotation
<1>3. 1 .. 6 = {1, 2, 3, 4, 5, 6}
  OBVIOUS
<1>4. Range(Rotation) = {Rotation[i] : i \in {1, 2, 3, 4, 5, 6}}
  BY <1>1, <1>3 DEF Range
<1>5. Range(Rotation) = Families
  BY <1>2, <1>4 DEF Families
<1>6. \A i \in 1 .. 6 : Rotation[i] \in Families
  BY <1>2, <1>3 DEF Families
<1> QED
  BY <1>1, <1>5, <1>6

\* The random controller draws from all actions that are not masked.
LEMMA RandomDraws ==
  ASSUME NEW a \in AllActs, Legal(a)
  PROVE  a \in RandomChoices
<1>1. PICK kind \in Families : a \in Acts(kind)
  BY DEF AllActs
<1>2. PICK i \in DOMAIN Family(kind) : Family(kind)[i] = a
  BY <1>1, FamilyHolds DEF Families
<1>3. a \in Range(Family(kind))
  BY <1>2 DEF Range
<1>4. a \in UNION {Range(Family(k)) : k \in Families}
  BY <1>1, <1>3
<1> QED
  BY <1>4, RotationIs DEF RandomChoices

\* What is taken of a list is of the list and not masked, or NOOP.
LEMMA FirstLegalIs ==
  ASSUME NEW U, NEW p \in Seq(U)
  PROVE  \/ FirstLegal(p) = NoopAction
         \/ FirstLegal(p) \in U /\ Legal(FirstLegal(p))
<1> DEFINE legal == {i \in DOMAIN p : Legal(p[i])}
<1>1. CASE legal = {}
  BY <1>1 DEF FirstLegal
<1>2. CASE legal # {}
  <2>1. legal \in SUBSET Nat
    OBVIOUS
  <2>2. FirstLegal(p) = p[Min(legal)]
    BY <1>2 DEF FirstLegal
  <2>3. \A i \in legal : p[i] \in U /\ Legal(p[i])
    BY SeqElements
  <2> HIDE DEF legal
  <2>4. \E e \in legal : \A x \in legal : e <= x
    BY <1>2, <2>1, MinIn
  <2>5. Min(legal) \in legal
    BY <2>4, Zenon DEF Min
  <2> QED
    BY <2>2, <2>3, <2>5
<1> QED
  BY <1>1, <1>2

\* Doing nothing is never masked.
LEMMA NoopIsLegal == NoopAction \in AllActs /\ Legal(NoopAction)
<1>1. NoopAction \in Acts("NOOP")
  BY DEF Acts
<1>2. Legal(NoopAction)
  BY DEF Legal, NoopAction, Action
<1> QED
  BY <1>1, <1>2 DEF AllActs, Families

\* Every deterministic controller names an action the random one could draw.
LEMMA FirstIsDrawn ==
  ASSUME NEW p \in Seq(AllActs)
  PROVE  FirstLegal(p) \in RandomChoices
BY FirstLegalIs, NoopIsLegal, RandomDraws

\* The coverage controller names an action the random one could draw.
LEMMA CoverageIsDrawn == ASSUME now \in Nat PROVE Coverage \in RandomChoices
<1> DEFINE start == (now \div Interval) % Len(Rotation)
           turn == [i \in DOMAIN Rotation |-> Rotation[((start + i - 1) % Len(Rotation)) + 1]]
           lists == [i \in 1 .. 6 |-> Family(turn[i])]
<1>1. Coverage = FirstLegal(FlattenSeq(lists))
  BY RotationIs DEF Coverage, EachIn, Each
<1>2. start \in Nat
  <2>1. now \div Interval \in Nat
    BY TimeAssumption
  <2> QED
    BY <2>1, RotationIs
<1> HIDE DEF start
<1>3. \A i \in 1 .. 6 : turn[i] \in Families
  <2> TAKE i \in 1 .. 6
  <2>1. start + i - 1 \in Nat
    BY <1>2
  <2>2. ((start + i - 1) % 6) + 1 \in 1 .. 6
    BY <2>1
  <2> QED
    BY <2>2, RotationIs
<1> HIDE DEF turn
<1>4. lists \in [1 .. 6 -> Seq(AllActs)]
  <2>1. ASSUME NEW kind \in Families PROVE Family(kind) \in Seq(AllActs)
    <3>1. Family(kind) \in Seq(Acts(kind))
      BY FamilyHolds DEF Families
    <3>2. Acts(kind) \subseteq AllActs
      BY DEF AllActs
    <3> QED
      BY <3>1, <3>2, SeqGrows
  <2> QED
    BY <1>3, <2>1
<1> HIDE DEF lists
<1>5. FlattenSeq(lists) \in Seq(AllActs)
  BY <1>4, FlattenHolds
<1> QED
  BY <1>1, <1>5, FirstIsDrawn

\* The nearest headway is one of the three.
LEMMA NearestIs ==
  ASSUME NEW n \in Nat
  PROVE  \E i \in 1 .. 3 : NearestHeadway(n) = HeadwayFor[i]
<1> DEFINE m == Max({1, n})
           D(h) == Above(h * m, Cycle) + Above(Cycle, h * m)
           T == {HeadwayFor[i] : i \in DOMAIN HeadwayFor}
           Ds == {D(h) : h \in T}
<1>1. m \in Nat
  <2>1. {1, n} \in SUBSET Nat /\ IsFiniteSet({1, n}) /\ {1, n} # {}
    <3>1. IsFiniteSet({1}) /\ {1} \cup {n} = {1, n}
      BY FS_Singleton
    <3> QED
      BY <3>1, FS_AddElement
  <2> HIDE DEF m
  <2>2. Max({1, n}) \in {1, n}
    BY <2>1, MaxIn
  <2> QED
    BY <2>2 DEF m
<1>2. Cycle \in Nat /\ T \in SUBSET Nat /\ HeadwayFor[1] \in T
      /\ \A h \in T : \E i \in 1 .. 3 : h = HeadwayFor[i]
  BY BudgetAssumption
<1> HIDE DEF m, T
<1>3. \A h \in T : D(h) \in Nat
  <2> TAKE h \in T
  <2> DEFINE x == h * m
  <2>1. x \in Int /\ Cycle \in Int
    BY <1>1, <1>2
  <2>2. D(h) = Above(x, Cycle) + Above(Cycle, x)
    OBVIOUS
  <2> HIDE DEF x, D
  <2>3. Above(x, Cycle) \in Nat /\ Above(Cycle, x) \in Nat
    BY <2>1, AboveNat
  <2> QED
    BY <2>2, <2>3
<1>4. NearestHeadway(n) = CHOOSE h \in T : \A k \in T : \/ D(h) < D(k)
                                                        \/ D(h) = D(k) /\ h <= k
  BY DEF NearestHeadway, m, T
<1> HIDE DEF D
<1>5. PICK d \in Ds : \A x \in Ds : d <= x
  <2>1. Ds \in SUBSET Nat /\ D(HeadwayFor[1]) \in Ds
    BY <1>2, <1>3
  <2> HIDE DEF Ds
  <2> QED
    BY <2>1, MinIn
<1>6. PICK g \in T : D(g) = d
  OBVIOUS
<1> DEFINE Best == {h \in T : D(h) = d}
<1>7. PICK h \in Best : \A x \in Best : h <= x
  <2>1. Best \in SUBSET Nat /\ g \in Best
    BY <1>2, <1>6
  <2> HIDE DEF Best
  <2> QED
    BY <2>1, MinIn
<1>8. \A k \in T : D(h) < D(k) \/ (D(h) = D(k) /\ h <= k)
  BY <1>3, <1>5, <1>7
<1>9. NearestHeadway(n) \in T
  BY <1>4, <1>7, <1>8, Zenon
<1> QED
  BY <1>2, <1>9

\* How many passengers the controller has seen arrive is a number.
LEMMA RatesAre == ASSUME KInv PROVE [r \in Route |-> Rate(r)] \in [Route -> Nat]
<1>1. IsFiniteSet(Cohort)
  BY DayFacts DEF KInv
<1> DEFINE seen == [c \in Cohort |-> Seen(c)]
<1>2. \A c \in Cohort : seen[c] \in Nat
  BY SeenNat
<1> HIDE DEF seen
<1>3. ASSUME NEW r \in Route PROVE Rate(r) \in Nat
  <2> DEFINE S == {c \in OfTape(r) : Arrived(c) /\ LagOf(c) \in Lags}
  <2>1. Rate(r) = SumFunctionOnSet(seen, S)
    BY DEF Rate, Here, seen
  <2>2. S \in SUBSET Cohort
    BY DEF OfTape
  <2> HIDE DEF S
  <2>3. IsFiniteSet(S)
    BY <1>1, <2>2, FS_Subset
  <2>4. \A c \in S : seen[c] \in Nat
    BY <1>2, <2>2
  <2> QED
    BY <2>1, <2>3, <2>4, SumNat
<1> QED
  BY <1>3

\* The actions a proportional controller tries, by family: buses of a route above
\* its desired fleet are moved and recalled.
Donors(desired) ==
  {b \in Bus : bus[b].route \in Route /\ Excess(desired, bus[b].route) > 0}

Moves(desired) ==
  {Action("REASSIGN", b, r, NoHeadway) : b \in Donors(desired), r \in Route}

Returns(desired) == {Action("RECALL", b, NoRoute, NoHeadway) : b \in Donors(desired)}

Tried(desired) ==
  Acts("DISPATCH") \cup Moves(desired) \cup Returns(desired) \cup Acts("SET_HEADWAY")

\* Lists made for the routes of a list, one after the other.
LEMMA ListsInTurn ==
  ASSUME NEW R, NEW s \in Seq(R), NEW U, NEW t, DOMAIN t = DOMAIN s,
         t = [i \in DOMAIN t |-> t[i]], \A i \in DOMAIN s : t[i] \in Seq(U)
  PROVE  FlattenSeq(t) \in Seq(U)
<1>1. DOMAIN s = 1 .. Len(s) /\ Len(s) \in Nat
  OBVIOUS
<1>2. t \in [1 .. Len(s) -> Seq(U)]
  BY <1>1
<1> QED
  BY <1>1, <1>2, FlattenHolds

\* The buses of a route in surplus are donors.
LEMMA RouteBuses ==
  ASSUME NEW desired, NEW s \in Route, Excess(desired, s) > 0
  PROVE  OfRoute(s) \in Seq(Donors(desired))
<1> DEFINE S == {b \in Bus : bus[b].route = s}
<1>1. S \in SUBSET Nat /\ IsFiniteSet(S) /\ S \subseteq Donors(desired)
  BY FleetAssumption, FS_Subset DEF Donors
<1>2. OfRoute(s) = ByNumber(S)
  BY DEF OfRoute
<1> HIDE DEF S
<1>3. OfRoute(s) \in Seq(S)
  BY <1>1, <1>2, Numbers DEF Lists
<1> QED
  BY <1>1, <1>3, SeqGrows

\* What the proportional controller names is tried, and not masked, or NOOP.
LEMMA ProportionalIs ==
  ASSUME NEW desired \in [Route -> Nat], Inv
  PROVE  \/ Proportional(desired) = NoopAction
         \/ Proportional(desired) \in Tried(desired) /\ Legal(Proportional(desired))
<1> DEFINE U == Tried(desired)
           shortage == Shortage(desired)
           surplus == Surplus(desired)
           Over == {r \in Route : Excess(desired, r) > 0}
           sent == [i \in DOMAIN shortage |-> Slots("DISPATCH", BusOrder, shortage[i])]
           moves(r) == [j \in DOMAIN surplus |-> Slots("REASSIGN", OfRoute(surplus[j]), r)]
           moved == [i \in DOMAIN shortage |-> FlattenSeq(moves(shortage[i]))]
           back == [j \in DOMAIN surplus |-> Recalls(OfRoute(surplus[j]))]
           set == [k \in DOMAIN RouteOrder |->
                     Action("SET_HEADWAY", NoBus, RouteOrder[k],
                            NearestHeadway(desired[RouteOrder[k]]))]
<1>1. Proportional(desired)
        = FirstLegal(FlattenSeq(sent) \o FlattenSeq(moved) \o FlattenSeq(back) \o set)
  BY DEF Proportional, EachIn, Each
<1>2. surplus \in Seq(Over) /\ shortage \in Seq(Route)
  BY RoutesRanked
<1> HIDE DEF surplus, shortage
<1>3. /\ \A i \in DOMAIN shortage : shortage[i] \in Route
      /\ \A j \in DOMAIN surplus : surplus[j] \in Route /\ Excess(desired, surplus[j]) > 0
  BY <1>2, SeqElements
<1>4. /\ \A b \in Bus, r \in Route : Action("DISPATCH", b, r, NoHeadway) \in U
      /\ \A b \in Donors(desired), r \in Route : Action("REASSIGN", b, r, NoHeadway) \in U
      /\ \A b \in Donors(desired) : Action("RECALL", b, NoRoute, NoHeadway) \in U
      /\ \A r \in Route, i \in 1 .. 3 : Action("SET_HEADWAY", NoBus, r, HeadwayFor[i]) \in U
  BY DEF Tried, Acts, Moves, Returns
<1> HIDE DEF U
<1>5. FlattenSeq(sent) \in Seq(U)
  <2>1. \A i \in DOMAIN shortage : Slots("DISPATCH", BusOrder, shortage[i]) \in Seq(U)
    BY <1>3, <1>4, Orders, SlotsIn
  <2>2. DOMAIN sent = DOMAIN shortage /\ sent = [i \in DOMAIN sent |-> sent[i]]
        /\ \A i \in DOMAIN shortage : sent[i] \in Seq(U)
    BY <2>1
  <2> HIDE DEF sent
  <2> QED
    BY <1>2, <2>2, ListsInTurn
<1>6. FlattenSeq(moved) \in Seq(U)
  <2>1. ASSUME NEW r \in Route PROVE FlattenSeq(moves(r)) \in Seq(U)
    <3>1. \A j \in DOMAIN surplus : Slots("REASSIGN", OfRoute(surplus[j]), r) \in Seq(U)
      BY <1>3, <1>4, RouteBuses, SlotsIn
    <3> DEFINE t == moves(r)
    <3>2. DOMAIN t = DOMAIN surplus /\ t = [j \in DOMAIN t |-> t[j]]
          /\ \A j \in DOMAIN surplus : t[j] \in Seq(U)
      BY <3>1
    <3> HIDE DEF t
    <3>3. FlattenSeq(t) \in Seq(U)
      BY <1>2, <3>2, ListsInTurn
    <3> QED
      BY <3>3 DEF t
  <2> HIDE DEF moves
  <2>2. DOMAIN moved = DOMAIN shortage /\ moved = [i \in DOMAIN moved |-> moved[i]]
        /\ \A i \in DOMAIN shortage : moved[i] \in Seq(U)
    BY <1>3, <2>1
  <2> HIDE DEF moved
  <2> QED
    BY <1>2, <2>2, ListsInTurn
<1>7. FlattenSeq(back) \in Seq(U)
  <2>1. \A j \in DOMAIN surplus : Recalls(OfRoute(surplus[j])) \in Seq(U)
    BY <1>3, <1>4, RouteBuses, SlotsIn DEF Recalls
  <2>2. DOMAIN back = DOMAIN surplus /\ back = [i \in DOMAIN back |-> back[i]]
        /\ \A i \in DOMAIN surplus : back[i] \in Seq(U)
    BY <2>1
  <2> HIDE DEF back
  <2> QED
    BY <1>2, <2>2, ListsInTurn
<1>8. set \in Seq(U)
  <2>1. \A r \in Route : Action("SET_HEADWAY", NoBus, r, NearestHeadway(desired[r])) \in U
    <3> TAKE r \in Route
    <3>1. PICK i \in 1 .. 3 : NearestHeadway(desired[r]) = HeadwayFor[i]
      BY NearestIs
    <3> QED
      BY <1>4, <3>1
  <2>2. set \in [1 .. Cardinality(Route) -> U]
    BY <2>1, Orders
  <2> HIDE DEF set
  <2> QED
    BY <2>2, Orders, FunctionIsSeq
<1> DEFINE p == FlattenSeq(sent) \o FlattenSeq(moved) \o FlattenSeq(back) \o set
<1>9. p \in Seq(U)
  <2> HIDE DEF sent, moved, back, set
  <2> QED
    BY <1>5, <1>6, <1>7, <1>8
<1>10. Proportional(desired) = FirstLegal(p)
  BY <1>1
<1> HIDE DEF p
<1> QED
  BY <1>9, <1>10, FirstLegalIs DEF U

\* The proportional controller robs no route: it gives out its budget and no route
\* less than its floor, and a route it takes a bus from keeps its desired fleet and
\* two buses.  What it and the coverage controller do is not masked.
THEOREM DonorsKeep == AccSpec => []DonorsKeepTheirFleet
<1>1. AccInv => DonorsKeepTheirFleet
  <2> DEFINE desired == Desired
             a == Proportional(desired)
  <2> SUFFICES ASSUME AccInv
               PROVE  /\ SumFunction(desired) = IF TotalQueue >= BusyDemand THEN BusyBudget
                                                 ELSE QuietBudget
                      /\ \A r \in Route : desired[r] >= Floor
                      /\ {a, Coverage} \subseteq RandomChoices
                      /\ a.kind \in {"REASSIGN", "RECALL"} =>
                           Cardinality(FullCommitted(bus[a.bus].route) \ {a.bus})
                             >= Max({2, desired[bus[a.bus].route]})
    BY DEF DonorsKeepTheirFleet
  <2>1. KInv /\ Inv /\ now \in Nat
    BY DEF AccInv, KInv, Inv, TypeOK
  <2>2. /\ desired \in [Route -> Nat]
        /\ \A r \in Route : desired[r] >= Floor
        /\ SumFunction(desired) = IF TotalQueue >= BusyDemand THEN BusyBudget ELSE QuietBudget
    BY <2>1, RatesAre, BudgetGivenOut DEF Desired
  <2> HIDE DEF desired
  <2>3. a = NoopAction \/ (a \in Tried(desired) /\ Legal(a))
    BY <2>1, <2>2, ProportionalIs
  <2> HIDE DEF a
  <2>4. a \in RandomChoices
    <3>1. Tried(desired) \subseteq AllActs
      <4>1. Moves(desired) \subseteq Acts("REASSIGN") /\ Returns(desired) \subseteq Acts("RECALL")
        BY DEF Moves, Returns, Donors, Acts
      <4> QED
        BY <4>1 DEF Tried, AllActs, Families
    <3> QED
      BY <2>3, <3>1, NoopIsLegal, RandomDraws
  <2>5. Coverage \in RandomChoices
    BY <2>1, CoverageIsDrawn
  <2>6. ASSUME a.kind \in {"REASSIGN", "RECALL"}
        PROVE  Cardinality(FullCommitted(bus[a.bus].route) \ {a.bus})
                 >= Max({2, desired[bus[a.bus].route]})
    <3> DEFINE b == a.bus
               r == bus[b].route
               F == FullCommitted(r)
    <3>1. /\ b \in Bus /\ r \in Route /\ Excess(desired, r) > 0
          /\ DonorGuard(b)
      <4>1. a # NoopAction
        BY <2>6 DEF NoopAction, Action
      <4>2. a \notin Acts("DISPATCH") /\ a \notin Acts("SET_HEADWAY")
        BY <2>6 DEF Acts, Action
      <4>3. a \in Moves(desired) \cup Returns(desired) /\ Legal(a)
        BY <2>3, <4>1, <4>2 DEF Tried
      <4>4. CASE a \in Moves(desired)
        <5>1. a.kind = "REASSIGN" /\ b \in Donors(desired)
          BY <4>4 DEF Moves, Action
        <5>2. DonorGuard(b)
          BY <4>3, <5>1 DEF Legal, CanReassign
        <5> QED
          BY <5>1, <5>2 DEF Donors
      <4>5. CASE a \in Returns(desired)
        <5>1. a.kind = "RECALL" /\ b \in Donors(desired)
          BY <4>5 DEF Returns, Action
        <5>2. DonorGuard(b)
          BY <4>3, <5>1 DEF Legal, CanRecall
        <5> QED
          BY <5>1, <5>2 DEF Donors
      <4> QED
        BY <4>3, <4>4, <4>5
    <3> HIDE DEF b
    <3>2. b \in F /\ Cardinality(F) - 1 >= 2
      BY <3>1 DEF DonorGuard, FullCommitted, TwoStay
    <3>3. IsFiniteSet(F) /\ Cardinality(F) \in Nat
      <4>1. F \in SUBSET Bus
        BY DEF FullCommitted
      <4> HIDE DEF F
      <4> QED
        BY <4>1, FleetAssumption, FS_Subset, FS_CardinalityType
    <3>4. Cardinality(F) - desired[r] > 0
      <4>1. Excess(desired, r) = Cardinality(Serving(r)) - desired[r]
        BY DEF Excess, RouteRow
      <4>2. Serving(r) = F
        BY <2>1, <3>1, ServingIsCommitted
      <4> QED
        BY <3>1, <4>1, <4>2
    <3>5. desired[r] \in Nat
      BY <2>2, <3>1
    <3> HIDE DEF F
    <3>6. Cardinality(F \ {b}) = Cardinality(F) - 1
      BY <3>2, <3>3, FS_RemoveElement
    <3>7. Max({2, desired[r]}) \in {2, desired[r]}
      <4>1. IsFiniteSet({2}) /\ {2} \cup {desired[r]} = {2, desired[r]}
        BY FS_Singleton
      <4>2. IsFiniteSet({2, desired[r]})
        BY <4>1, FS_AddElement
      <4> QED
        BY <3>5, <4>2, MaxIn
    <3> QED
      BY <3>2, <3>3, <3>4, <3>5, <3>6, <3>7 DEF F, b
  <2> QED
    BY <2>2, <2>4, <2>5, <2>6
<1> QED
  BY <1>1, AccInvariance, PTL

-----------------------------------------------------------------------------
(* Lists joined *)

\* A list of a set, each element once, has the sum of the set.
LEMMA SumListed ==
  ASSUME NEW S, IsFiniteSet(S), NEW list, Lists(list, S),
         NEW f, \A x \in S : f[x] \in Int,
         NEW g, \A i \in DOMAIN list : g[i] = f[list[i]]
  PROVE  SumFunctionOnSet(g, DOMAIN list) = SumFunctionOnSet(f, S)
<1> DEFINE K == DOMAIN list
           part == [i \in K |-> {list[i]}]
<1>1. /\ K = 1 .. Cardinality(S) /\ IsFiniteSet(K)
      /\ \A i \in K : list[i] \in S
      /\ \A x \in S : \E i \in K : list[i] = x
      /\ \A i, j \in K : list[i] = list[j] => i = j
  <2>1. Cardinality(S) \in Nat
    BY FS_CardinalityType
  <2>2. K = 1 .. Cardinality(S) /\ list \in Seq(S)
    BY DEF Lists
  <2>3. IsFiniteSet(K)
    BY <2>1, <2>2, FS_Interval
  <2> QED
    BY <2>2, <2>3, SeqElements DEF Lists
<1> HIDE DEF K
<1>2. /\ part \in [K -> SUBSET S]
      /\ \A k, l \in K : k # l => part[k] \cap part[l] = {}
      /\ \A x \in S : \E k \in K : x \in part[k]
  BY <1>1
<1>3. \A i \in K : g[i] = SumFunctionOnSet(f, part[i])
  <2> TAKE i \in K
  <2>1. IsFiniteSet({list[i]}) /\ f[list[i]] \in Int /\ {list[i]} \ {list[i]} = {}
    BY <1>1, FS_Singleton
  <2>2. SumFunctionOnSet(f, {list[i]}) = f[list[i]] + SumFunctionOnSet(f, {list[i]} \ {list[i]})
    BY <2>1, SumSplit
  <2>3. SumFunctionOnSet(f, {}) = 0
    BY SumEmpty
  <2>4. g[i] = f[list[i]]
    BY DEF K
  <2> QED
    BY <2>1, <2>2, <2>3, <2>4
<1> HIDE DEF part
<1>4. IsFiniteSet(K) /\ \A x \in S : f[x] \in Int
  BY <1>1
<1>5. SumFunctionOnSet(g, K) = SumFunctionOnSet(f, S)
  <2>1. Parted(S, K, part, f, g)
    BY <1>2, <1>3, <1>4 DEF Parted
  <2> QED
    BY <2>1, SumParts
<1> QED
  BY <1>5 DEF K

\* Two lists of what they have not in common, one after the other.
LEMMA ListsJoined ==
  ASSUME NEW S, IsFiniteSet(S), NEW T, IsFiniteSet(T), S \cap T = {},
         NEW p, Lists(p, S), NEW q, Lists(q, T)
  PROVE  Lists(p \o q, S \cup T)
<1> DEFINE m == Cardinality(S)
           n == Cardinality(T)
           U == S \cup T
           z == p \o q
<1>1. m \in Nat /\ n \in Nat /\ Cardinality(U) = m + n
  <2>1. Cardinality(U) = m + n - Cardinality(S \cap T)
    BY FS_Union
  <2>2. Cardinality(S \cap T) = 0
    BY FS_EmptySet
  <2>3. m \in Nat /\ n \in Nat
    BY FS_CardinalityType
  <2> QED
    BY <2>1, <2>2, <2>3
<1>2. /\ p \in Seq(S) /\ Len(p) = m /\ DOMAIN p = 1 .. m
      /\ q \in Seq(T) /\ Len(q) = n /\ DOMAIN q = 1 .. n
  BY DEF Lists
<1> HIDE DEF m, n
<1>3. p \in Seq(U) /\ q \in Seq(U)
  BY <1>2, SeqGrows
<1> HIDE DEF U
<1>4. /\ z \in Seq(U) /\ Len(z) = m + n /\ DOMAIN z = 1 .. m + n
      /\ \A i \in 1 .. m : z[i] = p[i]
      /\ \A i \in 1 .. n : z[m + i] = q[i]
  BY <1>1, <1>2, <1>3
<1> HIDE DEF z
<1>5. /\ \A i \in 1 .. m : p[i] \in S
      /\ \A i \in 1 .. n : q[i] \in T
  BY <1>2, SeqElements
<1>6. /\ \A x \in S : \E i \in 1 .. m : p[i] = x
      /\ \A x \in T : \E i \in 1 .. n : q[i] = x
      /\ \A i, j \in 1 .. m : p[i] = p[j] => i = j
      /\ \A i, j \in 1 .. n : q[i] = q[j] => i = j
  BY <1>2 DEF Lists
<1>7. ASSUME NEW x \in U PROVE \E i \in 1 .. m + n : z[i] = x
  <2>1. CASE x \in S
    <3>1. PICK i \in 1 .. m : p[i] = x
      BY <1>6, <2>1
    <3>2. i \in 1 .. m + n
      BY <1>1
    <3> QED
      BY <1>4, <3>1, <3>2
  <2>2. CASE x \in T
    <3>1. PICK i \in 1 .. n : q[i] = x
      BY <1>6, <2>2
    <3>2. m + i \in 1 .. m + n
      BY <1>1
    <3> QED
      BY <1>4, <3>1, <3>2
  <2> QED
    BY <2>1, <2>2 DEF U
<1>8. ASSUME NEW i \in 1 .. m + n
      PROVE  \/ i \in 1 .. m /\ z[i] = p[i] /\ z[i] \in S
             \/ \E k \in 1 .. n : i = m + k /\ z[i] = q[k] /\ z[i] \in T
  <2>1. CASE i <= m
    BY <1>1, <1>4, <1>5, <2>1
  <2>2. CASE i > m
    <3>1. i - m \in 1 .. n /\ i = m + (i - m)
      BY <1>1, <2>2
    <3> QED
      BY <1>4, <1>5, <3>1
  <2> QED
    BY <1>1, <2>1, <2>2
<1>9. ASSUME NEW i \in 1 .. m + n, NEW j \in 1 .. m + n, z[i] = z[j] PROVE i = j
  <2>1. CASE z[i] \in S
    BY <1>6, <1>8, <1>9, <2>1
  <2>2. CASE z[i] \notin S
    <3>1. /\ \E k \in 1 .. n : i = m + k /\ z[i] = q[k]
          /\ \E k \in 1 .. n : j = m + k /\ z[j] = q[k]
      BY <1>8, <1>9, <2>2
    <3> QED
      BY <1>6, <1>9, <3>1
  <2> QED
    BY <2>1, <2>2
<1> QED
  BY <1>1, <1>4, <1>7, <1>9 DEF Lists, U, z

\* Lists of parts that have nothing in common, flattened, list what is in a part.
LEMMA FlattenLists ==
  ASSUME NEW U, IsFiniteSet(U), NEW n \in Nat, NEW part \in [1 .. n -> SUBSET U],
         \A i, j \in 1 .. n : i # j => part[i] \cap part[j] = {},
         NEW s, DOMAIN s = 1 .. n, s = [i \in 1 .. n |-> s[i]],
         \A i \in 1 .. n : Lists(s[i], part[i])
  PROVE  Lists(FlattenSeq(s), {x \in U : \E i \in 1 .. n : x \in part[i]})
<1> DEFINE Of(m) == {x \in U : \E i \in 1 .. m : x \in part[i]}
<1>0. \A i \in 1 .. n : s[i] \in Seq(U)
  <2> TAKE i \in 1 .. n
  <2>1. s[i] \in Seq(part[i]) /\ part[i] \subseteq U
    BY DEF Lists
  <2> QED
    BY <2>1, SeqGrows
<1>1. s \in Seq(Seq(U)) /\ Len(s) = n
  BY <1>0
<1>2. CASE n = 0
  <2>1. FlattenSeq(s) = s /\ s = <<>>
    BY <1>1, <1>2 DEF FlattenSeq
  <2>2. Of(n) = {} /\ Cardinality({}) = 0
    BY <1>2, FS_EmptySet
  <2>3. Lists(<<>>, {})
    BY <2>2 DEF Lists
  <2> QED
    BY <2>1, <2>2, <2>3
<1>3. CASE n # 0
  <2> DEFINE f == CHOOSE f : Flattens(f, s, n)
  <2>1. FlattenSeq(s) = f[n]
    BY <1>1, <1>3 DEF FlattenSeq, Flattens
  <2>2. Flattens(f, s, n)
    BY FlattenExists
  <2> HIDE DEF f
  <2>3. \A i \in 1 .. n : f[i] = IF i = 1 THEN s[i] ELSE f[i - 1] \o s[i]
    BY <2>2 DEF Flattens
  <2> DEFINE P == {m \in Nat : m \in 1 .. n => Lists(f[m], Of(m))}
  <2>4. 0 \in P
    OBVIOUS
  <2>5. ASSUME NEW m \in Nat, m \in P PROVE m + 1 \in P
    <3> SUFFICES ASSUME m + 1 \in 1 .. n PROVE Lists(f[m + 1], Of(m + 1))
      OBVIOUS
    <3>1. CASE m = 0
      <4>1. f[1] = s[1] /\ Lists(s[1], part[1]) /\ 1 \in 1 .. n
        BY <2>3, <3>1
      <4>2. Of(1) = part[1]
        BY <4>1
      <4>3. m + 1 = 1
        BY <3>1
      <4> HIDE DEF Of
      <4> QED
        BY <4>1, <4>2, <4>3
    <3>2. CASE m # 0
      <4>1. m \in 1 .. n /\ m + 1 # 1 /\ (m + 1) - 1 = m
        BY <3>2
      <4>2. Lists(f[m], Of(m)) /\ Lists(s[m + 1], part[m + 1])
        BY <2>5, <4>1
      <4>3. f[m + 1] = f[m] \o s[m + 1]
        BY <2>3, <4>1
      <4>4. Of(m + 1) = Of(m) \cup part[m + 1]
        <5>1. \A i \in 1 .. m + 1 : i \in 1 .. m \/ i = m + 1
          OBVIOUS
        <5>2. \A i \in 1 .. m : i \in 1 .. m + 1
          OBVIOUS
        <5> QED
          BY <5>1, <5>2
      <4>5. Of(m) \cap part[m + 1] = {}
        <5>1. \A i \in 1 .. m : i \in 1 .. n /\ i # m + 1
          OBVIOUS
        <5> QED
          BY <5>1
      <4>6. IsFiniteSet(Of(m)) /\ IsFiniteSet(part[m + 1])
        BY FS_Subset
      <4> HIDE DEF Of
      <4> QED
        BY <4>2, <4>3, <4>4, <4>5, <4>6, ListsJoined
    <3> QED
      BY <3>1, <3>2
  <2> HIDE DEF P
  <2>6. n \in P
    BY <2>4, <2>5, NatInductionOn
  <2> QED
    BY <1>3, <2>1, <2>6 DEF P
<1> QED
  BY <1>2, <1>3

\* What is made of each element of a list, if it differs, is a list too.
LEMMA ListsMapped ==
  ASSUME NEW S, IsFiniteSet(S), NEW list, Lists(list, S), NEW T,
         NEW F \in Bijection(S, T), NEW m, m = [i \in DOMAIN list |-> F[list[i]]]
  PROVE  Lists(m, T)
<1> DEFINE n == Cardinality(S)
<1>1. n \in Nat /\ Cardinality(T) = n
  <2>1. ExistsBijection(S, T)
    BY DEF ExistsBijection
  <2> QED
    BY <2>1, FS_Bijection, FS_CardinalityType
<1>2. /\ DOMAIN list = 1 .. n
      /\ \A i \in 1 .. n : list[i] \in S
      /\ \A x \in S : \E i \in 1 .. n : list[i] = x
      /\ \A i, j \in 1 .. n : list[i] = list[j] => i = j
  BY SeqElements DEF Lists
<1>3. /\ \A x \in S : F[x] \in T
      /\ \A x, y \in S : F[x] = F[y] => x = y
      /\ \A y \in T : \E x \in S : F[x] = y
  BY DEF Bijection, Injection, Surjection, IsInjective
<1> HIDE DEF n
<1>4. m \in [1 .. n -> T]
  BY <1>2, <1>3
<1>5. m \in Seq(T) /\ Len(m) = n /\ DOMAIN m = 1 .. n
  BY <1>1, <1>4, FunctionIsSeq
<1>6. \A y \in T : \E i \in 1 .. n : m[i] = y
  BY <1>2, <1>3
<1>7. \A i, j \in 1 .. n : m[i] = m[j] => i = j
  BY <1>2, <1>3
<1> QED
  BY <1>1, <1>5, <1>6, <1>7 DEF Lists

-----------------------------------------------------------------------------
(* The reserve, in order *)

\* As in ListOf, by the key of the reserve.
AheadInReserve(K, p) ==
  {q \in K : \/ Earlier(q[1], p[1])
             \/ q[2] < p[2] /\ ~Earlier(p[1], q[1])}

\* The reserve holds every bus of no route, each once, and none of them comes before
\* the first.
LEMMA ReserveListed ==
  ASSUME Inv
  PROVE  /\ Lists(ReserveQueue, {b \in Bus : bus[b].route = NoRoute})
         /\ \A b \in Bus : bus[b].route = NoRoute =>
              /\ 1 \in DOMAIN ReserveQueue
              /\ ~Earlier(ReserveKey(b), ReserveKey(ReserveQueue[1]))
<1> DEFINE S == {b \in Bus : bus[b].route = NoRoute}
           key == [b \in S |-> ReserveKey(b)]
           K == {<<ReserveKey(b), b>> : b \in S}
           before == [p \in K |-> AheadInReserve(K, p)]
           n == Cardinality(S)
           at == [i \in 1 .. n |-> CHOOSE p \in K : Cardinality(AheadInReserve(K, p)) + 1 = i]
           list == ReserveQueue
<1>0. S \subseteq Bus /\ S \subseteq Nat /\ IsFiniteSet(S)
  BY FleetAssumption, FS_Subset
<1>1. \A b \in S : key[b] = ReserveKey(b) /\ key[b][1] \in Int /\ key[b][2] \in Int
  BY DEF Inv, TypeOK, VehicleType, ReserveKey
<1>2. list = [i \in 1 .. n |-> at[i][2]]
  BY DEF ReserveQueue, OrderedBy, AheadInReserve
<1>2a. K = {<<key[b], b>> : b \in S}
  BY <1>1
<1> HIDE DEF list, key, K, S, n
<1>3. \A p \in K : p[2] \in Nat /\ p[1] = key[p[2]] /\ p[1][1] \in Int /\ p[1][2] \in Int
  BY <1>0, <1>1, <1>2a
<1>4. before \in [K -> SUBSET K] /\ \A p \in K : AheadInReserve(K, p) = before[p]
  BY DEF AheadInReserve
<1>5. \A i \in 1 .. n : (\E p \in K : Cardinality(before[p]) + 1 = i)
         => at[i] \in K /\ Cardinality(before[at[i]]) + 1 = i
  <2> SUFFICES ASSUME NEW i \in 1 .. n, \E p \in K : Cardinality(before[p]) + 1 = i
               PROVE  at[i] \in K /\ Cardinality(before[at[i]]) + 1 = i
    OBVIOUS
  <2>1. at[i] = CHOOSE p \in K : Cardinality(AheadInReserve(K, p)) + 1 = i
    OBVIOUS
  <2> HIDE DEF before, at
  <2>2. \E p \in K : Cardinality(AheadInReserve(K, p)) + 1 = i
    BY <1>4
  <2>3. at[i] \in K /\ Cardinality(AheadInReserve(K, at[i])) + 1 = i
    BY <2>1, <2>2, Zenon
  <2> QED
    BY <1>4, <2>3
<1>6. \A p, q \in K : q \in before[p] <=> Earlier(q[1], p[1])
                                         \/ (q[2] < p[2] /\ ~Earlier(p[1], q[1]))
  BY DEF AheadInReserve
<1> HIDE DEF before, at
<1>7. \A p \in K : p \notin before[p]
  BY <1>3, <1>6 DEF Earlier
<1>8. ASSUME NEW p \in K, NEW q \in K, p \in before[q] PROVE before[p] \subseteq before[q]
  <2> SUFFICES ASSUME NEW x \in before[p] PROVE x \in before[q]
    OBVIOUS
  <2>1. x \in K
    BY <1>4
  <2>2. /\ p[1][1] \in Int /\ q[1][1] \in Int /\ x[1][1] \in Int
        /\ p[1][2] \in Int /\ q[1][2] \in Int /\ x[1][2] \in Int
        /\ p[2] \in Nat /\ q[2] \in Nat /\ x[2] \in Nat
    BY <1>3, <2>1
  <2>3. Earlier(p[1], q[1]) \/ (p[2] < q[2] /\ ~Earlier(q[1], p[1]))
    BY <1>6, <1>8
  <2>4. Earlier(x[1], p[1]) \/ (x[2] < p[2] /\ ~Earlier(p[1], x[1]))
    BY <1>6, <2>1
  <2>5. Earlier(x[1], q[1]) \/ (x[2] < q[2] /\ ~Earlier(q[1], x[1]))
    BY <2>2, <2>3, <2>4 DEF Earlier
  <2> QED
    BY <1>6, <2>1, <2>5
<1>9. ASSUME NEW p \in K, NEW q \in K, p # q PROVE p \in before[q] \/ q \in before[p]
  <2>1. /\ p[1][1] \in Int /\ q[1][1] \in Int /\ p[1][2] \in Int /\ q[1][2] \in Int
        /\ p[2] \in Nat /\ q[2] \in Nat
    BY <1>3
  <2>2. p[2] # q[2]
    BY <1>2a, <1>9
  <2> QED
    BY <1>6, <2>1, <2>2 DEF Earlier
<1>10. /\ Lists(list, S)
       /\ S # {} => /\ 1 \in DOMAIN list
                    /\ \A x \in S : <<key[x], x>> \notin before[<<key[list[1]], list[1]>>]
  <2>1. Ranked(list, S, key, K, before, at)
    BY <1>0, <1>2, <1>2a, <1>4, <1>5, <1>7, <1>8, <1>9 DEF n, Ranked
  <2> QED
    BY <2>1, RankedListed
<1>11. ASSUME NEW b \in S
       PROVE  1 \in DOMAIN list /\ ~Earlier(ReserveKey(b), ReserveKey(list[1]))
  <2>1. 1 \in DOMAIN list /\ list[1] \in S
    BY <1>10, <1>11, SeqElements DEF Lists
  <2>2. <<key[b], b>> \in K /\ <<key[list[1]], list[1]>> \in K
        /\ <<key[b], b>> \notin before[<<key[list[1]], list[1]>>]
    BY <1>2a, <1>10, <2>1
  <2>3. ~Earlier(key[b], key[list[1]])
    BY <1>6, <2>2
  <2> QED
    BY <1>1, <2>1, <2>3
<1> QED
  BY <1>10, <1>11 DEF S, list

-----------------------------------------------------------------------------
(* The edges of the moving buses *)

\* A moving bus left a stop at some tick from which the tape brings it to the next
\* one when it is due.
OnTheTape(b) ==
  bus[b].phase = "SERVICE_MOVING" => bus[b].at \in Nat /\ Entries(bus[b]) # {}

\* A moving bus is on the tape.
EdgesInv == \A b \in Bus : OnTheTape(b)

\* A decision moves no bus that is on an edge, and puts none on one.
LEMMA DecideOnTheTape ==
  ASSUME KInv, KDecide \/ UNCHANGED kvars, EdgesInv
  PROVE  EdgesInv'
<1>1. day' = day /\ now' = now
      /\ \A b \in Bus : bus'[b] = bus[b] \/ bus'[b].phase \in {"DEADHEAD", "TERMINAL_IDLE"}
  <2>1. Inv
    BY DEF KInv
  <2>2. CASE KDecide
    BY <2>1, <2>2, DecideBus DEF KDecide
  <2>3. CASE UNCHANGED kvars
    BY <2>3 DEF kvars, vars
  <2> QED
    BY <2>2, <2>3
<1>2. ASSUME NEW b \in Bus, bus'[b] = bus[b] PROVE OnTheTape(b)'
  <2>1. OnTheTape(b)
    BY DEF EdgesInv
  <2> QED
    BY <1>1, <1>2, <2>1 DEF OnTheTape, Entries, DurationAt
<1>3. ASSUME NEW b \in Bus, bus'[b].phase \in {"DEADHEAD", "TERMINAL_IDLE"}
      PROVE  OnTheTape(b)'
  BY <1>3 DEF OnTheTape
<1> QED
  BY <1>1, <1>2, <1>3 DEF EdgesInv

\* What a tick makes of a bus that enters its edge, and of one that stays on it.
LEMMA AfterTickOnEdge ==
  ASSUME NEW vs, NEW b, vs[b] \in VehicleType, NEW gone, NEW duration,
         NEW u, u = AfterTick(vs, gone, duration, b), u.phase = "SERVICE_MOVING"
  PROVE  /\ u.route = vs[b].route /\ u.at = vs[b].at
         /\ b \in gone \/ DwellOver(b) =>
              (duration[b] \in Nat \ {0} => u.remaining = duration[b] - 1)
         /\ ~(b \in gone \/ DwellOver(b)) =>
              /\ vs[b].phase = "SERVICE_MOVING"
              /\ u.remaining = IF vs[b].remaining > 0 THEN vs[b].remaining - 1
                               ELSE vs[b].remaining
<1>1. CASE b \in gone
  BY <1>1 DEF AfterTick, EnterEdge, Elapse, VehicleType
<1>2. CASE b \notin gone /\ DwellOver(b)
  BY <1>2 DEF AfterTick, EnterEdge, Elapse, VehicleType
<1>3. CASE b \notin gone /\ ~DwellOver(b)
  BY <1>3 DEF AfterTick, Elapse, VehicleType
<1> QED
  BY <1>1, <1>2, <1>3

\* A tick takes every moving bus a minute further, or puts it on an edge.
LEMMA TickOnTheTape ==
  ASSUME KInv, KTick, EdgesInv
  PROVE  EdgesInv'
<1>1. PICK vs \in {Fleet1} : \E R \in {RidersAfter(vs)} :
        /\ FleetTick(vs, [b \in Entering(vs) |-> TravelTime(vs[b])])
        /\ day' = day
  BY DEF KTick
<1> DEFINE duration == [b \in Entering(vs) |-> TravelTime(vs[b])]
<1>2. vs = Fleet1 /\ FleetTick(vs, duration) /\ day' = day
  BY <1>1
<1>3. now' = now + 1 /\ now \in Nat
      /\ bus' = [b \in Bus |-> AfterTick(vs, Leaving(vs), duration, b)]
  BY <1>2 DEF FleetTick, KInv, Inv, TypeOK
<1>4. SUFFICES ASSUME NEW b \in Bus, bus'[b].phase = "SERVICE_MOVING"
               PROVE  bus'[b].at \in Nat /\ (Entries(bus[b]) # {})'
  BY DEF EdgesInv, OnTheTape
<1>5. PICK u : u = bus'[b]
  OBVIOUS
<1>6. vs[b] = Completed(b) /\ vs[b] \in VehicleType /\ Inv /\ OnItsWay(bus[b])
      /\ bus[b] \in VehicleType
  BY <1>2, CompletedGood DEF Fleet1, Good, KInv, Inv, TypeOK
<1>7. u = AfterTick(vs, Leaving(vs), duration, b) /\ u.phase = "SERVICE_MOVING"
  BY <1>3, <1>4, <1>5
<1> HIDE DEF duration
<1>8. /\ u.route = vs[b].route /\ u.at = vs[b].at
      /\ b \in Entering(vs) => (duration[b] \in Nat \ {0} => u.remaining = duration[b] - 1)
      /\ b \notin Entering(vs) =>
           /\ vs[b].phase = "SERVICE_MOVING"
           /\ u.remaining = IF vs[b].remaining > 0 THEN vs[b].remaining - 1
                            ELSE vs[b].remaining
  BY <1>6, <1>7, AfterTickOnEdge DEF Entering
<1>9. SUFFICES u.at \in Nat /\ \E t \in 0 .. now + 1 :
                  t + DurationAt(u, t)' = now + 1 + u.remaining
  <2> SUFFICES ASSUME NEW t \in 0 .. now + 1, t + DurationAt(u, t)' = now + 1 + u.remaining
               PROVE  (Entries(bus[b]) # {})'
    BY <1>5
  <2>1. t \in 0 .. now' /\ t + DurationAt(bus[b], t)' = now' + bus'[b].remaining
    BY <1>3, <1>5 DEF DurationAt
  <2> QED
    BY <2>1 DEF Entries
<1>10. \A t : DurationAt(u, t)' = DurationAt(vs[b], t)
  BY <1>2, <1>8 DEF DurationAt
<1>11. CASE b \in Entering(vs)
  <2>1. duration[b] = TravelTime(vs[b]) /\ TravelTime(vs[b]) \in EdgeTimes
    BY <1>2, <1>11, TravelTimes DEF duration
  <2>2. duration[b] \in Nat \ {0} /\ u.remaining = duration[b] - 1
    BY <1>8, <1>11, <2>1, TimeAssumption
  <2>3. DurationAt(vs[b], now) = duration[b]
    BY <2>1 DEF DurationAt, TravelTime
  <2>4. PICK t : t = now
    OBVIOUS
  <2>5. t + DurationAt(u, t)' = now + 1 + u.remaining /\ t \in 0 .. now + 1
    BY <1>3, <1>10, <2>2, <2>3, <2>4
  <2>6. vs[b].at \in Nat
    BY <1>2, <1>11, EntersAtStop
  <2> QED
    BY <1>8, <2>5, <2>6
<1>12. CASE b \notin Entering(vs)
  <2>1. vs[b].phase = "SERVICE_MOVING"
    BY <1>8, <1>12
  <2>2. vs[b] = bus[b]
    BY <1>6, <2>1, CompletedOnItsWay
  <2>3. bus[b].remaining \in Nat /\ bus[b].remaining # 0
    <3>1. bus[b].remaining = 0 => vs[b].phase \in {"LAYOVER", "SERVICE_DWELL"}
      BY <1>6, <2>1, <2>2, EndEdgeIs
    <3> QED
      BY <1>6, <2>1, <3>1 DEF VehicleType
  <2>4. u.remaining = bus[b].remaining - 1
    BY <1>8, <1>12, <2>2, <2>3
  <2>5. bus[b].at \in Nat /\ Entries(bus[b]) # {}
    BY <2>1, <2>2 DEF EdgesInv, OnTheTape
  <2>6. PICK t \in 0 .. now : t + DurationAt(bus[b], t) = now + bus[b].remaining
    BY <2>5 DEF Entries
  <2>7. t + DurationAt(u, t)' = now + 1 + u.remaining /\ t \in 0 .. now + 1
    BY <1>3, <1>10, <2>2, <2>3, <2>4, <2>6
  <2> QED
    BY <1>8, <2>2, <2>5, <2>7
<1> QED
  BY <1>11, <1>12

\* A moving bus can be placed on its edge in every state.
LEMMA EdgesInvariance == KSpec => []EdgesInv
<1>1. KInit => EdgesInv
  BY DEF KInit, Init, Vehicle, EdgesInv, OnTheTape
<1>2. KInv /\ EdgesInv /\ [KNext]_kvars => EdgesInv'
  BY DecideOnTheTape, TickOnTheTape DEF KNext
<1> QED
  BY <1>1, <1>2, KInvariance, PTL DEF KSpec

-----------------------------------------------------------------------------
(* The dashboard *)

\* The fields of a snapshot.
LEMMA SnapshotIs ==
  /\ Snapshot.counters = totals
  /\ Snapshot.reserve = Each(ReserveQueue, BusShown)
  /\ DOMAIN Snapshot.routes = Route
  /\ \A r \in Route :
       /\ Snapshot.routes[r].waiting
            = SumFunction([p \in {1, -1} \X (0 .. LastStop) |-> QueueCells[<<r, p[1], p[2]>>].waiting])
       /\ Snapshot.routes[r].buses = Each(OfRoute(r), BusShown)
BY DEF Snapshot, OnRoute

\* The place of a moving bus on its edge can be told.
LEMMA EdgeIsKnown ==
  ASSUME KInv, EdgesInv, NEW b \in Bus, bus[b].phase = "SERVICE_MOVING"
  PROVE  Entries(bus[b]) # {} /\ bus[b].remaining <= EdgeShown(bus[b])
<1> DEFINE v == bus[b]
           D(t) == DurationAt(v, t)
           E == Entries(v)
           t == Max(E)
<1>1. /\ day \in Days /\ now \in Nat /\ v \in VehicleType /\ v.route \in Route
      /\ v.at \in Nat /\ E # {}
  BY DEF KInv, Inv, TypeOK, MissionsMakeSense, MissionInv, EdgesInv, OnTheTape
<1>2. E = {x \in 0 .. now : x + D(x) = now + v.remaining}
  BY DEF Entries
<1>3. v.remaining \in Nat
  BY <1>1 DEF VehicleType
<1>4. EdgeShown(v) = D(t)
  BY <1>1 DEF EdgeShown
<1>5. \A x \in Nat : D(x) \in Nat
  BY <1>1, TapeTimes, TimeAssumption DEF DurationAt
<1> HIDE DEF D, v, E, t
<1>6. E \in SUBSET Nat /\ IsFiniteSet(E)
  <2>1. IsFiniteSet(0 .. now)
    <3>1. 0 \in Int /\ now \in Int
      BY <1>1
    <3> QED
      BY <3>1, FS_Interval
  <2>2. E \in SUBSET (0 .. now)
    BY <1>2
  <2>3. IsFiniteSet(E)
    BY <2>1, <2>2, FS_Subset
  <2>4. E \in SUBSET Nat
    BY <2>2
  <2> QED
    BY <2>3, <2>4
<1>7. t \in E
  BY <1>1, <1>6, MaxIn DEF t
<1>8. t \in 0 .. now /\ t + D(t) = now + v.remaining /\ D(t) \in Nat
  BY <1>2, <1>5, <1>7
<1>9. v.remaining <= D(t)
  BY <1>1, <1>3, <1>8
<1> QED
  BY <1>1, <1>4, <1>9 DEF v, E

\* The queue shown at a stop is that of its passengers.
LEMMA QueueShown ==
  ASSUME NEW r \in Route, NEW d \in {1, -1}, NEW i \in 0 .. LastStop
  PROVE  QueueCells[<<r, d, i>>].waiting = SumFunctionOnSet(waiting, At(r, d, i))
<1> DEFINE cell == <<r, d, i>>
<1>0. cell \in Route \X {1, -1} \X (0 .. LastStop) /\ cell[1] = r /\ cell[2] = d /\ cell[3] = i
  OBVIOUS
<1> HIDE DEF cell
<1>1. QueueCells[cell]
        = [waiting |-> Queue(r, d, i), mean |-> MeanAge(r, d, i),
           longest |-> OldestAge(r, d, i), excessive |-> ExcessQueue(r, d, i)]
  BY <1>0 DEF QueueCells
<1>2. QueueCells[cell].waiting = Queue(r, d, i)
  BY <1>1
<1> QED
  BY <1>2 DEF Queue, Here, cell

\* The queues shown at the stops are the waiting passengers counted.
LEMMA QueuesAddUp ==
  ASSUME KInv
  PROVE  SumFunction([r \in Route |-> Snapshot.routes[r].waiting]) = totals.waiting
<1> DEFINE shown == [r \in Route |-> Snapshot.routes[r].waiting]
           Spots == {1, -1} \X (0 .. LastStop)
           cells(r) == [p \in Spots |-> QueueCells[<<r, p[1], p[2]>>].waiting]
           stops(r) == [p \in Spots |-> At(r, p[1], p[2])]
           tapes == [r \in Route |-> OfTape(r)]
<1>1. IsFiniteSet(Cohort) /\ (\A c \in Cohort : Trip(c) \in CohortType)
      /\ waiting \in [Cohort -> Nat]
  BY DayFacts DEF KInv, Riders, RidersNow
<1>2. IsFiniteSet(Route) /\ IsFiniteSet(Spots)
  <2>1. IsFiniteSet(0 .. LastStop)
    BY RouteAssumption, FS_Interval
  <2>2. IsFiniteSet({1, -1})
    <3>1. IsFiniteSet({1} \cup {-1})
      BY FS_Singleton, FS_AddElement
    <3>2. {1, -1} = {1} \cup {-1}
      OBVIOUS
    <3> QED
      BY <3>1, <3>2
  <2> QED
    BY <2>1, <2>2, RouteAssumption, FS_Product
<1>3. \A c \in Cohort : /\ Trip(c).route \in Route
                        /\ <<Trip(c).direction, Trip(c).origin>> \in Spots
  BY <1>1 DEF CohortType
<1>4. \A c \in Cohort : waiting[c] \in Int
  BY <1>1
<1>5. ASSUME NEW r \in Route PROVE shown[r] = SumFunctionOnSet(waiting, tapes[r])
  <2>1. shown[r] = SumFunctionOnSet(cells(r), Spots)
    <3>1. shown[r] = SumFunction(cells(r))
      BY SnapshotIs
    <3> QED
      BY <3>1, SumWhole
  <2>2. \A p \in Spots : cells(r)[p] = SumFunctionOnSet(waiting, stops(r)[p])
    <3> TAKE p \in Spots
    <3>1. p[1] \in {1, -1} /\ p[2] \in 0 .. LastStop
      OBVIOUS
    <3>2. cells(r)[p] = QueueCells[<<r, p[1], p[2]>>].waiting
      OBVIOUS
    <3>3. QueueCells[<<r, p[1], p[2]>>].waiting = SumFunctionOnSet(waiting, At(r, p[1], p[2]))
      BY <3>1, QueueShown
    <3>4. stops(r)[p] = At(r, p[1], p[2])
      OBVIOUS
    <3> QED
      BY <3>2, <3>3, <3>4
  <2>3. /\ tapes[r] = {c \in Cohort : Trip(c).route = r}
        /\ \A p \in Spots : stops(r)[p] = {c \in Cohort :
             Trip(c).route = r /\ Trip(c).direction = p[1] /\ Trip(c).origin = p[2]}
    BY DEF OfTape, At
  <2>4. /\ stops(r) \in [Spots -> SUBSET tapes[r]]
        /\ \A p, q \in Spots : p # q => stops(r)[p] \cap stops(r)[q] = {}
        /\ \A c \in tapes[r] : \E p \in Spots : c \in stops(r)[p]
    <3>1. \A p \in Spots : p = <<p[1], p[2]>>
      OBVIOUS
    <3>2. stops(r) \in [Spots -> SUBSET tapes[r]]
      <4>1. \A p \in Spots : stops(r)[p] \in SUBSET tapes[r]
        <5> HIDE DEF stops, tapes, Spots
        <5> QED
          BY <2>3
      <4>2. stops(r) = [p \in Spots |-> stops(r)[p]]
        OBVIOUS
      <4> HIDE DEF stops, tapes, Spots
      <4> QED
        BY <4>1, <4>2
    <3>3. ASSUME NEW c \in tapes[r] PROVE \E p \in Spots : c \in stops(r)[p]
      <4>1. /\ c \in Cohort /\ <<Trip(c).direction, Trip(c).origin>> \in Spots
            /\ Trip(c).route = r
        BY <1>3, <2>3
      <4> QED
        BY <2>3, <4>1
    <3>4. ASSUME NEW p \in Spots, NEW q \in Spots, p # q
          PROVE  stops(r)[p] \cap stops(r)[q] = {}
      <4>1. p[1] # q[1] \/ p[2] # q[2]
        BY <3>1, <3>4
      <4> HIDE DEF stops, tapes
      <4> QED
        BY <2>3, <4>1
    <3> QED
      BY <3>2, <3>3, <3>4
  <2>5. IsFiniteSet(tapes[r]) /\ \A c \in tapes[r] : waiting[c] \in Int
    BY <1>1, <1>4, <2>3, FS_Subset
  <2> HIDE DEF shown, cells, stops, tapes, Spots
  <2> QED
    <3>1. Parted(tapes[r], Spots, stops(r), waiting, cells(r))
      BY <1>2, <2>2, <2>4, <2>5 DEF Parted
    <3> QED
      BY <2>1, <3>1, SumParts
<1>6. /\ tapes \in [Route -> SUBSET Cohort]
      /\ \A r, q \in Route : r # q => tapes[r] \cap tapes[q] = {}
      /\ \A c \in Cohort : \E r \in Route : c \in tapes[r]
  BY <1>3 DEF OfTape
<1>7. SumFunction(shown) = SumFunctionOnSet(shown, Route)
  BY SumWhole
<1>8. totals.waiting = SumFunctionOnSet(waiting, Cohort)
  <2>1. CountersMatch
    BY KInvCountersMatch
  <2>2. totals.waiting = SumFunction(waiting)
    BY <2>1 DEF CountersMatch
  <2> QED
    BY <1>1, <2>2, SumWhole
<1> HIDE DEF shown, tapes
<1>9. SumFunctionOnSet(shown, Route) = SumFunctionOnSet(waiting, Cohort)
  <2>1. Parted(Cohort, Route, tapes, waiting, shown)
    BY <1>1, <1>2, <1>4, <1>5, <1>6 DEF Parted
  <2> QED
    BY <2>1, SumParts
<1> QED
  BY <1>7, <1>8, <1>9 DEF shown

\* A bus of no route is empty, at the depot or on its way there.
LEMMA ReserveIsEmpty ==
  ASSUME KInv, NEW b \in Bus, bus[b].route = NoRoute
  PROVE  load[b] = 0 /\ Status(b) \in {"depot", "deadhead"}
<1>1. /\ bus[b] \in VehicleType /\ MissionInv(bus[b]) /\ RidersOn(bus[b], aboard[b])
      /\ RidersNow \in Riders /\ day \in Days
  BY DEF KInv, Inv, TypeOK, MissionsMakeSense
<1>2. IsFiniteSet(Cohort) /\ \A c \in Cohort : Trip(c).route \in Route
  BY <1>1, DayFacts DEF CohortType
<1>3. aboard[b] \in [Cohort -> Nat]
  BY <1>1 DEF Riders, RidersNow
<1>4. \A c \in Cohort : aboard[b][c] = 0
  BY <1>1, <1>2, <1>3, RouteAssumption DEF RidersOn
<1>5. load[b] = SumFunctionOnSet(aboard[b], Cohort)
  <2>1. load[b] = SumFunction(aboard[b])
    BY KInvCountersMatch DEF CountersMatch
  <2> QED
    BY <1>3, <2>1, SumWhole
<1>6. load[b] = 0
  BY <1>2, <1>4, <1>5, SumZero
<1>7. bus[b].phase \in {"DEPOT_IDLE", "DEADHEAD"}
  BY <1>1, RouteAssumption DEF MissionInv
<1>8. ~(load[b] > Comfort)
  BY <1>6, AccountAssumption
<1> QED
  BY <1>6, <1>7, <1>8 DEF Status

\* What is shown of some buses.
Views(S) == {BusShown(b) : b \in S}

\* Different buses look different.
LEMMA ViewsDiffer ==
  /\ \A b : BusShown(b).id = b /\ BusShown(b).load = load[b] /\ BusShown(b).status = Status(b)
  /\ \A b, c : BusShown(b) = BusShown(c) => b = c
<1>1. \A b : BusShown(b).id = b /\ BusShown(b).load = load[b] /\ BusShown(b).status = Status(b)
  BY DEF BusShown
<1> HIDE DEF BusShown
<1> QED
  BY <1>1

\* There is one view for each bus.
LEMMA OneViewEach ==
  ASSUME NEW S, IsFiniteSet(S)
  PROVE  /\ [b \in S |-> BusShown(b)] \in Bijection(S, Views(S))
         /\ IsFiniteSet(Views(S))
<1> DEFINE F == [b \in S |-> BusShown(b)]
<1>1. F \in Bijection(S, Views(S))
  BY ViewsDiffer DEF Views, Bijection, Injection, Surjection, IsInjective
<1>2. F \in Surjection(S, Views(S))
  BY <1>1 DEF Bijection
<1> HIDE DEF F
<1>3. IsFiniteSet(Views(S))
  BY <1>2, FS_Surjection
<1> QED
  BY <1>1, <1>3 DEF F

\* Buses in order are shown in order.
LEMMA ShownInOrder ==
  ASSUME NEW S, IsFiniteSet(S), NEW order, Lists(order, S)
  PROVE  Lists(Each(order, BusShown), Views(S))
<1> DEFINE F == [b \in S |-> BusShown(b)]
           m == Each(order, BusShown)
<1>1. \A i \in DOMAIN order : order[i] \in S
  BY SeqElements DEF Lists
<1>2. DOMAIN m = DOMAIN order /\ m = [i \in DOMAIN order |-> F[order[i]]]
  BY <1>1 DEF Each
<1>3. F \in Bijection(S, Views(S))
  BY OneViewEach
<1> HIDE DEF F, m
<1>4. Lists(m, Views(S))
  BY <1>2, <1>3, ListsMapped
<1> QED
  BY <1>4 DEF m

\* Every bus is shown once.
LEMMA AllAreShown ==
  ASSUME Inv
  PROVE  Lists(ShownBuses(Snapshot), Views(Bus))
<1> DEFINE n == Cardinality(Route)
           Of(r) == {b \in Bus : bus[b].route = r}
           U == Views(Bus)
           part == [i \in 1 .. n |-> Views(Of(RouteOrder[i]))]
           s == [i \in DOMAIN RouteOrder |-> Snapshot.routes[RouteOrder[i]].buses]
           Rest == Of(NoRoute)
           Some == {x \in U : \E i \in 1 .. n : x \in part[i]}
<1>1. /\ IsFiniteSet(Bus) /\ Bus \in SUBSET Nat /\ n \in Nat
      /\ DOMAIN RouteOrder = 1 .. n
      /\ \A i \in 1 .. n : RouteOrder[i] \in Route
      /\ \A i, j \in 1 .. n : RouteOrder[i] = RouteOrder[j] => i = j
      /\ \A r \in Route : \E i \in 1 .. n : RouteOrder[i] = r
  BY Orders, FleetAssumption DEF Lists
<1>2. \A b \in Bus : bus[b].route \in Route \cup {NoRoute}
  BY DEF Inv, TypeOK, VehicleType
<1>3. \A r : IsFiniteSet(Of(r)) /\ Of(r) \in SUBSET Nat
  BY <1>1, FS_Subset
<1>4. IsFiniteSet(U)
  BY <1>1, OneViewEach
<1>5. \A i \in 1 .. n : Lists(s[i], part[i])
  <2> TAKE i \in 1 .. n
  <2> DEFINE r == RouteOrder[i]
  <2>1. s[i] = Each(OfRoute(r), BusShown)
    BY <1>1, SnapshotIs
  <2>2. OfRoute(r) = ByNumber(Of(r))
    BY DEF OfRoute
  <2>3. Lists(OfRoute(r), Of(r))
    BY <1>3, <2>2, Numbers
  <2>4. part[i] = Views(Of(r))
    OBVIOUS
  <2> HIDE DEF Of, r, s, part
  <2>5. Lists(Each(OfRoute(r), BusShown), Views(Of(r)))
    BY <1>3, <2>3, ShownInOrder
  <2> QED
    BY <2>1, <2>4, <2>5
<1>6. part \in [1 .. n -> SUBSET U]
  BY DEF Views
<1>7. \A i, j \in 1 .. n : i # j => part[i] \cap part[j] = {}
  <2> SUFFICES ASSUME NEW i \in 1 .. n, NEW j \in 1 .. n,
                      NEW b \in Of(RouteOrder[i]), NEW c \in Of(RouteOrder[j]),
                      BusShown(b) = BusShown(c)
               PROVE  i = j
    BY DEF Views
  <2>1. b = c
    BY ViewsDiffer
  <2> QED
    BY <1>1, <2>1
<1>8. DOMAIN s = 1 .. n /\ s = [i \in 1 .. n |-> s[i]]
  BY <1>1
<1>9. Lists(Each(ReserveQueue, BusShown), Views(Rest))
  BY <1>3, ReserveListed, ShownInOrder
<1>10. Some \cap Views(Rest) = {} /\ Some \cup Views(Rest) = U
  <2>1. \A x : x \in Some <=> \E i \in 1 .. n : x \in Views(Of(RouteOrder[i]))
    BY <1>6
  <2>2. Some = Views({b \in Bus : bus[b].route \in Route})
    BY <1>1, <2>1 DEF Views
  <2>3. Views({b \in Bus : bus[b].route \in Route}) \cap Views(Rest) = {}
    BY ViewsDiffer, RouteAssumption DEF Views
  <2>4. Views({b \in Bus : bus[b].route \in Route}) \cup Views(Rest) = U
    BY <1>2 DEF Views
  <2> QED
    BY <2>2, <2>3, <2>4
<1>11. IsFiniteSet(Some) /\ IsFiniteSet(Views(Rest))
  BY <1>4, <1>10, FS_Subset
<1>12. ShownBuses(Snapshot) = FlattenSeq(s) \o Each(ReserveQueue, BusShown)
  BY SnapshotIs DEF ShownBuses
<1> HIDE DEF s, part, U, Of
<1>13. Lists(FlattenSeq(s), Some)
  BY <1>1, <1>4, <1>5, <1>6, <1>7, <1>8, FlattenLists
<1> HIDE DEF Some, Rest
<1>14. Lists(FlattenSeq(s) \o Each(ReserveQueue, BusShown), Some \cup Views(Rest))
  BY <1>9, <1>10, <1>11, <1>13, ListsJoined
<1> QED
  BY <1>10, <1>12, <1>14 DEF U

\* The buses shown, by their ids, are all buses, and their loads those on board.
LEMMA LoadsAddUp ==
  ASSUME KInv, NEW shown, Lists(shown, Views(Bus)),
         NEW carried, carried = [i \in DOMAIN shown |-> shown[i].load]
  PROVE  /\ SumFunction(carried) = totals.onboard
         /\ Len(shown) = Cardinality(Bus)
         /\ {shown[i].id : i \in DOMAIN shown} = Bus
<1> DEFINE F == [x \in Views(Bus) |-> x.id]
           ids == [i \in DOMAIN shown |-> F[shown[i]]]
<1>1. IsFiniteSet(Bus) /\ IsFiniteSet(Views(Bus))
  BY FleetAssumption, OneViewEach
<1>2. F \in Bijection(Views(Bus), Bus)
  <2>1. \A x \in Views(Bus) : \E b \in Bus : x = BusShown(b) /\ F[x] = b
    BY ViewsDiffer DEF Views
  <2>2. \A b \in Bus : BusShown(b) \in Views(Bus) /\ F[BusShown(b)] = b
    BY ViewsDiffer DEF Views
  <2>3. F = [x \in Views(Bus) |-> F[x]]
    OBVIOUS
  <2> HIDE DEF F
  <2>4. F \in [Views(Bus) -> Bus]
    BY <2>1, <2>3
  <2>5. \A x, y \in Views(Bus) : F[x] = F[y] => x = y
    BY <2>1
  <2> QED
    BY <2>2, <2>4, <2>5 DEF Bijection, Injection, Surjection, IsInjective
<1>3. \A i \in DOMAIN shown : \E b \in Bus : shown[i] = BusShown(b)
  BY SeqElements DEF Lists, Views
<1>4. \A i \in DOMAIN shown : ids[i] = shown[i].id /\ carried[i] = load[ids[i]]
  BY <1>3, ViewsDiffer DEF Views
<1>5. DOMAIN ids = DOMAIN shown
  OBVIOUS
<1> HIDE DEF F
<1>6. Lists(ids, Bus)
  BY <1>1, <1>2, ListsMapped
<1> HIDE DEF ids
<1>7. \A b \in Bus : load[b] \in Int
  BY FleetAssumption DEF KInv, Inv, TypeOK
<1>8. SumFunctionOnSet(carried, DOMAIN ids) = SumFunctionOnSet(load, Bus)
  BY <1>1, <1>4, <1>5, <1>6, <1>7, SumListed
<1>9. SumFunction(carried) = SumFunctionOnSet(carried, DOMAIN ids)
  BY <1>5, SumWhole
<1>10. totals.onboard = SumFunctionOnSet(load, Bus)
  <2>1. totals.onboard = SumFunction(load)
    BY KInvCountersMatch DEF CountersMatch
  <2>2. DOMAIN load = Bus
    BY DEF KInv, Inv, TypeOK
  <2> QED
    BY <2>1, <2>2, SumWhole
<1>11. Len(shown) = Cardinality(Bus)
  <2>1. DOMAIN shown = 1 .. Len(shown) /\ Len(shown) \in Nat
    BY DEF Lists
  <2>2. DOMAIN ids = 1 .. Len(ids) /\ Len(ids) = Cardinality(Bus) /\ Len(ids) \in Nat
    BY <1>6 DEF Lists
  <2> QED
    BY <1>5, <2>1, <2>2
<1>12. {shown[i].id : i \in DOMAIN shown} = Bus
  <2>1. /\ \A i \in DOMAIN ids : ids[i] \in Bus
        /\ \A b \in Bus : \E i \in DOMAIN ids : ids[i] = b
    BY <1>6, SeqElements DEF Lists
  <2> QED
    BY <1>4, <1>5, <2>1
<1> QED
  BY <1>8, <1>9, <1>10, <1>11, <1>12

\* Where a bus can be dispatched, the first of the reserve can.
LEMMA FirstIsReady ==
  ASSUME KInv, NEW b \in Bus, CanDispatch(b)
  PROVE  1 \in DOMAIN ReserveQueue /\ CanDispatch(ReserveQueue[1])
<1> DEFINE a == ReserveQueue[1]
<1>1. Inv /\ now \in Nat
  BY DEF KInv, Inv, TypeOK
<1>2. bus[b].route = NoRoute /\ bus[b].phase = "DEPOT_IDLE" /\ bus[b].cooldownUntil <= now
  BY <1>1 DEF CanDispatch, Inv, TypeOK, VehicleType, MissionsMakeSense, MissionInv
<1>3. 1 \in DOMAIN ReserveQueue /\ ~Earlier(ReserveKey(b), ReserveKey(a))
      /\ Lists(ReserveQueue, {c \in Bus : bus[c].route = NoRoute})
  BY <1>1, <1>2, ReserveListed
<1>4. a \in Bus
  BY <1>3, SeqElements DEF Lists
<1> HIDE DEF a
<1>5. bus[a] \in VehicleType /\ bus[b] \in VehicleType
  BY <1>1, <1>4 DEF Inv, TypeOK
<1>6. bus[a].phase = "DEPOT_IDLE"
  BY <1>2, <1>3 DEF Earlier, ReserveKey
<1>7. bus[a].cooldownUntil <= bus[b].cooldownUntil
  BY <1>2, <1>3, <1>5, <1>6 DEF Earlier, ReserveKey, VehicleType
<1>8. now >= bus[a].cooldownUntil
  BY <1>1, <1>2, <1>5, <1>7 DEF VehicleType
<1> QED
  BY <1>3, <1>6, <1>8 DEF CanDispatch, a

\* What the dashboard derives on its own from a snapshot agrees with the counters next
\* to it, shows every bus once, puts a bus that can leave first in the reserve, and
\* finds the place of every moving bus.
THEOREM DashboardIsTrue == AccSpec => []DashboardAddsUp
<1>1. AccInv /\ EdgesInv => DashboardAddsUp
  <2> SUFFICES ASSUME AccInv, EdgesInv PROVE DashboardAddsUp
    OBVIOUS
  <2> DEFINE s == Snapshot
             shown == ShownBuses(s)
             carried == [i \in DOMAIN shown |-> shown[i].load]
  <2>1. KInv /\ Inv
    BY DEF AccInv, KInv
  <2>2. SumFunction([r \in Route |-> s.routes[r].waiting]) = s.counters.waiting
    BY <2>1, QueuesAddUp, SnapshotIs
  <2>3. Lists(shown, Views(Bus))
    BY <2>1, AllAreShown
  <2>4. s.counters = totals
    BY SnapshotIs
  <2>5. /\ DOMAIN s.reserve = DOMAIN ReserveQueue
        /\ \A i \in DOMAIN ReserveQueue : s.reserve[i] = BusShown(ReserveQueue[i])
    BY SnapshotIs DEF Each
  <2>6. \A i \in DOMAIN ReserveQueue : ReserveQueue[i] \in {b \in Bus : bus[b].route = NoRoute}
    BY <2>1, ReserveListed, SeqElements DEF Lists
  <2>7. \A i \in DOMAIN s.reserve :
          s.reserve[i].load = 0 /\ s.reserve[i].status \in {"depot", "deadhead"}
    <3> TAKE i \in DOMAIN s.reserve
    <3>1. PICK b \in Bus : s.reserve[i] = BusShown(b) /\ bus[b].route = NoRoute
      BY <2>5, <2>6
    <3> QED
      BY <2>1, <3>1, ReserveIsEmpty, ViewsDiffer
  <2>8. (\E b \in Bus : CanDispatch(b)) => CanDispatch(s.reserve[1].id)
    <3> SUFFICES ASSUME NEW b \in Bus, CanDispatch(b) PROVE CanDispatch(s.reserve[1].id)
      OBVIOUS
    <3>1. s.reserve[1].id = ReserveQueue[1]
      BY <2>1, <2>5, FirstIsReady, ViewsDiffer
    <3> QED
      BY <2>1, <3>1, FirstIsReady
  <2>9. \A b \in Bus : bus[b].phase = "SERVICE_MOVING" =>
          Entries(bus[b]) # {} /\ bus[b].remaining <= EdgeShown(bus[b])
    BY <2>1, EdgeIsKnown
  <2> HIDE DEF s, shown
  <2>10. /\ SumFunction(carried) = s.counters.onboard
         /\ Len(shown) = Cardinality(Bus)
         /\ {shown[i].id : i \in DOMAIN shown} = Bus
    BY <2>1, <2>3, <2>4, LoadsAddUp
  <2> QED
    BY <2>2, <2>7, <2>8, <2>9, <2>10 DEF DashboardAddsUp, s, shown
<1> QED
  BY <1>1, AccInvariance, AccountsKeepKernel, EdgesInvariance, PTL DEF AccSpec

=============================================================================
