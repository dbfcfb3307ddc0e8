------------------------------ MODULE MCKernel ------------------------------
(* Two routes, five buses (one of them at the depot) and a handful of       *)
(* passengers, for TLC.  The days differ in who travels (a crowd at one     *)
(* terminal; passengers at every stop in both directions) and in the travel *)
(* times.                                                                   *)
EXTENDS Dashboard

MCTurnStop == [r \in Route |-> 1]
MCHomeRoute == [b \in Bus |-> IF b <= 2 THEN 1 ELSE IF b = 3 THEN 2 ELSE NoRoute]
MCHomeStop == [b \in Bus |-> IF b = 2 THEN LastStop ELSE 0]

Group(r, d, i, j, t, n) ==
  [route |-> r, direction |-> d, origin |-> i, destination |-> j,
   tick |-> t, count |-> n]

Edges == Route \X (0 .. LastStop - 1) \X (0 .. Buckets - 1)

\* A crowd larger than a bus at the first stop of route 1, short and long trips.
Crowd == <<Group(1, 1, 0, 1, 0, 1), Group(1, 1, 0, 2, 0, 2),
           Group(1, 1, 1, 2, 1, 1), Group(1, 1, 0, 1, 1, 1),
           Group(1, -1, 2, 0, 2, 1)>>

\* Single passengers at all stops of route 1, some of them at the turning point.
Spread == <<Group(1, -1, 1, 0, 0, 1), Group(1, 1, 0, 2, 1, 1),
            Group(1, 1, 1, 2, 1, 2), Group(1, -1, 1, 0, 2, 1),
            Group(2, 1, 0, 2, 2, 5), Group(1, -1, 2, 1, 3, 2)>>

\* The first edge of each route is slow at first on the second day.
MCDays ==
  {[arrivals |-> Crowd, traffic |-> [e \in Edges |-> 1]],
   [arrivals |-> Spread,
    traffic |-> [e \in Edges |-> IF e[2] = 0 /\ e[3] = 0 THEN 2 ELSE 1]]}

MCHeadwayFor == <<2, 2, 5>>
MCPriorWeight == <<6, 4>>

\* RewardConfig, times four.
MCReward ==
  [waiting |-> 4, onboard |-> 1, crowding |-> 2, active |-> 2, deadhead |-> 2,
   fairness |-> 4, first_denied |-> 20, abandoned |-> 240, mission |-> 8,
   unfinished |-> 240]
=============================================================================
