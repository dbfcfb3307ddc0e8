------------------------------- MODULE MCFleet -------------------------------
(* A small fleet for TLC: route 1 has three buses at its first stop, one more *)
(* than the donor guard wants to stay, and a reserve bus of a higher id, so    *)
(* that several extra departures wait at one terminal and one of them may be   *)
(* recalled; the bus of route 2 stands at its last stop.                       *)
EXTENDS Fleet

MCTurnStop == [r \in Route |-> 1]
MCHomeRoute == [b \in Bus |-> IF b \in 0 .. 2 THEN 1 ELSE IF b = 3 THEN NoRoute ELSE 2]
MCHomeStop == [b \in Bus |-> IF b = 4 THEN LastStop ELSE 0]
=============================================================================
