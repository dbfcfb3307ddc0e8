------------------------------- MODULE MCDataset -------------------------------
(* Two days of validation and one with a burst, four ticks, for TLC.         *)
EXTENDS Dataset

MCSplit == [i \in Item |-> IF i \in Bursty THEN "burst" ELSE "validation"]
\* The fleets of the base configuration and one that is turned down.
MCConfigs == {[routes |-> 3, fleet |-> 12], [routes |-> 3, fleet |-> 8]}
\* A burst takes one of these to the limit of a cell, another beyond it.
MCDemands == {<<5, 119>>, <<119, 5>>}
MCDrawn == {[t \in 0 .. DemandEnd - 1 |-> d[t + 1]] : d \in MCDemands}
MCBursts == {[extra |-> 8, start |-> 0, length |-> 1],
             [extra |-> 20, start |-> 1, length |-> 2]}
\* Two of the four combinations of the switches.
MCControls == {[reassign |-> TRUE, shortTurn |-> TRUE],
               [reassign |-> TRUE, shortTurn |-> FALSE]}
=============================================================================
