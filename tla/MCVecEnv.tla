------------------------------- MODULE MCVecEnv -------------------------------
(* Two slots and two days of different length, for TLC, with shaping. *)
EXTENDS Shaping

MCLength == [d \in Day |-> d + 2]
MCPotential == [d \in Day |-> [run \in 0 .. d + 2 |-> -(2 * d + run + 1)]]
=============================================================================
