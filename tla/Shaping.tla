-------------------------------- MODULE Shaping --------------------------------
(***************************************************************************)
(* Potential-based shaping of the training reward                          *)
(* (src/bus_rl/learning/shaping.py), wrapped around the environment of     *)
(* module VecEnv.  Raw rewards cancel out of what is said here: only the   *)
(* difference that shaping makes to them is kept.                          *)
(***************************************************************************)
EXTENDS VecEnv

CONSTANTS
  Potential,   \* Potential[d][run]: minus the weighted queues of that state
  Gamma        \* the discount

ASSUME ShapingAssumption ==
  /\ Gamma \in Nat
  /\ \A d \in Day : Potential[d] \in [0 .. Length[d] -> Int]

VARIABLES
  previous,   \* _previous_potential, <<>> before the first reset
  added,      \* per slot, what shaping has added to the discounted return
  weight      \* per slot, Gamma to the power of the intervals run: what the
              \* next reward counts in that return

shapedVars == <<envVars, previous, added, weight>>

\* potential_from_observation, per slot.
PotentialOf(o) == [s \in Slot |-> Potential[o[s].day][o[s].run]]

\* Slip: the potential carried on is the one the reward was made with.
CarriedTerminal(next, ended) == [s \in Slot |-> IF s \in ended THEN 0 ELSE next[s]]

\* The next decision is taken in the state after an automatic reset.
Carried(next, ended) == next

ShapedInit ==
  /\ EnvInit
  /\ previous = <<>>
  /\ added = [s \in Slot |-> 0]
  /\ weight = [s \in Slot |-> 1]

ShapedReset ==
  /\ EnvReset
  /\ previous' = PotentialOf(obs')
  /\ added' = [s \in Slot |-> 0]
  /\ weight' = [s \in Slot |-> 1]

\* The potential of a terminal state is zero.
ShapedStep ==
  LET next == PotentialOf(obs')
      reward(s) == Gamma * (IF s \in done' THEN 0 ELSE next[s]) - previous[s]
  IN /\ previous # <<>>
     /\ StepWait
     /\ previous' = Carried(next, done')
     /\ added' = [s \in Slot |->
          (IF s \in done THEN 0 ELSE added[s]) + weight[s] * reward(s)]
     /\ weight' = [s \in Slot |-> IF s \in done' THEN 1 ELSE Gamma * weight[s]]

ShapedFails ==
  /\ previous # <<>>
  /\ StepFails
  /\ UNCHANGED <<previous, added, weight>>

ShapedNext == ShapedReset \/ ShapedStep \/ ShapedFails

ShapedSpec == ShapedInit /\ [][ShapedNext]_shapedVars

-----------------------------------------------------------------------------
(* Properties *)

\* What shaping must not do is change which policy is best: over an episode, it
\* adds the same to every discounted return, minus the potential of the first
\* state, whatever came before in the slot and however the episode went.
ShapingTelescopes ==
  [][previous' # <<>> /\ previous # <<>> /\ ~kernel'.poisoned =>
       \A s \in Slot :
         LET start == Potential[obs[s].day][0]
         IN IF s \in done' THEN added'[s] = -start
            ELSE obs'[s].run > 0 =>
                 added'[s] = weight'[s] * Potential[obs'[s].day][obs'[s].run]
                               - start]_shapedVars
=============================================================================
