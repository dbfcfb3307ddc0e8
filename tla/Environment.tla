------------------------------ MODULE Environment ------------------------------
(***************************************************************************)
(* What the environments over the batch kernel have in common              *)
(* (src/bus_rl/execution/environments): requests are turned into actions   *)
(* that can be executed, and observations get a long arrival memory and,   *)
(* where a forecaster is given, a forecast.                                *)
(***************************************************************************)
EXTENDS BatchKernel, Sequences, SequencesExt

CONSTANTS
  Bins,            \* bins of the arrival memory, more than the native five
  InvalidAction,   \* action_execution.invalid_action
  MaskMode         \* algorithm.mask_mode

ASSUME EnvironmentAssumption ==
  /\ Bins \in Nat \ {0}
  /\ InvalidAction \in {"error", "noop"}
  /\ MaskMode \in {"apply", "free"}
  /\ MaskMode = "free" => InvalidAction = "noop"

VARIABLE memory    \* arrival_memory.values

\* execute_requests turns the whole batch down before anything is touched.
TurnedDown(masks, request) ==
  /\ \E s \in DOMAIN request : request[s] \notin masks[s]
  /\ InvalidAction = "error" \/ MaskMode = "apply"

\* Otherwise an infeasible request is executed as NOOP.
Executed(masks, request) ==
  [s \in DOMAIN request |->
     IF request[s] \in masks[s] THEN request[s] ELSE Noop]

\* The arrivals of the interval that has just been run.
Arrivals(e) == <<e.day, e.run>>

Nothing == <<None, 0>>

\* ArrivalMemory.values: per slot, the arrivals of the last intervals.
Blank == [i \in 1 .. Bins |-> Nothing]

\* Slip: a reset does not clear the memory of the slot.
ClearedNever(M, S) == M

Cleared(M, S) == Updated(M, [s \in S |-> Blank])

Pushed(M, S, K) ==
  Updated(M, [s \in S |-> <<Arrivals(K.episode[s])>> \o Front(M[s])])

\* An observation: the state it was taken in, the memory, and whether a
\* forecast was added (postprocess_observations).
Observation(K, M, s, forecast) ==
  [day |-> K.episode[s].day, run |-> K.episode[s].run, memory |-> M[s],
   forecast |-> forecast]

\* What the memory must hold after run intervals of day d.
History(d, run) ==
  [i \in 1 .. Bins |-> IF i <= run THEN <<d, run - i + 1>> ELSE Nothing]
=============================================================================
