------------------------------ MODULE BatchKernel ------------------------------
(***************************************************************************)
(* The batch kernel of the Python bridge (crates/bus-sim-python, struct    *)
(* BatchKernel): episodes in numbered slots, a cached action mask for each *)
(* slot, and a flag that refuses steps after an internal error.            *)
(*                                                                         *)
(* A day is represented by how many of its intervals have been run, and by *)
(* the actions that are feasible in its present state, which may be any.   *)
(* An internal error (a failed conservation check, an action that          *)
(* apply_action refuses) strikes a slot in the middle of its interval: the *)
(* episode is torn.  The slots before it in the batch have advanced, those *)
(* after it have not.  Stepping a day that is over indexes past the event  *)
(* log (engine.rs:149) and ends the process (panic = "abort"), so no       *)
(* caller may do it.                                                       *)
(***************************************************************************)
EXTENDS Integers, FiniteSets

CONSTANTS
  Capacity,   \* number of slots
  Day,        \* indices of the scenarios in the store
  Length,     \* Length[d]: control intervals of day d
  Action,     \* action indices
  Noop,       \* action 0, feasible in every state
  None        \* no day

ASSUME BatchAssumption ==
  /\ Capacity \in Nat \ {0}
  /\ None \notin Day
  /\ Length \in [Day -> Nat \ {0}]
  /\ Noop \in Action

Slot == 0 .. Capacity - 1

\* old, with the entries that new has (new @@ old, in a form the provers expand).
Updated(old, new) ==
  [x \in DOMAIN old |-> IF x \in DOMAIN new THEN new[x] ELSE old[x]]

\* What can be feasible in a state.
Feasible == {A \in SUBSET Action : Noop \in A}

Unused == [day |-> None, run |-> 0, torn |-> FALSE]

Episode(d) == [day |-> d, run |-> 0, torn |-> FALSE]

Over(e) == e.run = Length[e.day]

\* feasible: the actions the state of each slot allows; mask: the cached masks.
NewKernel ==
  [episode |-> [s \in Slot |-> Unused], feasible |-> [s \in Slot |-> {}],
   mask |-> [s \in Slot |-> {}], poisoned |-> FALSE]

-----------------------------------------------------------------------------
(* Operations.  K is a kernel; feasible gives what the new states allow. *)

\* Slip: a reset starts the day and leaves the mask of the day before.
FreshMaskForgotten(K, S, feasible) == K.mask

FreshMask(K, S, feasible) == Updated(K.mask, [s \in S |-> feasible[s]])

\* reset_batch: days maps the slots to reset to their new days.
ResetBatch(K, days, feasible) ==
  [episode |-> Updated(K.episode, [s \in DOMAIN days |-> Episode(days[s])]),
   feasible |-> Updated(K.feasible, [s \in DOMAIN days |-> feasible[s]]),
   mask |-> FreshMask(K, DOMAIN days, feasible),
   poisoned |-> FALSE]

\* Slip: a poisoned kernel still steps.
ValidatePoisoned(K, request) ==
  \A s \in DOMAIN request : K.episode[s] # Unused /\ request[s] \in K.mask[s]

\* validate_batch: nothing is touched unless every slot can be stepped.
Validate(K, request) ==
  /\ ~K.poisoned
  /\ \A s \in DOMAIN request : K.episode[s] # Unused /\ request[s] \in K.mask[s]

\* step_one for the slots in S: one interval, and the mask of the new state.
Advance(K, S, feasible) ==
  [K EXCEPT
     !.episode = Updated(@, [s \in S |-> [K.episode[s] EXCEPT !.run = @ + 1]]),
     !.feasible = Updated(@, [s \in S |-> feasible[s]]),
     !.mask = Updated(@, [s \in S |-> feasible[s]])]

\* step_batch over the slots S in order, all of them, or up to an error in slot f.
StepBatch(K, S, feasible) == Advance(K, S, feasible)

StepUpTo(K, S, f, feasible) ==
  [Advance(K, {s \in S : s < f}, feasible) EXCEPT
     !.episode[f].torn = TRUE, !.feasible[f] = feasible[f], !.poisoned = TRUE]

VARIABLE kernel

-----------------------------------------------------------------------------
(* Properties *)

\* An episode that an internal error has torn in the middle of an interval
\* never runs on; only a reset ends it.
TornIsNotStepped ==
  [][\A s \in Slot : LET e == kernel.episode[s]
                     IN e.torn => kernel'.episode[s] = e
                                  \/ ~kernel'.episode[s].torn]_kernel
=============================================================================
