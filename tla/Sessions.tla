------------------------------- MODULE Sessions -------------------------------
(***************************************************************************)
(* What the station service promises of its sessions, whatever its request *)
(* threads do: at most Limit of them are open, a session that has been     *)
(* removed never comes back, its day advances one decision at a time up to *)
(* the horizon, and nothing happens to it any more once it is closed.      *)
(* (src/bus_rl/station/service.py, SimulationService)                      *)
(***************************************************************************)
EXTENDS Naturals, FiniteSets

CONSTANTS Id, Limit, DayLength

VARIABLES
  status,   \* "new", "open", "removed" (no longer served) or "closed"
  day       \* decisions taken in each session

Open == {i \in Id : status[i] = "open"}

Init ==
  /\ status = [i \in Id |-> "new"]
  /\ day = [i \in Id |-> 0]

Create(i) ==
  /\ status[i] = "new"
  /\ Cardinality(Open) < Limit
  /\ status' = [status EXCEPT ![i] = "open"]
  /\ UNCHANGED day

\* A request that is already under way may play on after the removal.
Play(i) ==
  /\ status[i] \in {"open", "removed"}
  /\ day[i] < DayLength
  /\ day' = [day EXCEPT ![i] = @ + 1]
  /\ UNCHANGED status

Remove(S) ==
  /\ status' = [i \in Id |-> IF i \in S THEN "removed" ELSE status[i]]
  /\ UNCHANGED day

Close(i) ==
  /\ status[i] = "removed"
  /\ status' = [status EXCEPT ![i] = "closed"]
  /\ UNCHANGED day

Next ==
  \/ \E i \in Id : Create(i) \/ Play(i) \/ Close(i)
  \/ \E S \in SUBSET Open : Remove(S)

Spec == Init /\ [][Next]_<<status, day>>
=============================================================================
