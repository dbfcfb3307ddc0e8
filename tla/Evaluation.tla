------------------------------ MODULE Evaluation ------------------------------
(***************************************************************************)
(* Batched evaluation over one native pool (evaluation/runner.py,          *)
(* _evaluate_batched_native, and rust/batch.py, NativeBatchEvalPool).      *)
(*                                                                         *)
(* Days are evaluated in chunks of as many as the pool has slots; in a     *)
(* chunk, day offset + s runs in slot s until it is over, and the slots    *)
(* that are not done are stepped together.  The arrays that a step returns *)
(* hold a row per stepped slot, in the order of the slots.  The pool may   *)
(* be used again, also after an evaluation that failed.                    *)
(***************************************************************************)
EXTENDS Environment

CONSTANTS
  Days,          \* n_days; the days are 0 .. Days - 1
  Evaluations    \* bound: evaluations over the pool

ASSUME EvaluationAssumption ==
  /\ Days \in Nat \ {0}
  /\ Day = 0 .. Days - 1
  /\ Capacity <= Days
  /\ Evaluations \in Nat

VARIABLES
  phase,     \* "idle", "running", "returned" or "raised"
  offset,    \* the first day of the chunk
  slots,     \* per slot of the chunk: its day, observation, costs, done
  masks,     \* the masks the runner chooses under, per slot of the chunk
  records,   \* per day: the costs that were added up for it
  budget     \* evaluations still to come

poolVars == <<kernel, memory>>
evalVars == <<kernel, memory, phase, offset, slots, masks, records, budget>>

NoRecords == [d \in Day |-> <<>>]

EvalInit ==
  /\ kernel = NewKernel
  /\ memory = [s \in Slot |-> Blank]
  /\ phase = "idle"
  /\ offset = 0
  /\ slots = <<>>
  /\ masks = <<>>
  /\ records = NoRecords
  /\ budget = Evaluations

\* The slots of the chunk at the offset; the last chunk may be short.
Chunk == {s \in Slot : offset + s < Days}

Active == {s \in DOMAIN slots : ~slots[s].done}

Begin ==
  /\ phase # "running"
  /\ budget > 0
  /\ budget' = budget - 1
  /\ phase' = "running"
  /\ offset' = 0
  /\ slots' = <<>>
  /\ masks' = <<>>
  /\ records' = NoRecords
  /\ UNCHANGED poolVars

\* pool.reset for the next chunk of days.
StartChunk ==
  /\ phase = "running"
  /\ slots = <<>>
  /\ offset < Days
  /\ \E feasible \in [Slot -> Feasible] :
       kernel' = ResetBatch(kernel, [s \in Chunk |-> offset + s], feasible)
  /\ memory' = Cleared(memory, Chunk)
  /\ slots' = [s \in Chunk |->
       [day |-> offset + s, costs |-> <<>>, done |-> FALSE,
        obs |-> Observation(kernel', memory', s, TRUE)]]
  /\ masks' = [s \in Chunk |-> kernel'.mask[s]]
  /\ UNCHANGED <<phase, offset, records, budget>>

\* What the controllers may request: learned ones apply the mask, or do not
\* know of it.
Requests ==
  {request \in [Active -> Action] :
     MaskMode = "apply" => \A s \in Active : request[s] \in masks[s]}

\* The slots of S are listed in their order: the rank of s, and the p-th.
Rank(S, s) == Cardinality({x \in S : x <= s})

Nth(S, p) == CHOOSE s \in S : Rank(S, s) = p

\* The arrays of a step have a row for each active slot.
Row(K, M, s) ==
  [obs |-> Observation(K, M, s, FALSE), cost |-> Arrivals(K.episode[s]),
   mask |-> K.mask[s], over |-> Over(K.episode[s])]

Rows(K, M) == [p \in 1 .. Cardinality(Active) |-> Row(K, M, Nth(Active, p))]

\* Slip: the rows are taken to be those of the slots, done or not.
PositionAsSlot(S, s) == IF s < Cardinality(S) THEN s + 1 ELSE Cardinality(S)

\* enumerate(active): the row of slot s.
Position(S, s) == Rank(S, s)

Taken(rows) ==
  [s \in Active |->
     LET row == rows[Position(Active, s)]
     IN [slots[s] EXCEPT !.obs = row.obs, !.costs = Append(@, row.cost),
                         !.done = row.over]]

\* The days that the step ends are recorded under their own index.
Recorded(taken) ==
  [d \in Day |->
     LET ending == {s \in DOMAIN taken : taken[s].day = d /\ taken[s].done}
     IN IF ending = {} THEN records[d] ELSE taken[CHOOSE s \in ending : TRUE].costs]

\* One control step of the active slots.
StepChunk ==
  /\ phase = "running"
  /\ Active # {}
  /\ \E request \in Requests, feasible \in [Slot -> Feasible] :
       /\ ~TurnedDown(kernel.mask, request)
       /\ Validate(kernel, Executed(kernel.mask, request))
       /\ kernel' = StepBatch(kernel, Active, feasible)
  /\ memory' = Pushed(memory, Active, kernel')
  /\ LET rows == Rows(kernel', memory')
         taken == Taken(rows)
     IN /\ slots' = Updated(slots, taken)
        /\ masks' = Updated(masks, [s \in Active |-> rows[Position(Active, s)].mask])
        /\ records' = Recorded(taken)
  /\ UNCHANGED <<phase, offset, budget>>

\* The step fails in slot f, and the exception ends the evaluation.
StepRaises ==
  /\ phase = "running"
  /\ \E request \in Requests, feasible \in [Slot -> Feasible], f \in Active :
       /\ ~TurnedDown(kernel.mask, request)
       /\ Validate(kernel, Executed(kernel.mask, request))
       /\ kernel' = StepUpTo(kernel, Active, f, feasible)
  /\ phase' = "raised"
  /\ UNCHANGED <<memory, offset, slots, masks, records, budget>>

\* Slip: the offset is set to the length of the chunk, not advanced by it.
NextOffsetAssigned == Cardinality(DOMAIN slots)

NextOffset == offset + Cardinality(DOMAIN slots)

EndChunk ==
  /\ phase = "running"
  /\ slots # <<>>
  /\ Active = {}
  /\ offset' = NextOffset
  /\ slots' = <<>>
  /\ masks' = <<>>
  /\ UNCHANGED <<kernel, memory, phase, records, budget>>

\* The loop is over: a missing record is an error of its own.
Return ==
  /\ phase = "running"
  /\ slots = <<>>
  /\ offset >= Days
  /\ phase' = IF \E d \in Day : records[d] = <<>> THEN "raised" ELSE "returned"
  /\ UNCHANGED <<kernel, memory, offset, slots, masks, records, budget>>

\* What the runner does on its own once it is called.
Run == StartChunk \/ StepChunk \/ StepRaises \/ EndChunk \/ Return

EvalNext == Begin \/ Run

EvalSpec == EvalInit /\ [][EvalNext]_evalVars

\* The evaluation is a loop that nothing interrupts.
FairEvalSpec == EvalSpec /\ WF_evalVars(Run)

-----------------------------------------------------------------------------
(* Properties *)

\* An evaluation returns a record of every day, made of the costs of all
\* intervals of that day, in order, and of no other day, however the days end
\* and whatever the evaluation before it left in the pool.
RecordsEachDayItself ==
  phase = "returned" =>
    \A d \in Day : records[d] = [k \in 1 .. Length[d] |-> <<d, k>>]

\* The slots that will be stepped next have an interval to run, were not torn by
\* an error of an earlier evaluation, and the controller decides on their own
\* state, memory and mask.
StepsItsOwnDays ==
  phase = "running" =>
    \A s \in Active :
      LET e == kernel.episode[s]
      IN /\ ~Over(e) /\ ~e.torn
         /\ slots[s].obs.day = slots[s].day /\ e.day = slots[s].day
         /\ slots[s].obs.run = e.run
         /\ slots[s].obs.memory = History(e.day, e.run)
         /\ masks[s] = kernel.feasible[s]

\* Every evaluation ends, with a result or with an exception.
EvaluationEnds == phase = "running" ~> phase # "running"

\* What the pool says of its observations: "the same observation post-processing
\* (forecast + optional validation)" as the environment (rust/batch.py:8-11).
DecidesWithForecast ==
  phase = "running" => \A s \in Active : slots[s].obs.forecast
=============================================================================
