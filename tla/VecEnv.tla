-------------------------------- MODULE VecEnv --------------------------------
(***************************************************************************)
(* The training environment over the batch kernel                          *)
(* (src/bus_rl/execution/environments/rust/batch.py, NativeBatchVecEnv):   *)
(* every slot is stepped in every call, and a slot whose day is over is    *)
(* reset at once, with its last observation handed out beside the first    *)
(* one of the next day.                                                    *)
(***************************************************************************)
EXTENDS Environment

VARIABLES
  obs,        \* the observations last returned
  done,       \* the slots whose day ended in the last step
  terminal    \* info["terminal_observation"] of those slots

envVars == <<kernel, memory, obs, done, terminal>>

\* Observations of all slots, with their forecasts.
Returned(K, M) == [s \in Slot |-> Observation(K, M, s, TRUE)]

\* The constructor resets every slot.
EnvInit ==
  \E days \in [Slot -> Day], feasible \in [Slot -> Feasible] :
    /\ kernel = ResetBatch(NewKernel, days, feasible)
    /\ memory = [s \in Slot |-> Blank]
    /\ obs = Returned(kernel, memory)
    /\ done = {}
    /\ terminal = <<>>

EnvReset ==
  \E days \in [Slot -> Day], feasible \in [Slot -> Feasible] :
    /\ kernel' = ResetBatch(kernel, days, feasible)
    /\ memory' = Cleared(memory, Slot)
    /\ obs' = Returned(kernel', memory')
    /\ done' = {}
    /\ terminal' = <<>>

\* Slip: a day is only seen to be over one interval late.
EndingLate(K) == {s \in Slot : K.episode[s].run > Length[K.episode[s].day]}

\* The slots that report terminated.
Ending(K) == {s \in Slot : Over(K.episode[s])}

\* Slip: the terminal observation is taken after the automatic reset.
LastSeenAfterReset(K, M, next, nextMemory, ended) ==
  [s \in ended |-> Observation(next, nextMemory, s, FALSE)]

\* The terminal observations are those of the days that end, as they are
\* before the forecasts are added.
LastSeen(K, M, next, nextMemory, ended) ==
  [s \in ended |-> Observation(K, M, s, FALSE)]

\* step_wait, when nothing fails: step, remember, reset what is over, observe.
StepWait ==
  \E request \in [Slot -> Action], feasible \in [Slot -> Feasible] :
    /\ ~TurnedDown(kernel.mask, request)
    /\ Validate(kernel, Executed(kernel.mask, request))
    /\ LET K == StepBatch(kernel, Slot, feasible)
           M == Pushed(memory, Slot, K)
           ended == Ending(K)
       IN \E days \in [ended -> Day] :
            /\ kernel' = IF ended = {} THEN K ELSE ResetBatch(K, days, feasible)
            /\ memory' = Cleared(M, ended)
            /\ obs' = Returned(kernel', memory')
            /\ done' = ended
            /\ terminal' = LastSeen(K, M, kernel', memory', ended)

\* step_wait, when the kernel fails in slot f: the exception leaves everything
\* above the kernel as it was.
StepFails ==
  \E request \in [Slot -> Action], feasible \in [Slot -> Feasible], f \in Slot :
    /\ ~TurnedDown(kernel.mask, request)
    /\ Validate(kernel, Executed(kernel.mask, request))
    /\ kernel' = StepUpTo(kernel, Slot, f, feasible)
    /\ UNCHANGED <<memory, obs, done, terminal>>

EnvNext == EnvReset \/ StepWait \/ StepFails

EnvSpec == EnvInit /\ [][EnvNext]_envVars

-----------------------------------------------------------------------------
(* Properties *)

\* The kernel is never asked to step a day that is over, which would end the
\* process: wherever a step can be taken, every slot has an interval to run and
\* is not torn.
StepsOnlyLiveDays ==
  ~kernel.poisoned =>
    \A s \in Slot : ~Over(kernel.episode[s]) /\ ~kernel.episode[s].torn

\* What the policy decides on belongs together: the observation of a slot, its
\* arrival memory and its action mask are all of the state the kernel will step,
\* across automatic resets, and the memory holds nothing of an earlier day.
DecidesOnTheState ==
  ~kernel.poisoned =>
    \A s \in Slot :
      LET e == kernel.episode[s]
      IN /\ obs[s] = [day |-> e.day, run |-> e.run, forecast |-> TRUE,
                      memory |-> History(e.day, e.run)]
         /\ kernel.mask[s] = kernel.feasible[s]

\* When a day ends, the terminal observation is the last of that day, with its
\* arrivals, whatever day follows in the slot.
TerminalOfItsDay ==
  [][\A s \in done' : kernel' # kernel /\ ~kernel'.poisoned =>
       LET d == kernel.episode[s].day
       IN /\ terminal'[s].day = d
          /\ terminal'[s].run = Length[d]
          /\ terminal'[s].memory = History(d, Length[d])]_envVars
=============================================================================
