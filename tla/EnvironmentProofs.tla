--------------------------- MODULE EnvironmentProofs ---------------------------
(***************************************************************************)
(* Proofs about the environments over the batch kernel: what the kernel    *)
(* and the arrival memory return, then the training environment of module  *)
(* VecEnv with the shaped rewards of module Shaping, then the batched      *)
(* evaluation of module Evaluation, for any number of slots, days of any   *)
(* length, actions and bins of the memory.                                 *)
(*                                                                         *)
(* EnvInv says that a kernel that can be stepped has an unfinished, untorn *)
(* day in every slot, and that observations, masks and memories are of the *)
(* present states.  EvaluationInv says that slot s of a chunk runs day     *)
(* offset + s, that its costs, observation, mask and memory are those of   *)
(* the intervals run so far, and that the days before the chunk are        *)
(* recorded.                                                               *)
(***************************************************************************)
EXTENDS Shaping, Evaluation, FiniteSetTheorems, TLAPS

Episodes == [day : Day \cup {None}, run : Nat, torn : BOOLEAN]

Kernels ==
  [episode : [Slot -> Episodes], feasible : [Slot -> SUBSET Action],
   mask : [Slot -> SUBSET Action], poisoned : BOOLEAN]

-----------------------------------------------------------------------------
(* What the operations of the kernel return *)

\* A new kernel (lib.rs:819-836) has the type of one.
LEMMA NewKernelType == NewKernel \in Kernels
BY DEF NewKernel, Kernels, Episodes, Unused

\* A day that is started has run no interval and is whole.
LEMMA EpisodeFields ==
  ASSUME NEW d
  PROVE  Episode(d).day = d /\ Episode(d).run = 0 /\ ~Episode(d).torn
BY DEF Episode

\* reset_batch starts the days in their slots, with fresh masks, leaves the other
\* slots alone, and clears the poison.
LEMMA ResetResult ==
  ASSUME NEW K \in Kernels, NEW days, DOMAIN days \subseteq Slot,
         \A s \in DOMAIN days : days[s] \in Day,
         NEW F \in [Slot -> Feasible], NEW R, R = ResetBatch(K, days, F)
  PROVE  /\ R \in Kernels
         /\ ~R.poisoned
         /\ \A s \in DOMAIN days : /\ R.episode[s] = Episode(days[s])
                                   /\ R.mask[s] = R.feasible[s]
         /\ \A s \in Slot \ DOMAIN days : /\ R.episode[s] = K.episode[s]
                                          /\ R.mask[s] = K.mask[s]
                                          /\ R.feasible[s] = K.feasible[s]
<1> DEFINE S == DOMAIN days
           E == [s \in S |-> Episode(days[s])]
           G == [s \in S |-> F[s]]
<1>1. /\ R.episode = Updated(K.episode, E)
      /\ R.feasible = Updated(K.feasible, G)
      /\ R.mask = Updated(K.mask, G)
      /\ R.poisoned = FALSE
      /\ R = [episode |-> R.episode, feasible |-> R.feasible,
              mask |-> R.mask, poisoned |-> R.poisoned]
  BY DEF ResetBatch, FreshMask
<1>2. E \in [S -> Episodes] /\ G \in [S -> SUBSET Action]
  BY DEF Episode, Episodes, Feasible
<1>3. /\ \A s \in S : E[s] = Episode(days[s])
      /\ \A s \in S : G[s] = F[s]
  OBVIOUS
<1>4. /\ K.episode \in [Slot -> Episodes]
      /\ K.feasible \in [Slot -> SUBSET Action]
      /\ K.mask \in [Slot -> SUBSET Action]
  BY DEF Kernels
<1> HIDE DEF E, G
<1>5. /\ R.episode \in [Slot -> Episodes]
      /\ \A s \in Slot : R.episode[s] = IF s \in S THEN E[s] ELSE K.episode[s]
  BY <1>1, <1>2, <1>4 DEF Updated
<1>6. /\ R.feasible \in [Slot -> SUBSET Action]
      /\ \A s \in Slot : R.feasible[s] = IF s \in S THEN G[s] ELSE K.feasible[s]
  BY <1>1, <1>2, <1>4 DEF Updated
<1>7. /\ R.mask \in [Slot -> SUBSET Action]
      /\ \A s \in Slot : R.mask[s] = IF s \in S THEN G[s] ELSE K.mask[s]
  BY <1>1, <1>2, <1>4 DEF Updated
<1>8. R \in Kernels
  BY <1>1, <1>5, <1>6, <1>7 DEF Kernels
<1> QED
  BY <1>1, <1>3, <1>5, <1>6, <1>7, <1>8

\* Stepping the slots of S runs one interval in each and refreshes its mask.
LEMMA AdvanceResult ==
  ASSUME NEW K \in Kernels, NEW S \in SUBSET Slot, NEW F \in [Slot -> Feasible],
         NEW R, R = Advance(K, S, F)
  PROVE  /\ R \in Kernels
         /\ R.poisoned = K.poisoned
         /\ \A s \in S : /\ R.episode[s].day = K.episode[s].day
                         /\ R.episode[s].run = K.episode[s].run + 1
                         /\ R.episode[s].torn = K.episode[s].torn
                         /\ R.mask[s] = R.feasible[s]
<1> DEFINE E == [s \in S |-> [K.episode[s] EXCEPT !.run = @ + 1]]
           G == [s \in S |-> F[s]]
<1>1. /\ R.episode = Updated(K.episode, E)
      /\ R.feasible = Updated(K.feasible, G)
      /\ R.mask = Updated(K.mask, G)
      /\ R.poisoned = K.poisoned
      /\ R = [episode |-> R.episode, feasible |-> R.feasible,
              mask |-> R.mask, poisoned |-> R.poisoned]
  BY DEF Advance, Kernels
<1>2. /\ K.episode \in [Slot -> Episodes]
      /\ K.feasible \in [Slot -> SUBSET Action]
      /\ K.mask \in [Slot -> SUBSET Action]
  BY DEF Kernels
<1>3. E \in [S -> Episodes] /\ G \in [S -> SUBSET Action]
  BY <1>2 DEF Episodes, Feasible
<1>4. /\ \A s \in S : /\ E[s].day = K.episode[s].day
                      /\ E[s].run = K.episode[s].run + 1
                      /\ E[s].torn = K.episode[s].torn
      /\ \A s \in S : G[s] = F[s]
  BY <1>2 DEF Episodes
<1> HIDE DEF E, G
<1>5. /\ R.episode \in [Slot -> Episodes]
      /\ \A s \in Slot : R.episode[s] = IF s \in S THEN E[s] ELSE K.episode[s]
  BY <1>1, <1>2, <1>3 DEF Updated
<1>6. /\ R.feasible \in [Slot -> SUBSET Action]
      /\ \A s \in Slot : R.feasible[s] = IF s \in S THEN G[s] ELSE K.feasible[s]
  BY <1>1, <1>2, <1>3 DEF Updated
<1>7. /\ R.mask \in [Slot -> SUBSET Action]
      /\ \A s \in Slot : R.mask[s] = IF s \in S THEN G[s] ELSE K.mask[s]
  BY <1>1, <1>2, <1>3 DEF Updated
<1>8. K.poisoned \in BOOLEAN
  BY DEF Kernels
<1>9. R \in Kernels
  BY <1>1, <1>5, <1>6, <1>7, <1>8 DEF Kernels
<1> QED
  BY <1>1, <1>4, <1>5, <1>6, <1>7, <1>9

\* The other slots are left alone.
LEMMA AdvanceLeaves ==
  ASSUME NEW K \in Kernels, NEW S \in SUBSET Slot, NEW F \in [Slot -> Feasible],
         NEW R, R = Advance(K, S, F), NEW s \in Slot \ S
  PROVE  /\ R.episode[s] = K.episode[s]
         /\ R.mask[s] = K.mask[s]
         /\ R.feasible[s] = K.feasible[s]
<1>1. /\ R.episode = Updated(K.episode, [x \in S |-> [K.episode[x] EXCEPT !.run = @ + 1]])
      /\ R.feasible = Updated(K.feasible, [x \in S |-> F[x]])
      /\ R.mask = Updated(K.mask, [x \in S |-> F[x]])
  BY DEF Advance, Kernels
<1>2. DOMAIN K.episode = Slot /\ DOMAIN K.feasible = Slot /\ DOMAIN K.mask = Slot
  BY DEF Kernels
<1> QED
  BY <1>1, <1>2 DEF Updated

\* A step that fails leaves a poisoned kernel.
LEMMA FailResult ==
  ASSUME NEW K \in Kernels, NEW S \in SUBSET Slot, NEW F \in [Slot -> Feasible],
         NEW f \in Slot, NEW R, R = StepUpTo(K, S, f, F)
  PROVE  R \in Kernels /\ R.poisoned
<1> DEFINE A == Advance(K, {s \in S : s < f}, F)
<1>1. A \in Kernels
  BY AdvanceResult
<1>2. R = [A EXCEPT !.episode[f].torn = TRUE, !.feasible[f] = F[f], !.poisoned = TRUE]
  BY DEF StepUpTo
<1> HIDE DEF A
<1>3. A.episode[f] \in Episodes /\ F[f] \in SUBSET Action
  BY <1>1 DEF Kernels, Feasible
<1>4. [A.episode[f] EXCEPT !.torn = TRUE] \in Episodes
  BY <1>3 DEF Episodes
<1>5. /\ R.episode = [A.episode EXCEPT ![f] = [A.episode[f] EXCEPT !.torn = TRUE]]
      /\ R.feasible = [A.feasible EXCEPT ![f] = F[f]]
      /\ R.mask = A.mask
      /\ R.poisoned = TRUE
      /\ R = [episode |-> R.episode, feasible |-> R.feasible,
              mask |-> R.mask, poisoned |-> R.poisoned]
  BY <1>1, <1>2 DEF Kernels
<1>6. /\ R.episode \in [Slot -> Episodes]
      /\ R.feasible \in [Slot -> SUBSET Action]
      /\ R.mask \in [Slot -> SUBSET Action]
  BY <1>1, <1>3, <1>4, <1>5 DEF Kernels
<1> QED
  BY <1>5, <1>6 DEF Kernels

-----------------------------------------------------------------------------
(* The arrival memory *)

\* A cleared memory is the history of a day that has just been started.
LEMMA BlankHistory ==
  ASSUME NEW d PROVE History(d, 0) = Blank
BY DEF History, Blank, Nothing

\* Pushing the arrivals of the next interval of a day gives its next history.
LEMMA PushHistory ==
  ASSUME NEW d, NEW run \in Nat
  PROVE  <<<<d, run + 1>>>> \o Front(History(d, run)) = History(d, run + 1)
<1> DEFINE H == History(d, run)
           G == Front(H)
           P == <<<<d, run + 1>>>> \o G
<1>1. /\ Bins \in Nat \ {0}
      /\ H \in Seq({<<d, k>> : k \in Int} \cup {Nothing}) /\ Len(H) = Bins
      /\ \A i \in 1 .. Bins : H[i] = IF i <= run THEN <<d, run - i + 1>> ELSE Nothing
  BY EnvironmentAssumption DEF History
<1> HIDE DEF H
<1>2. /\ G \in Seq({<<d, k>> : k \in Int} \cup {Nothing}) /\ Len(G) = Bins - 1
      /\ \A i \in 1 .. Bins - 1 : G[i] = H[i]
  BY <1>1 DEF Front
<1> HIDE DEF G
<1>3. /\ P \in Seq({<<d, k>> : k \in Int} \cup {Nothing}) /\ Len(P) = Bins
      /\ P[1] = <<d, run + 1>>
      /\ \A i \in 2 .. Bins : P[i] = G[i - 1]
  BY <1>1, <1>2
<1> HIDE DEF P
<1>4. ASSUME NEW i \in 1 .. Bins
      PROVE  P[i] = IF i <= run + 1 THEN <<d, (run + 1) - i + 1>> ELSE Nothing
  <2>1. CASE i = 1
    <3>1. (run + 1) - 1 + 1 = run + 1 /\ 1 <= run + 1
      OBVIOUS
    <3> QED
      BY <1>3, <2>1, <3>1
  <2>2. CASE i \in 2 .. Bins
    <3>1. /\ i - 1 \in 1 .. Bins - 1 /\ i - 1 \in 1 .. Bins
          /\ run - (i - 1) + 1 = (run + 1) - i + 1
          /\ i - 1 <= run <=> i <= run + 1
      BY <1>1, <2>2
    <3>2. P[i] = H[i - 1]
      BY <1>2, <1>3, <2>2, <3>1
    <3> QED
      BY <1>1, <3>1, <3>2
  <2> QED
    BY <2>1, <2>2
<1>5. P = [i \in 1 .. Bins |-> P[i]]
  BY <1>3
<1>6. P = History(d, run + 1)
  BY <1>4, <1>5 DEF History
<1> QED
  BY <1>6 DEF P, G, H

-----------------------------------------------------------------------------
(* The training environment *)

\* Every slot has an interval to run and a mask of its present state.
Ready(K) ==
  \A s \in Slot :
    /\ K.episode[s].day \in Day
    /\ K.episode[s].run < Length[K.episode[s].day]
    /\ ~K.episode[s].torn
    /\ K.mask[s] = K.feasible[s]

\* Every memory holds the arrivals of the day in its slot, and no others.
Remembers(K, M) ==
  \A s \in Slot : M[s] = History(K.episode[s].day, K.episode[s].run)

EnvInv ==
  /\ kernel \in Kernels
  /\ DOMAIN memory = Slot
  /\ ~kernel.poisoned =>
       /\ Ready(kernel)
       /\ Remembers(kernel, memory)
       /\ obs = Returned(kernel, memory)

-----------------------------------------------------------------------------
(* The steps of the environment *)

\* A reset of every slot, whatever state it finds, makes everything ready.
LEMMA FullReset ==
  ASSUME NEW K \in Kernels, NEW days \in [Slot -> Day],
         NEW F \in [Slot -> Feasible], NEW R, R = ResetBatch(K, days, F),
         NEW M, M = [s \in Slot |-> Blank]
  PROVE  R \in Kernels /\ ~R.poisoned /\ Ready(R) /\ Remembers(R, M)
<1>0. DOMAIN days = Slot /\ \A s \in Slot : days[s] \in Day
  OBVIOUS
<1>1. /\ R \in Kernels /\ ~R.poisoned
      /\ \A s \in Slot : R.episode[s] = Episode(days[s]) /\ R.mask[s] = R.feasible[s]
  BY <1>0, ResetResult
<1>2. \A s \in Slot : /\ R.episode[s].day = days[s] /\ days[s] \in Day
                      /\ R.episode[s].run = 0 /\ ~R.episode[s].torn
                      /\ 0 < Length[days[s]]
  <2>1. \A s \in Slot : Length[days[s]] \in Nat \ {0}
    BY <1>0, BatchAssumption
  <2> QED
    BY <1>0, <1>1, <2>1, EpisodeFields
<1>3. Ready(R)
  BY <1>1, <1>2 DEF Ready
<1>4. Remembers(R, M)
  BY <1>2, BlankHistory DEF Remembers
<1> QED
  BY <1>1, <1>3, <1>4

\* The constructor of the environment establishes the invariant.
THEOREM EnvInvInit ==
  ASSUME EnvInit PROVE EnvInv
<1>1. PICK days \in [Slot -> Day], F \in [Slot -> Feasible] :
        /\ kernel = ResetBatch(NewKernel, days, F)
        /\ memory = [s \in Slot |-> Blank]
        /\ obs = Returned(kernel, memory)
  BY DEF EnvInit
<1>2. kernel \in Kernels /\ Ready(kernel) /\ Remembers(kernel, memory)
  BY <1>1, NewKernelType, FullReset
<1> QED
  BY <1>1, <1>2 DEF EnvInv

\* reset keeps the invariant, also of a poisoned kernel.
LEMMA EnvResetKeeps ==
  ASSUME EnvInv, EnvReset PROVE EnvInv'
<1>1. PICK days \in [Slot -> Day], F \in [Slot -> Feasible] :
        /\ kernel' = ResetBatch(kernel, days, F)
        /\ memory' = Cleared(memory, Slot)
        /\ obs' = Returned(kernel', memory')
  BY DEF EnvReset
<1>2. memory' = [s \in Slot |-> Blank]
  BY <1>1 DEF EnvInv, Cleared, Updated
<1>3. kernel' \in Kernels /\ Ready(kernel') /\ Remembers(kernel', memory')
  BY <1>1, <1>2, FullReset DEF EnvInv
<1> QED
  BY <1>1, <1>2, <1>3 DEF EnvInv

\* One interval in every slot: the days stay, their memories follow, and a day
\* that is not over is ready for the next one.
LEMMA OneInterval ==
  ASSUME NEW K \in Kernels, NEW memo, DOMAIN memo = Slot,
         ~K.poisoned, Ready(K), Remembers(K, memo),
         NEW F \in [Slot -> Feasible],
         NEW R, R = StepBatch(K, Slot, F), NEW M, M = Pushed(memo, Slot, R)
  PROVE  /\ R \in Kernels /\ ~R.poisoned
         /\ DOMAIN M = Slot
         /\ Remembers(R, M)
         /\ \A s \in Slot :
              /\ R.episode[s].day = K.episode[s].day /\ R.episode[s].day \in Day
              /\ R.episode[s].run = K.episode[s].run + 1
              /\ R.episode[s].run <= Length[R.episode[s].day]
              /\ R.episode[s].run \in Nat
              /\ ~R.episode[s].torn
              /\ R.mask[s] = R.feasible[s]
<1>1. /\ R \in Kernels /\ ~R.poisoned
      /\ \A s \in Slot : /\ R.episode[s].day = K.episode[s].day
                         /\ R.episode[s].run = K.episode[s].run + 1
                         /\ R.episode[s].torn = K.episode[s].torn
                         /\ R.mask[s] = R.feasible[s]
  <2>1. Slot \in SUBSET Slot
    OBVIOUS
  <2>2. R = Advance(K, Slot, F)
    BY DEF StepBatch
  <2> QED
    BY <2>1, <2>2, AdvanceResult
<1>2. \A s \in Slot : /\ K.episode[s].run \in Nat /\ K.episode[s].day \in Day
                      /\ K.episode[s].run < Length[K.episode[s].day]
                      /\ Length[K.episode[s].day] \in Nat
                      /\ ~K.episode[s].torn
  <2>1. \A s \in Slot : K.episode[s] \in Episodes
    BY DEF Kernels
  <2>2. \A s \in Slot : K.episode[s].run \in Nat
    BY <2>1 DEF Episodes
  <2>3. \A s \in Slot : K.episode[s].day \in Day => Length[K.episode[s].day] \in Nat
    BY BatchAssumption
  <2> QED
    BY <2>2, <2>3 DEF Ready
<1>3. /\ DOMAIN M = Slot
      /\ \A s \in Slot : M[s] = <<Arrivals(R.episode[s])>> \o Front(memo[s])
  BY DEF Pushed, Updated
<1>4. ASSUME NEW s \in Slot
      PROVE  M[s] = History(R.episode[s].day, R.episode[s].run)
  <2> DEFINE d == K.episode[s].day
             run == K.episode[s].run
  <2>1. memo[s] = History(d, run)
    BY DEF Remembers
  <2>2. Arrivals(R.episode[s]) = <<d, run + 1>>
    BY <1>1 DEF Arrivals
  <2>3. run \in Nat
    BY <1>2
  <2>4. M[s] = <<<<d, run + 1>>>> \o Front(History(d, run))
    BY <1>3, <2>1, <2>2
  <2> HIDE DEF d, run
  <2>5. M[s] = History(d, run + 1)
    BY <2>3, <2>4, PushHistory
  <2> QED
    BY <1>1, <2>5 DEF d, run
<1>5. \A s \in Slot : /\ R.episode[s].run <= Length[R.episode[s].day]
                      /\ R.episode[s].run \in Nat
  BY <1>1, <1>2
<1>6. Remembers(R, M)
  BY <1>4 DEF Remembers
<1> QED
  BY <1>1, <1>2, <1>3, <1>5, <1>6

\* step_wait with its automatic resets keeps the invariant; every slot is an
\* interval further, or at the beginning of a day.
LEMMA StepWaitKeeps ==
  ASSUME EnvInv, StepWait
  PROVE  /\ EnvInv' /\ ~kernel.poisoned /\ ~kernel'.poisoned
         /\ \A s \in Slot :
              IF s \in done'
              THEN kernel'.episode[s].run = 0
              ELSE /\ kernel'.episode[s].day = kernel.episode[s].day
                   /\ kernel'.episode[s].run = kernel.episode[s].run + 1
<1>1. PICK request \in [Slot -> Action], F \in [Slot -> Feasible] :
        /\ Validate(kernel, Executed(kernel.mask, request))
        /\ LET K == StepBatch(kernel, Slot, F)
               M == Pushed(memory, Slot, K)
               ended == Ending(K)
           IN \E days \in [ended -> Day] :
                /\ kernel' = IF ended = {} THEN K ELSE ResetBatch(K, days, F)
                /\ memory' = Cleared(M, ended)
                /\ obs' = Returned(kernel', memory')
                /\ done' = ended
  BY DEF StepWait
<1> DEFINE K == StepBatch(kernel, Slot, F)
           M == Pushed(memory, Slot, K)
           ended == Ending(K)
<1>2. PICK days \in [ended -> Day] :
        /\ kernel' = IF ended = {} THEN K ELSE ResetBatch(K, days, F)
        /\ memory' = Cleared(M, ended)
        /\ obs' = Returned(kernel', memory')
        /\ done' = ended
  BY <1>1
<1>3. ~kernel.poisoned
  BY <1>1 DEF Validate
<1>4. /\ K \in Kernels /\ ~K.poisoned
      /\ DOMAIN M = Slot
      /\ Remembers(K, M)
      /\ \A s \in Slot :
           /\ K.episode[s].day = kernel.episode[s].day
           /\ K.episode[s].run = kernel.episode[s].run + 1
           /\ K.episode[s].day \in Day
           /\ K.episode[s].run <= Length[K.episode[s].day]
           /\ K.episode[s].run \in Nat
           /\ ~K.episode[s].torn
           /\ K.mask[s] = K.feasible[s]
  BY <1>3, OneInterval DEF EnvInv
<1>5. /\ ended \in SUBSET Slot
      /\ \A s \in Slot \ ended : K.episode[s].run < Length[K.episode[s].day]
  <2>1. \A s \in Slot : /\ K.episode[s].run <= Length[K.episode[s].day]
                        /\ K.episode[s].run \in Nat
                        /\ Length[K.episode[s].day] \in Nat
    BY <1>4, BatchAssumption
  <2>2. ended = {s \in Slot : K.episode[s].run = Length[K.episode[s].day]}
    BY DEF Ending, Over
  <2> HIDE DEF K, ended
  <2> QED
    BY <2>1, <2>2
<1> HIDE DEF K, M, ended
<1>6. /\ kernel' \in Kernels /\ ~kernel'.poisoned
      /\ \A s \in ended : /\ kernel'.episode[s] = Episode(days[s])
                          /\ kernel'.mask[s] = kernel'.feasible[s]
      /\ \A s \in Slot \ ended : /\ kernel'.episode[s] = K.episode[s]
                                 /\ kernel'.mask[s] = K.mask[s]
                                 /\ kernel'.feasible[s] = K.feasible[s]
  <2>1. CASE ended = {}
    BY <1>2, <1>4, <2>1
  <2>2. CASE ended # {}
    <3>1. /\ kernel' = ResetBatch(K, days, F)
          /\ DOMAIN days = ended
          /\ \A s \in ended : days[s] \in Day
      BY <1>2, <2>2
    <3>2. F \in [Slot -> Feasible]
      BY <1>1
    <3> QED
      BY <1>4, <1>5, <3>1, <3>2, ResetResult
  <2> QED
    BY <2>1, <2>2
<1>7. /\ DOMAIN memory' = Slot
      /\ \A s \in ended : memory'[s] = Blank
      /\ \A s \in Slot \ ended : memory'[s] = M[s]
  BY <1>2, <1>4, <1>5 DEF Cleared, Updated
<1>8. \A s \in ended : /\ kernel'.episode[s].day = days[s] /\ days[s] \in Day
                       /\ kernel'.episode[s].run = 0 /\ ~kernel'.episode[s].torn
                       /\ 0 < Length[days[s]]
  <2>1. \A s \in ended : days[s] \in Day
    BY <1>2
  <2>2. \A s \in ended : Length[days[s]] \in Nat \ {0}
    BY <2>1, BatchAssumption
  <2>3. \A s \in ended : kernel'.episode[s] = Episode(days[s])
    BY <1>6
  <2> QED
    BY <2>1, <2>2, <2>3, EpisodeFields
<1>9. Ready(kernel')
  BY <1>4, <1>5, <1>6, <1>8 DEF Ready
<1>10. Remembers(kernel', memory')
  BY <1>4, <1>5, <1>6, <1>7, <1>8, BlankHistory DEF Remembers
<1>11. \A s \in Slot :
         IF s \in done'
         THEN kernel'.episode[s].run = 0
         ELSE /\ kernel'.episode[s].day = kernel.episode[s].day
              /\ kernel'.episode[s].run = kernel.episode[s].run + 1
  BY <1>2, <1>4, <1>6, <1>8
<1> QED
  BY <1>2, <1>3, <1>6, <1>7, <1>9, <1>10, <1>11 DEF EnvInv

\* A step that fails poisons the kernel, and the invariant asks nothing more.
LEMMA StepFailsKeeps ==
  ASSUME EnvInv, StepFails PROVE EnvInv' /\ kernel'.poisoned /\ ~kernel.poisoned
<1>1. PICK request \in [Slot -> Action], F \in [Slot -> Feasible], f \in Slot :
        /\ Validate(kernel, Executed(kernel.mask, request))
        /\ kernel' = StepUpTo(kernel, Slot, f, F)
        /\ UNCHANGED <<memory, obs, done, terminal>>
  BY DEF StepFails
<1>2. kernel' \in Kernels /\ kernel'.poisoned
  <2>1. Slot \in SUBSET Slot
    OBVIOUS
  <2> QED
    BY <1>1, <2>1, FailResult DEF EnvInv
<1>3. ~kernel.poisoned
  BY <1>1 DEF Validate
<1> QED
  BY <1>1, <1>2, <1>3 DEF EnvInv

\* EnvInv is an invariant of the training environment.
THEOREM EnvInvariance == EnvSpec => []EnvInv
<1>1. EnvInit => EnvInv
  BY EnvInvInit
<1>2. EnvInv /\ [EnvNext]_envVars => EnvInv'
  <2> SUFFICES ASSUME EnvInv, [EnvNext]_envVars PROVE EnvInv'
    OBVIOUS
  <2>1. CASE EnvReset
    BY <2>1, EnvResetKeeps
  <2>2. CASE StepWait
    BY <2>2, StepWaitKeeps
  <2>3. CASE StepFails
    BY <2>3, StepFailsKeeps
  <2>4. CASE UNCHANGED envVars
    BY <2>4 DEF EnvInv, envVars
  <2> QED
    BY <2>1, <2>2, <2>3, <2>4 DEF EnvNext
<1> QED
  BY <1>1, <1>2, PTL DEF EnvSpec

-----------------------------------------------------------------------------
(* The properties *)

\* The environment never asks the kernel to step a day that is over or torn,
\* for any number of slots and days of any length (rust/batch.py:216-267).
THEOREM NeverStepsAFinishedDay == EnvSpec => []StepsOnlyLiveDays
<1>1. EnvInv => StepsOnlyLiveDays
  BY BatchAssumption DEF EnvInv, Ready, StepsOnlyLiveDays, Over
<1> QED
  BY <1>1, EnvInvariance, PTL

\* Observation, memory and mask of every slot are of the state that is stepped
\* next, for any number of slots, days and bins (rust/batch.py:256-261).
THEOREM ObservesTheState == EnvSpec => []DecidesOnTheState
<1>1. EnvInv => DecidesOnTheState
  <2> SUFFICES ASSUME EnvInv, ~kernel.poisoned, NEW s \in Slot
               PROVE  /\ obs[s] = [day |-> kernel.episode[s].day,
                                   run |-> kernel.episode[s].run, forecast |-> TRUE,
                                   memory |-> History(kernel.episode[s].day,
                                                      kernel.episode[s].run)]
                      /\ kernel.mask[s] = kernel.feasible[s]
    BY DEF DecidesOnTheState
  <2>1. obs[s] = Observation(kernel, memory, s, TRUE)
    BY DEF EnvInv, Returned
  <2>2. memory[s] = History(kernel.episode[s].day, kernel.episode[s].run)
    BY DEF EnvInv, Remembers
  <2>3. kernel.mask[s] = kernel.feasible[s]
    BY DEF EnvInv, Ready
  <2> QED
    BY <2>1, <2>2, <2>3 DEF Observation
<1> QED
  BY <1>1, EnvInvariance, PTL

\* What an internal error has torn is never stepped by the environment
\* (lib.rs:766-771 and rust/batch.py:185-206).
THEOREM NeverStepsATornDay == EnvSpec => TornIsNotStepped
<1> DEFINE Kept == \A s \in Slot : LET e == kernel.episode[s]
                                   IN e.torn => kernel'.episode[s] = e
                                                \/ ~kernel'.episode[s].torn
<1>1. EnvInv /\ [EnvNext]_envVars => [Kept]_kernel
  <2> SUFFICES ASSUME EnvInv, [EnvNext]_envVars, kernel' # kernel PROVE Kept
    OBVIOUS
  <2>1. CASE kernel.poisoned
    <3>1. ~StepWait /\ ~StepFails
      BY <2>1 DEF StepWait, StepFails, Validate
    <3>2. EnvReset
      BY <3>1 DEF EnvNext, envVars
    <3>3. PICK days \in [Slot -> Day], F \in [Slot -> Feasible] :
            kernel' = ResetBatch(kernel, days, F)
      BY <3>2 DEF EnvReset
    <3>4. Ready(kernel')
      BY <3>3, FullReset DEF EnvInv
    <3> QED
      BY <3>4 DEF Ready
  <2>2. CASE ~kernel.poisoned
    BY <2>2 DEF EnvInv, Ready
  <2> QED
    BY <2>1, <2>2
<1> QED
  BY <1>1, EnvInvariance, PTL DEF EnvSpec, TornIsNotStepped

\* The terminal observation of a day is of that day, and holds the arrivals of
\* its last intervals, for any number of slots, days and bins
\* (rust/batch.py:241-254).
THEOREM TerminalsOfTheirDays == EnvSpec => TerminalOfItsDay
<1> DEFINE Apart == \A s \in done' : kernel' # kernel /\ ~kernel'.poisoned =>
                      LET d == kernel.episode[s].day
                      IN /\ terminal'[s].day = d
                         /\ terminal'[s].run = Length[d]
                         /\ terminal'[s].memory = History(d, Length[d])
<1>1. ASSUME EnvInv, StepWait PROVE Apart
  <2>1. PICK request \in [Slot -> Action], F \in [Slot -> Feasible] :
          /\ Validate(kernel, Executed(kernel.mask, request))
          /\ LET K == StepBatch(kernel, Slot, F)
                 M == Pushed(memory, Slot, K)
             IN /\ done' = Ending(K)
                /\ terminal' = LastSeen(K, M, kernel', memory', Ending(K))
    BY <1>1 DEF StepWait
  <2> DEFINE K == StepBatch(kernel, Slot, F)
             M == Pushed(memory, Slot, K)
  <2>2. ~kernel.poisoned
    BY <2>1 DEF Validate
  <2>3. /\ Remembers(K, M)
        /\ \A s \in Slot : K.episode[s].day = kernel.episode[s].day
    BY <1>1, <2>1, <2>2, OneInterval DEF EnvInv
  <2>4. /\ done' = Ending(K)
        /\ terminal' = LastSeen(K, M, kernel', memory', Ending(K))
    BY <2>1
  <2> HIDE DEF K, M
  <2>5. ASSUME NEW s \in done'
        PROVE  /\ terminal'[s] = Observation(K, M, s, FALSE)
               /\ K.episode[s].run = Length[kernel.episode[s].day]
               /\ K.episode[s].day = kernel.episode[s].day
               /\ M[s] = History(K.episode[s].day, K.episode[s].run)
    BY <2>3, <2>4 DEF LastSeen, Ending, Over, Remembers
  <2>6. ASSUME NEW s \in done'
        PROVE  LET d == kernel.episode[s].day
               IN /\ terminal'[s].day = d
                  /\ terminal'[s].run = Length[d]
                  /\ terminal'[s].memory = History(d, Length[d])
    <3>1. /\ terminal'[s].day = K.episode[s].day
          /\ terminal'[s].run = K.episode[s].run
          /\ terminal'[s].memory = M[s]
      <4>1. terminal'[s] = [day |-> K.episode[s].day, run |-> K.episode[s].run,
                            memory |-> M[s], forecast |-> FALSE]
        BY <2>5, Zenon DEF Observation
      <4> QED
        BY <4>1
    <3> QED
      BY <2>5, <3>1
  <2> QED
    BY <2>6
<1>2. EnvInv /\ [EnvNext]_envVars => [Apart]_envVars
  <2>1. ASSUME EnvInv, EnvReset PROVE Apart
    BY <2>1 DEF EnvReset
  <2>2. ASSUME EnvInv, StepFails PROVE Apart
    BY <2>2, StepFailsKeeps
  <2> QED
    BY <1>1, <2>1, <2>2 DEF EnvNext
<1> QED
  BY <1>2, EnvInvariance, PTL DEF EnvSpec, TerminalOfItsDay

-----------------------------------------------------------------------------
(* The shaped rewards *)

\* The potential of what slot s shows, and that of the day it began.
Shown(s) == Potential[obs[s].day][obs[s].run]
Start(s) == Potential[obs[s].day][0]

\* What has been added in the day that runs in slot s.
AddedSoFar(s) == IF s \in done THEN 0 ELSE added[s]

\* The potential kept is that of the observation, and the sum telescopes.
ShapedInv ==
  /\ EnvInv
  /\ ~kernel.poisoned /\ previous # <<>> =>
       /\ previous = PotentialOf(obs)
       /\ \A s \in Slot : /\ weight[s] \in Int
                          /\ AddedSoFar(s) = weight[s] * Shown(s) - Start(s)

\* Observations show a day and an interval of it, whose potential is a number.
LEMMA Potentials ==
  ASSUME NEW K \in Kernels, Ready(K), NEW M, NEW o, o = Returned(K, M), NEW s \in Slot
  PROVE  /\ o[s].day = K.episode[s].day /\ o[s].run = K.episode[s].run
         /\ Potential[o[s].day][o[s].run] \in Int /\ Potential[o[s].day][0] \in Int
<1>1. o[s] = [day |-> K.episode[s].day, run |-> K.episode[s].run,
              memory |-> M[s], forecast |-> TRUE]
  BY Zenon DEF Returned, Observation
<1>2. /\ K.episode[s].day \in Day /\ K.episode[s].run \in Nat
      /\ K.episode[s].run < Length[K.episode[s].day]
  BY DEF Ready, Kernels, Episodes
<1>3. Length[K.episode[s].day] \in Nat
  BY <1>2, BatchAssumption
<1>4. /\ K.episode[s].run \in 0 .. Length[K.episode[s].day]
      /\ 0 \in 0 .. Length[K.episode[s].day]
  BY <1>2, <1>3
<1>5. Potential[K.episode[s].day] \in [0 .. Length[K.episode[s].day] -> Int]
  BY <1>2, ShapingAssumption
<1>6. o[s].day = K.episode[s].day /\ o[s].run = K.episode[s].run
  BY <1>1
<1> QED
  BY <1>4, <1>5, <1>6

\* The products of one step of the sum.
LEMMA Telescope ==
  ASSUME NEW w \in Int, NEW g \in Int, NEW p \in Int, NEW q \in Int, NEW x \in Int
  PROVE  (w * p - x) + w * (g * q - p) = (g * w) * q - x
<1>1. w * (g * q - p) = w * (g * q) - w * p
  OBVIOUS
<1>2. w * (g * q) = (g * w) * q
  OBVIOUS
<1>3. w * p \in Int /\ (g * w) * q \in Int
  OBVIOUS
<1> DEFINE a == w * p
           b == (g * w) * q
           c == w * (g * q - p)
<1>4. c = b - a /\ a \in Int /\ b \in Int
  BY <1>1, <1>2, <1>3
<1> HIDE DEF a, b, c
<1>5. (a - x) + c = b - x
  BY <1>4
<1> QED
  BY <1>5 DEF a, b, c

\* A shaped step adds to each slot what keeps the sum telescoping: to the next
\* potential while the day runs, to none when it ends.
LEMMA ShapedStepAdds ==
  ASSUME ShapedInv, ShapedStep, NEW s \in Slot
  PROVE  /\ ShapedInv' /\ ~kernel.poisoned
         /\ IF s \in done'
            THEN added'[s] = -Start(s)
            ELSE /\ obs'[s].day = obs[s].day
                 /\ added'[s] = weight'[s] * Shown(s)' - Start(s)
<1>1. /\ EnvInv /\ EnvInv' /\ ~kernel.poisoned /\ ~kernel'.poisoned
      /\ \A t \in Slot :
           IF t \in done'
           THEN kernel'.episode[t].run = 0
           ELSE /\ kernel'.episode[t].day = kernel.episode[t].day
                /\ kernel'.episode[t].run = kernel.episode[t].run + 1
  BY StepWaitKeeps DEF ShapedStep, ShapedInv
<1>2. /\ previous # <<>> /\ previous' = PotentialOf(obs')
      /\ added' = [t \in Slot |->
            (IF t \in done THEN 0 ELSE added[t])
              + weight[t] * (Gamma * (IF t \in done' THEN 0 ELSE PotentialOf(obs')[t]) - previous[t])]
      /\ weight' = [t \in Slot |-> IF t \in done' THEN 1 ELSE Gamma * weight[t]]
  BY DEF ShapedStep, Carried
<1>3. /\ previous = PotentialOf(obs)
      /\ \A t \in Slot : weight[t] \in Int /\ AddedSoFar(t) = weight[t] * Shown(t) - Start(t)
  BY <1>1, <1>2 DEF ShapedInv
<1>4. Gamma \in Int
  BY ShapingAssumption
<1>5. \A t \in Slot : /\ obs[t].day = kernel.episode[t].day /\ obs[t].run = kernel.episode[t].run
                      /\ Shown(t) \in Int /\ Start(t) \in Int
  <2>1. kernel \in Kernels /\ Ready(kernel) /\ obs = Returned(kernel, memory)
    BY <1>1 DEF EnvInv
  <2> QED
    BY <2>1, Potentials DEF Shown, Start
<1>6. kernel' \in Kernels /\ Ready(kernel') /\ obs' = Returned(kernel', memory')
  BY <1>1 DEF EnvInv
<1>7. \A t \in Slot :
         /\ obs'[t].day = kernel'.episode[t].day /\ obs'[t].run = kernel'.episode[t].run
         /\ Shown(t)' \in Int /\ Start(t)' \in Int
  BY <1>6, Potentials DEF Shown, Start
<1>8. ASSUME NEW t \in Slot
      PROVE  /\ IF t \in done'
                THEN added'[t] = -Start(t)
                ELSE /\ obs'[t].day = obs[t].day
                     /\ added'[t] = weight'[t] * Shown(t)' - Start(t)
             /\ weight'[t] \in Int
             /\ AddedSoFar(t)' = weight'[t] * Shown(t)' - Start(t)'
  <2> DEFINE w == weight[t]
             p == Shown(t)
             x == Start(t)
             q == IF t \in done' THEN 0 ELSE Shown(t)'
  <2>1. w \in Int /\ p \in Int /\ x \in Int /\ q \in Int
    BY <1>3, <1>5, <1>7
  <2>2. added'[t] = (w * p - x) + w * (Gamma * q - p)
    <3>1. previous[t] = p /\ PotentialOf(obs')[t] = Shown(t)'
      BY <1>3 DEF PotentialOf, Shown
    <3>2. (IF t \in done THEN 0 ELSE added[t]) = w * p - x
      BY <1>3 DEF AddedSoFar
    <3> QED
      BY <1>2, <3>1, <3>2
  <2>3. weight'[t] = IF t \in done' THEN 1 ELSE Gamma * w
    BY <1>2
  <2>4. CASE t \in done'
    <3>1. q = 0
      BY <2>4
    <3>2. (w * p - x) + w * (Gamma * q - p) = (Gamma * w) * q - x
      BY <1>4, <2>1, Telescope
    <3>3. (Gamma * w) * 0 = 0
      <4>1. Gamma * w \in Int
        BY <1>4, <2>1
      <4> QED
        BY <4>1
    <3>4. added'[t] = -x
      BY <2>1, <2>2, <3>1, <3>2, <3>3
    <3>5. obs'[t].run = 0
      BY <1>1, <1>7, <2>4
    <3>6. Shown(t)' = Start(t)'
      BY <3>5 DEF Shown, Start
    <3>7. AddedSoFar(t)' = 0
      BY <2>4 DEF AddedSoFar
    <3>8. weight'[t] = 1 /\ 1 * Shown(t)' - Start(t)' = 0
      BY <1>7, <2>3, <2>4, <3>6
    <3> QED
      BY <2>4, <3>4, <3>7, <3>8
  <2>5. CASE t \notin done'
    <3>1. q = Shown(t)'
      BY <2>5
    <3>2. (w * p - x) + w * (Gamma * q - p) = (Gamma * w) * q - x
      BY <1>4, <2>1, Telescope
    <3>3. weight'[t] = Gamma * w /\ Gamma * w \in Int
      BY <1>4, <2>1, <2>3, <2>5
    <3>4. added'[t] = weight'[t] * Shown(t)' - x
      BY <2>2, <3>1, <3>2, <3>3
    <3>5. obs'[t].day = obs[t].day
      BY <1>1, <1>5, <1>7, <2>5
    <3>6. Start(t)' = x
      BY <3>5 DEF Start
    <3>7. AddedSoFar(t)' = added'[t]
      BY <2>5 DEF AddedSoFar
    <3> QED
      BY <2>5, <3>3, <3>4, <3>5, <3>6, <3>7
  <2> QED
    BY <2>4, <2>5
<1>9. ShapedInv'
  BY <1>1, <1>2, <1>8 DEF ShapedInv
<1> QED
  BY <1>1, <1>8, <1>9

\* A reset starts every sum anew.
LEMMA ShapedResetKeeps ==
  ASSUME ShapedInv, ShapedReset
  PROVE  ShapedInv' /\ done' = {} /\ \A s \in Slot : obs'[s].run = 0
<1>1. EnvInv'
  BY EnvResetKeeps DEF ShapedReset, ShapedInv
<1>2. PICK days \in [Slot -> Day], F \in [Slot -> Feasible] :
        kernel' = ResetBatch(kernel, days, F)
  BY DEF ShapedReset, EnvReset
<1>3. /\ ~kernel'.poisoned
      /\ \A s \in Slot : kernel'.episode[s] = Episode(days[s])
  BY <1>2, ResetResult DEF ShapedInv, EnvInv
<1>4. /\ previous' = PotentialOf(obs') /\ done' = {}
      /\ added' = [s \in Slot |-> 0] /\ weight' = [s \in Slot |-> 1]
  BY DEF ShapedReset, EnvReset
<1>5. kernel' \in Kernels /\ Ready(kernel') /\ obs' = Returned(kernel', memory')
  BY <1>1, <1>3 DEF EnvInv
<1>6. \A t \in Slot : /\ obs'[t].run = kernel'.episode[t].run
                      /\ Shown(t)' \in Int /\ Start(t)' \in Int
  BY <1>5, Potentials DEF Shown, Start
<1>7. \A t \in Slot : obs'[t].run = 0
  BY <1>3, <1>6, EpisodeFields
<1>8. ASSUME NEW t \in Slot
      PROVE  /\ weight'[t] \in Int
             /\ AddedSoFar(t)' = weight'[t] * Shown(t)' - Start(t)'
  <2>1. Shown(t)' = Start(t)'
    BY <1>7 DEF Shown, Start
  <2>2. AddedSoFar(t)' = 0 /\ weight'[t] = 1
    BY <1>4 DEF AddedSoFar
  <2> QED
    BY <1>6, <2>1, <2>2
<1>9. ShapedInv'
  BY <1>1, <1>4, <1>8 DEF ShapedInv
<1> QED
  BY <1>4, <1>7, <1>9

\* Over an episode, shaping adds minus the potential of the first state to the
\* discounted return, for any potential, discount and number of slots, and across
\* automatic resets (learning/shaping.py:64-80).
THEOREM ShapingAddsAConstant == ShapedSpec => ShapingTelescopes
<1> DEFINE Telescoped ==
      previous' # <<>> /\ previous # <<>> /\ ~kernel'.poisoned =>
        \A s \in Slot :
          LET start == Potential[obs[s].day][0]
          IN IF s \in done' THEN added'[s] = -start
             ELSE obs'[s].run > 0 =>
                  added'[s] = weight'[s] * Potential[obs'[s].day][obs'[s].run] - start
<1>1. ShapedInit => ShapedInv
  BY EnvInvInit DEF ShapedInit, ShapedInv
<1>2. ShapedInv /\ [ShapedNext]_shapedVars => ShapedInv' /\ [Telescoped]_shapedVars
  <2> SUFFICES ASSUME ShapedInv, [ShapedNext]_shapedVars
               PROVE  ShapedInv' /\ [Telescoped]_shapedVars
    OBVIOUS
  <2>0. PICK s0 : s0 \in Slot
    BY BatchAssumption DEF Slot
  <2>1. CASE ShapedStep
    <3>1. ShapedInv'
      BY <2>0, <2>1, ShapedStepAdds
    <3>2. \A s \in Slot : IF s \in done'
                         THEN added'[s] = -Start(s)
                         ELSE added'[s] = weight'[s] * Shown(s)' - Start(s)
      BY <2>1, ShapedStepAdds
    <3>3. Telescoped
      BY <3>2 DEF Shown, Start
    <3> QED
      BY <3>1, <3>3
  <2>2. CASE ShapedReset
    BY <2>2, ShapedResetKeeps
  <2>3. CASE ShapedFails
    <3>1. EnvInv' /\ kernel'.poisoned
      BY <2>3, StepFailsKeeps DEF ShapedFails, ShapedInv
    <3> QED
      BY <3>1 DEF ShapedInv
  <2>4. CASE UNCHANGED shapedVars
    <3>1. UNCHANGED <<kernel, memory, obs, done, previous, added, weight>>
      BY <2>4 DEF shapedVars, envVars
    <3> QED
      BY <2>4, <3>1 DEF ShapedInv, EnvInv, AddedSoFar, Shown, Start
  <2> QED
    BY <2>1, <2>2, <2>3, <2>4 DEF ShapedNext
<1> QED
  BY <1>1, <1>2, PTL DEF ShapedSpec, ShapingTelescopes

-----------------------------------------------------------------------------
(* The batched evaluation *)

\* The costs of the first n intervals of a day.
CostsOf(d, n) == [k \in 1 .. n |-> <<d, k>>]

\* Slot s runs its day, and all that is kept for it is of that day.
GoodSlot(s) ==
  LET d == offset + s
      e == kernel.episode[s]
  IN /\ e.day = d /\ ~e.torn /\ e.run <= Length[d]
     /\ DOMAIN slots[s] = {"day", "costs", "done", "obs"}
     /\ slots[s].day = d
     /\ slots[s].costs = CostsOf(d, e.run)
     /\ slots[s].done <=> e.run = Length[d]
     /\ slots[s].obs.day = d /\ slots[s].obs.run = e.run
     /\ slots[s].obs.memory = memory[s]
     /\ memory[s] = History(d, e.run)
     /\ masks[s] = kernel.feasible[s] /\ kernel.mask[s] = kernel.feasible[s]
     /\ slots[s].done => records[d] = CostsOf(d, Length[d])

GoodChunk ==
  /\ DOMAIN slots = Chunk /\ DOMAIN masks = Chunk
  /\ offset < Days
  /\ \A s \in Chunk : GoodSlot(s)

RecordedBefore(n) == \A d \in Day : d < n => records[d] = CostsOf(d, Length[d])

EvaluationInv ==
  /\ kernel \in Kernels
  /\ DOMAIN memory = Slot
  /\ offset \in Nat
  /\ phase = "running" => /\ slots # <<>> => GoodChunk
                          /\ RecordedBefore(offset)
  /\ RecordsEachDayItself

-----------------------------------------------------------------------------
(* Rows and chunks *)

LEMMA SlotsAreFinite ==
  ASSUME NEW S \in SUBSET Slot
  PROVE  IsFiniteSet(S) /\ \A s \in S : s \in Int
<1>1. Capacity - 1 \in Int
  BY BatchAssumption
<1>2. IsFiniteSet(Slot) /\ Slot \subseteq Int
  BY <1>1, FS_Interval DEF Slot
<1> QED
  BY <1>2, FS_Subset

\* A later slot has a higher rank.
LEMMA RankGrows ==
  ASSUME NEW S \in SUBSET Slot, NEW x \in S, NEW y \in S, x < y
  PROVE  Rank(S, x) < Rank(S, y)
<1> DEFINE A == {z \in S : z <= x}
           B == {z \in S : z <= y}
<1>1. IsFiniteSet(S) /\ \A s \in S : s \in Int
  BY SlotsAreFinite
<1>2. A \subseteq B /\ y \in B /\ y \notin A /\ B \subseteq S
  BY <1>1
<1> HIDE DEF A, B
<1>3. IsFiniteSet(B)
  BY <1>1, <1>2, FS_Subset
<1>4. /\ Cardinality(A) <= Cardinality(B)
      /\ Cardinality(A) # Cardinality(B)
      /\ Cardinality(A) \in Nat /\ Cardinality(B) \in Nat
  BY <1>2, <1>3, FS_Subset, FS_CardinalityType
<1> QED
  BY <1>4 DEF Rank, A, B

\* The row of a slot is its own, whichever slots are stepped with it.
LEMMA NthOfRank ==
  ASSUME NEW S \in SUBSET Slot, NEW s \in S
  PROVE  /\ Position(S, s) \in 1 .. Cardinality(S)
         /\ Nth(S, Position(S, s)) = s
<1> DEFINE A == {z \in S : z <= s}
<1>1. IsFiniteSet(S) /\ \A z \in S : z \in Int
  BY SlotsAreFinite
<1>2. A \subseteq S /\ s \in A
  BY <1>1
<1> HIDE DEF A
<1>3. /\ Cardinality(A) \in Nat /\ Cardinality(S) \in Nat
      /\ Cardinality(A) <= Cardinality(S)
      /\ Cardinality(A) # 0
  BY <1>1, <1>2, FS_Subset, FS_CardinalityType, FS_EmptySet
<1>4. Rank(S, s) \in 1 .. Cardinality(S)
  BY <1>3 DEF Rank, A
<1>5. ASSUME NEW z \in S, Rank(S, z) = Rank(S, s)
      PROVE  z = s
  <2>1. Rank(S, s) \in Nat
    BY <1>4, <1>3
  <2>2. CASE z < s
    BY <1>5, <2>1, <2>2, RankGrows
  <2>3. CASE s < z
    BY <1>5, <2>1, <2>3, RankGrows
  <2> QED
    BY <1>1, <2>2, <2>3
<1> QED
  BY <1>4, <1>5 DEF Nth, Position

LEMMA RowOfSlot ==
  ASSUME NEW K, NEW M, Active \subseteq Slot, NEW s \in Active
  PROVE  Rows(K, M)[Position(Active, s)] = Row(K, M, s)
<1>1. /\ Position(Active, s) \in 1 .. Cardinality(Active)
      /\ Nth(Active, Position(Active, s)) = s
  BY NthOfRank
<1> QED
  BY <1>1 DEF Rows

\* The slots of a chunk are the first ones, and their days those that are next.
LEMMA ChunkDays ==
  ASSUME offset \in Nat
  PROVE  /\ Chunk \subseteq Slot
         /\ \A s \in Chunk : s \in Nat /\ offset + s \in Day /\ Length[offset + s] \in Nat \ {0}
         /\ Cardinality(Chunk) \in Nat
         /\ \A d \in Day : offset <= d /\ d < offset + Cardinality(Chunk) =>
                             d - offset \in Chunk
<1>1. /\ Capacity \in Nat \ {0} /\ Days \in Nat \ {0} /\ Day = 0 .. Days - 1
      /\ \A d \in Day : Length[d] \in Nat \ {0}
  BY BatchAssumption, EvaluationAssumption
<1>2. ASSUME NEW s \in Chunk
      PROVE  s \in Nat /\ offset + s \in Day
  BY <1>1 DEF Chunk, Slot
<1> DEFINE m == IF offset >= Days THEN 0
                ELSE IF Capacity < Days - offset THEN Capacity ELSE Days - offset
<1>3. m \in Nat /\ Chunk = 0 .. m - 1
  BY <1>1 DEF Chunk, Slot
<1> HIDE DEF m
<1>4. Cardinality(Chunk) = m
  BY <1>3, FS_Interval
<1>5. \A d \in Day : offset <= d /\ d < offset + Cardinality(Chunk) => d - offset \in Chunk
  BY <1>1, <1>3, <1>4
<1> QED
  BY <1>1, <1>2, <1>3, <1>4, <1>5 DEF Chunk

\* One more interval makes the costs of one more.
LEMMA CostsGrow ==
  ASSUME NEW d, NEW n \in Nat
  PROVE  Append(CostsOf(d, n), <<d, n + 1>>) = CostsOf(d, n + 1)
<1> DEFINE C == CostsOf(d, n)
           x == <<d, n + 1>>
           S == {<<d, k>> : k \in 1 .. n + 1}
<1>1. C \in Seq(S) /\ Len(C) = n /\ \A k \in 1 .. n : C[k] = <<d, k>>
  BY DEF CostsOf
<1>2. x \in S
  OBVIOUS
<1> HIDE DEF C, S, x
<1>3. /\ Append(C, x) \in Seq(S) /\ Len(Append(C, x)) = n + 1
      /\ \A k \in 1 .. n : Append(C, x)[k] = C[k]
      /\ Append(C, x)[n + 1] = x
  BY <1>1, <1>2
<1> DEFINE all == Append(C, x)
<1>4. /\ all \in Seq(S) /\ Len(all) = n + 1
      /\ \A k \in 1 .. n + 1 : all[k] = <<d, k>>
  BY <1>1, <1>3 DEF x
<1> HIDE DEF all
<1>5. all = [k \in 1 .. n + 1 |-> all[k]]
  BY <1>4
<1>6. all = [k \in 1 .. n + 1 |-> <<d, k>>]
  BY <1>4, <1>5
<1> QED
  BY <1>6 DEF all, C, x, CostsOf

-----------------------------------------------------------------------------
(* The actions *)

LEMMA InitHolds == EvalInit => EvaluationInv
<1> SUFFICES ASSUME EvalInit
             PROVE  EvaluationInv
  OBVIOUS
<1>1. /\ kernel = NewKernel /\ memory = [s \in Slot |-> Blank]
      /\ phase = "idle" /\ offset = 0
  BY DEF EvalInit
<1> QED
  BY <1>1, NewKernelType DEF EvaluationInv, RecordsEachDayItself

\* A new evaluation starts from the first day, whatever the last one left.
LEMMA BeginKeeps ==
  ASSUME EvaluationInv, Begin
  PROVE  EvaluationInv'
<1>1. /\ kernel' = kernel /\ memory' = memory /\ phase' = "running"
      /\ offset' = 0 /\ slots' = <<>>
  BY DEF Begin, poolVars
<1>2. RecordedBefore(offset)'
  BY <1>1, EvaluationAssumption DEF RecordedBefore
<1> QED
  BY <1>1, <1>2 DEF EvaluationInv, RecordsEachDayItself

\* A chunk begins with its days and nothing of the days before them.
LEMMA StartChunkKeeps ==
  ASSUME EvaluationInv, StartChunk
  PROVE  EvaluationInv'
<1>1. /\ phase = "running" /\ offset < Days /\ offset \in Nat
      /\ phase' = phase /\ offset' = offset /\ records' = records
      /\ memory' = Cleared(memory, Chunk)
      /\ slots' = [s \in Chunk |->
           [day |-> offset + s, costs |-> <<>>, done |-> FALSE,
            obs |-> Observation(kernel', memory', s, TRUE)]]
      /\ masks' = [s \in Chunk |-> kernel'.mask[s]]
      /\ kernel \in Kernels /\ DOMAIN memory = Slot
  BY DEF StartChunk, EvaluationInv
<1> DEFINE days == [s \in Chunk |-> offset + s]
<1>2. PICK F \in [Slot -> Feasible] : kernel' = ResetBatch(kernel, days, F)
  BY DEF StartChunk
<1>3. /\ Chunk \subseteq Slot
      /\ \A s \in Chunk : offset + s \in Day /\ Length[offset + s] \in Nat \ {0}
  BY <1>1, ChunkDays
<1>4. DOMAIN days = Chunk /\ \A s \in Chunk : days[s] = offset + s
  OBVIOUS
<1> HIDE DEF days
<1>5. DOMAIN days \subseteq Slot /\ \A s \in DOMAIN days : days[s] \in Day
  BY <1>3, <1>4
<1>6. /\ kernel' \in Kernels
      /\ \A s \in Chunk : /\ kernel'.episode[s] = Episode(offset + s)
                          /\ kernel'.mask[s] = kernel'.feasible[s]
  BY <1>1, <1>2, <1>4, <1>5, ResetResult
<1>7. /\ DOMAIN memory' = Slot
      /\ \A s \in Chunk : memory'[s] = Blank
  BY <1>1, <1>3 DEF Cleared, Updated
<1>8. ASSUME NEW s \in Chunk
      PROVE  GoodSlot(s)'
  <2> DEFINE d == offset + s
             o == Observation(kernel', memory', s, TRUE)
  <2>1. /\ kernel'.episode[s].day = d /\ kernel'.episode[s].run = 0
        /\ ~kernel'.episode[s].torn
    BY <1>6, EpisodeFields
  <2>2. Length[d] \in Nat \ {0}
    BY <1>3
  <2>3. o.day = d /\ o.run = 0 /\ o.memory = memory'[s]
    BY <2>1 DEF Observation
  <2>4. memory'[s] = History(d, 0)
    BY <1>7, BlankHistory
  <2>5. CostsOf(d, 0) = <<>>
    BY DEF CostsOf
  <2> HIDE DEF o
  <2>6. /\ DOMAIN slots'[s] = {"day", "costs", "done", "obs"}
        /\ slots'[s].day = d /\ slots'[s].costs = <<>> /\ ~slots'[s].done
        /\ slots'[s].obs = o
    BY <1>1 DEF o
  <2>7. masks'[s] = kernel'.feasible[s] /\ kernel'.mask[s] = kernel'.feasible[s]
    BY <1>1, <1>6
  <2> HIDE DEF d
  <2>8. offset' + s = d
    BY <1>1 DEF d
  <2> QED
    BY <2>1, <2>2, <2>3, <2>4, <2>5, <2>6, <2>7, <2>8 DEF GoodSlot
<1>9. Chunk' = Chunk
  BY <1>1 DEF Chunk
<1>10. GoodChunk'
  BY <1>1, <1>8, <1>9 DEF GoodChunk
<1> QED
  BY <1>1, <1>6, <1>7, <1>10 DEF EvaluationInv, RecordedBefore, RecordsEachDayItself

\* What a step does to a slot that is stepped.
LEMMA SteppedSlot ==
  ASSUME EvaluationInv, phase = "running", GoodChunk,
         NEW F \in [Slot -> Feasible], NEW R, R = StepBatch(kernel, Active, F),
         NEW M, M = Pushed(memory, Active, R),
         NEW s \in Active
  PROVE  LET d == offset + s
             e == kernel.episode[s]
         IN /\ R.episode[s].day = d /\ R.episode[s].run = e.run + 1
            /\ ~R.episode[s].torn
            /\ e.run \in Nat /\ e.run + 1 <= Length[d]
            /\ R.mask[s] = R.feasible[s]
            /\ M[s] = History(d, e.run + 1)
            /\ Arrivals(R.episode[s]) = <<d, e.run + 1>>
            /\ Over(R.episode[s]) <=> e.run + 1 = Length[d]
<1> DEFINE d == offset + s
           n == kernel.episode[s].run
<1>1. /\ Active \subseteq Slot /\ s \in Chunk /\ s \in Slot
      /\ Length[d] \in Nat
  BY ChunkDays DEF EvaluationInv, GoodChunk, Active
<1>2. GoodSlot(s) /\ ~slots[s].done
  BY <1>1 DEF GoodChunk, Active
<1>3. n \in Nat
  BY <1>1 DEF EvaluationInv, Kernels, Episodes
<1>4. kernel.episode[s].day = d /\ ~kernel.episode[s].torn /\ n <= Length[d] /\ n # Length[d]
      /\ memory[s] = History(d, n)
  BY <1>2 DEF GoodSlot
<1>5. R = Advance(kernel, Active, F)
  BY DEF StepBatch
<1>6. /\ R.episode[s].day = d /\ R.episode[s].run = n + 1 /\ ~R.episode[s].torn
      /\ R.mask[s] = R.feasible[s]
  <2>1. kernel \in Kernels /\ Active \in SUBSET Slot
    BY <1>1 DEF EvaluationInv
  <2> QED
    BY <1>4, <1>5, <2>1, AdvanceResult
<1>7. Arrivals(R.episode[s]) = <<d, n + 1>>
  BY <1>6 DEF Arrivals
<1>8. M[s] = <<Arrivals(R.episode[s])>> \o Front(memory[s])
  BY <1>1 DEF Pushed, Updated, EvaluationInv
<1> HIDE DEF d, n
<1>9. M[s] = History(d, n + 1)
  BY <1>3, <1>4, <1>7, <1>8, PushHistory
<1>10. n + 1 <= Length[d]
  BY <1>1, <1>3, <1>4
<1>11. Over(R.episode[s]) <=> n + 1 = Length[d]
  BY <1>6 DEF Over
<1> QED
  BY <1>3, <1>6, <1>7, <1>9, <1>10, <1>11 DEF d, n

\* What the runner takes from the row of a slot that was stepped.
LEMMA TakenSlot ==
  ASSUME NEW K, NEW M, Active \subseteq Slot, NEW s \in Active,
         DOMAIN slots[s] = {"day", "costs", "done", "obs"}
  PROVE  LET t == Taken(Rows(K, M))[s]
         IN /\ DOMAIN t = {"day", "costs", "done", "obs"}
            /\ t.day = slots[s].day
            /\ t.costs = Append(slots[s].costs, Arrivals(K.episode[s]))
            /\ t.done = Over(K.episode[s])
            /\ t.obs = Observation(K, M, s, FALSE)
<1> DEFINE row == Row(K, M, s)
<1>1. Taken(Rows(K, M))[s] =
        [slots[s] EXCEPT !.obs = row.obs, !.costs = Append(@, row.cost), !.done = row.over]
  BY RowOfSlot, Zenon DEF Taken
<1>2. /\ row.obs = Observation(K, M, s, FALSE) /\ row.cost = Arrivals(K.episode[s])
      /\ row.over = Over(K.episode[s])
  BY Zenon DEF Row
<1> HIDE DEF row
<1> QED
  BY <1>1, <1>2

\* A step takes every active slot one interval on, from its own row, records
\* the days that it ends, and leaves the slots that are done alone.
LEMMA StepChunkKeeps ==
  ASSUME EvaluationInv, StepChunk
  PROVE  EvaluationInv'
<1>1. /\ phase = "running" /\ phase' = phase /\ offset' = offset /\ offset \in Nat
      /\ kernel \in Kernels /\ DOMAIN memory = Slot
  BY DEF StepChunk, EvaluationInv
<1>2. PICK F \in [Slot -> Feasible] : kernel' = StepBatch(kernel, Active, F)
  BY DEF StepChunk
<1> DEFINE taken == Taken(Rows(kernel', memory'))
           fresh == [s \in Active |->
                       Rows(kernel', memory')[Position(Active, s)].mask]
<1>3. /\ memory' = Pushed(memory, Active, kernel')
      /\ slots' = Updated(slots, taken)
      /\ masks' = Updated(masks, fresh)
      /\ records' = Recorded(taken)
  BY DEF StepChunk
<1>4. GoodChunk
  <2>1. slots # <<>>
    BY DEF StepChunk, Active
  <2> QED
    BY <1>1, <2>1 DEF EvaluationInv
<1>5. /\ Chunk \subseteq Slot /\ Active \subseteq Chunk /\ Active \in SUBSET Slot
      /\ \A s \in Chunk : s \in Nat /\ offset + s \in Day /\ Length[offset + s] \in Nat \ {0}
  BY <1>1, <1>4, ChunkDays DEF GoodChunk, Active
<1>6. \A s \in Chunk : GoodSlot(s)
  BY <1>4 DEF GoodChunk
<1>7. DOMAIN taken = Active /\ DOMAIN fresh = Active
  BY DEF Taken
<1>8. ASSUME NEW s \in Active
      PROVE  /\ DOMAIN taken[s] = {"day", "costs", "done", "obs"}
             /\ taken[s].day = offset + s
             /\ taken[s].costs = CostsOf(offset + s, kernel'.episode[s].run)
             /\ taken[s].done <=> kernel'.episode[s].run = Length[offset + s]
             /\ taken[s].obs.day = offset + s
             /\ taken[s].obs.run = kernel'.episode[s].run
             /\ taken[s].obs.memory = memory'[s]
             /\ memory'[s] = History(offset + s, kernel'.episode[s].run)
             /\ kernel'.episode[s].day = offset + s /\ ~kernel'.episode[s].torn
             /\ kernel'.episode[s].run <= Length[offset + s]
             /\ kernel'.mask[s] = kernel'.feasible[s]
             /\ fresh[s] = kernel'.mask[s]
  <2> DEFINE d == offset + s
             n == kernel.episode[s].run
  <2>1. GoodSlot(s)
    BY <1>5, <1>6
  <2>2. /\ kernel'.episode[s].day = d /\ kernel'.episode[s].run = n + 1
        /\ ~kernel'.episode[s].torn
        /\ n \in Nat /\ n + 1 <= Length[d]
        /\ kernel'.mask[s] = kernel'.feasible[s]
        /\ memory'[s] = History(d, n + 1)
        /\ Arrivals(kernel'.episode[s]) = <<d, n + 1>>
        /\ Over(kernel'.episode[s]) <=> n + 1 = Length[d]
    BY <1>1, <1>2, <1>3, <1>4, SteppedSlot
  <2>3. /\ DOMAIN slots[s] = {"day", "costs", "done", "obs"}
        /\ slots[s].day = d /\ slots[s].costs = CostsOf(d, n)
    BY <2>1 DEF GoodSlot
  <2>4. /\ DOMAIN taken[s] = {"day", "costs", "done", "obs"}
        /\ taken[s].day = d
        /\ taken[s].costs = Append(CostsOf(d, n), <<d, n + 1>>)
        /\ taken[s].done = Over(kernel'.episode[s])
        /\ taken[s].obs = Observation(kernel', memory', s, FALSE)
    <3>1. /\ DOMAIN taken[s] = {"day", "costs", "done", "obs"}
          /\ taken[s].day = slots[s].day
          /\ taken[s].costs = Append(slots[s].costs, Arrivals(kernel'.episode[s]))
          /\ taken[s].done = Over(kernel'.episode[s])
          /\ taken[s].obs = Observation(kernel', memory', s, FALSE)
      <4>1. Active \subseteq Slot
        BY <1>5
      <4>2. DOMAIN slots[s] = {"day", "costs", "done", "obs"}
        BY <2>3
      <4> QED
        BY <4>1, <4>2, TakenSlot, Zenon
    <3> HIDE DEF taken, d, n
    <3> QED
      BY <2>2, <2>3, <3>1
  <2>5. fresh[s] = kernel'.mask[s]
    <3>1. Rows(kernel', memory')[Position(Active, s)] = Row(kernel', memory', s)
      BY <1>5, RowOfSlot
    <3> QED
      BY <3>1 DEF Row
  <2>6. /\ taken[s].obs.day = kernel'.episode[s].day
        /\ taken[s].obs.run = kernel'.episode[s].run
        /\ taken[s].obs.memory = memory'[s]
    <3> HIDE DEF taken
    <3> QED
      BY <2>4 DEF Observation
  <2> HIDE DEF taken, fresh, d, n
  <2>7. taken[s].costs = CostsOf(d, n + 1)
    BY <2>2, <2>4, CostsGrow
  <2>8. taken[s].done <=> n + 1 = Length[d]
    BY <2>2, <2>4
  <2>9. d = offset + s
    BY DEF d
  <2>10. DOMAIN taken[s] = {"day", "costs", "done", "obs"} /\ taken[s].day = d
    BY <2>4
  <2>11. kernel'.episode[s].run = n + 1 /\ memory'[s] = History(d, n + 1)
    BY <2>2
  <2>12. /\ kernel'.episode[s].day = d /\ ~kernel'.episode[s].torn
         /\ kernel'.episode[s].run <= Length[d]
         /\ kernel'.mask[s] = kernel'.feasible[s]
    BY <2>2
  <2> QED
    BY <2>5, <2>6, <2>7, <2>8, <2>9, <2>10, <2>11, <2>12
<1> HIDE DEF taken, fresh
<1>9. kernel' \in Kernels
  BY <1>1, <1>2, <1>5, AdvanceResult DEF StepBatch
<1>10. DOMAIN memory' = Slot
  BY <1>1, <1>3 DEF Pushed, Updated
<1>11. /\ DOMAIN slots' = Chunk /\ DOMAIN masks' = Chunk
       /\ \A s \in Active : slots'[s] = taken[s] /\ masks'[s] = fresh[s]
       /\ \A s \in Chunk \ Active : slots'[s] = slots[s] /\ masks'[s] = masks[s]
  BY <1>3, <1>4, <1>5, <1>7 DEF Updated, GoodChunk
\* The days whose record changes are those that the step ends.
<1>12. ASSUME NEW s \in Active, taken[s].done
       PROVE  records'[offset + s] = CostsOf(offset + s, Length[offset + s])
  <2> DEFINE d == offset + s
             ending == {x \in DOMAIN taken : taken[x].day = d /\ taken[x].done}
  <2>1. ending = {s}
    <3>1. \A x \in Active : taken[x].day = offset + x /\ x \in Nat
      BY <1>5, <1>8
    <3> QED
      BY <1>1, <1>7, <1>12, <3>1
  <2>2. records'[d] = taken[CHOOSE x \in ending : TRUE].costs
    BY <1>3, <1>5, <2>1 DEF Recorded
  <2>3. records'[d] = taken[s].costs
    BY <2>1, <2>2
  <2> QED
    BY <1>8, <1>12, <2>3
<1>13. ASSUME NEW d \in Day, \A s \in Active : offset + s = d => ~taken[s].done
       PROVE  records'[d] = records[d]
  <2> DEFINE ending == {x \in DOMAIN taken : taken[x].day = d /\ taken[x].done}
  <2>1. ending = {}
    BY <1>7, <1>8, <1>13
  <2> QED
    BY <1>3, <2>1 DEF Recorded
<1>14. ASSUME NEW s \in Chunk
       PROVE  GoodSlot(s)'
  <2>1. offset' + s = offset + s
    BY <1>1
  <2>2. CASE s \in Active
    BY <1>8, <1>11, <1>12, <2>1, <2>2 DEF GoodSlot
  <2>3. CASE s \notin Active
    <3>1. s \in Slot \ Active
      BY <1>5, <2>3
    <3>2. /\ kernel'.episode[s] = kernel.episode[s]
          /\ kernel'.mask[s] = kernel.mask[s]
          /\ kernel'.feasible[s] = kernel.feasible[s]
      BY <1>1, <1>2, <1>5, <3>1, AdvanceLeaves DEF StepBatch
    <3>3. memory'[s] = memory[s]
      BY <1>1, <1>3, <3>1 DEF Pushed, Updated
    <3>4. slots'[s] = slots[s] /\ masks'[s] = masks[s]
      BY <1>11, <2>3
    <3>5. records'[offset + s] = records[offset + s]
      <4>1. \A x \in Active : offset + x # offset + s
        BY <1>1, <1>5, <2>3
      <4> QED
        BY <1>5, <1>13, <4>1
    <3>6. GoodSlot(s)
      BY <1>6
    <3> QED
      BY <2>1, <3>2, <3>3, <3>4, <3>5, <3>6 DEF GoodSlot
  <2> QED
    BY <2>2, <2>3
<1>15. GoodChunk'
  <2>1. Chunk' = Chunk
    BY <1>1 DEF Chunk
  <2> QED
    BY <1>1, <1>4, <1>11, <1>14, <2>1 DEF GoodChunk
<1>16. RecordedBefore(offset)'
  <2> SUFFICES ASSUME NEW d \in Day, d < offset
               PROVE  records'[d] = CostsOf(d, Length[d])
    BY <1>1 DEF RecordedBefore
  <2>1. \A s \in Active : offset + s # d
    BY <1>1, <1>5, EvaluationAssumption
  <2>2. records'[d] = records[d]
    BY <1>13, <2>1
  <2> QED
    BY <1>1, <2>2 DEF EvaluationInv, RecordedBefore
<1> QED
  BY <1>1, <1>9, <1>10, <1>15, <1>16 DEF EvaluationInv, RecordsEachDayItself

\* After an error nothing is claimed but that the pool is still one.
LEMMA StepRaisesKeeps ==
  ASSUME EvaluationInv, StepRaises
  PROVE  EvaluationInv'
<1>1. /\ phase = "running" /\ phase' = "raised" /\ offset' = offset /\ memory' = memory
  BY DEF StepRaises
<1>2. PICK F \in [Slot -> Feasible], f \in Active : kernel' = StepUpTo(kernel, Active, f, F)
  BY DEF StepRaises
<1>3. Active \in SUBSET Slot
  <2>1. slots # <<>>
    BY <1>2 DEF Active
  <2> QED
    BY <1>1, <2>1, ChunkDays DEF EvaluationInv, GoodChunk, Active
<1>4. kernel' \in Kernels
  BY <1>2, <1>3, FailResult DEF EvaluationInv
<1> QED
  BY <1>1, <1>4 DEF EvaluationInv, RecordsEachDayItself

\* The next chunk begins where the days that were not run begin.
LEMMA EndChunkKeeps ==
  ASSUME EvaluationInv, EndChunk
  PROVE  EvaluationInv'
<1>1. /\ phase = "running" /\ Active = {} /\ slots # <<>>
      /\ offset' = offset + Cardinality(DOMAIN slots)
      /\ slots' = <<>>
      /\ kernel' = kernel /\ memory' = memory /\ phase' = phase /\ records' = records
  BY DEF EndChunk, NextOffset
<1>2. GoodChunk /\ RecordedBefore(offset) /\ offset \in Nat
  BY <1>1 DEF EvaluationInv
<1>3. /\ DOMAIN slots = Chunk
      /\ Cardinality(Chunk) \in Nat
      /\ \A d \in Day : offset <= d /\ d < offset + Cardinality(Chunk) =>
                          d - offset \in Chunk
  BY <1>2, ChunkDays DEF GoodChunk
<1>4. ASSUME NEW d \in Day, d < offset'
      PROVE  records[d] = CostsOf(d, Length[d])
  <2>1. d \in Int
    BY EvaluationAssumption
  <2>2. CASE d < offset
    BY <1>2, <2>2 DEF RecordedBefore
  <2>3. CASE offset <= d
    <3>1. d - offset \in Chunk
      BY <1>1, <1>3, <1>4, <2>3
    <3>2. slots[d - offset].done /\ GoodSlot(d - offset)
      BY <1>1, <1>2, <1>3, <3>1 DEF Active, GoodChunk
    <3>3. offset + (d - offset) = d
      BY <1>2, <2>1
    <3> QED
      BY <3>2, <3>3 DEF GoodSlot
  <2> QED
    BY <1>2, <2>1, <2>2, <2>3
<1>5. offset' \in Nat
  BY <1>1, <1>2, <1>3
<1>6. RecordedBefore(offset)'
  BY <1>1, <1>4 DEF RecordedBefore
<1> QED
  BY <1>1, <1>5, <1>6 DEF EvaluationInv, RecordsEachDayItself

\* When no chunk is left, every day is recorded.
LEMMA ReturnKeeps ==
  ASSUME EvaluationInv, Return
  PROVE  EvaluationInv'
<1>1. /\ phase = "running" /\ slots = <<>> /\ offset >= Days
      /\ phase' \in {"raised", "returned"}
      /\ UNCHANGED <<kernel, memory, offset, slots, masks, records>>
  BY DEF Return
<1>2. \A d \in Day : records[d] = CostsOf(d, Length[d])
  BY <1>1, EvaluationAssumption DEF EvaluationInv, RecordedBefore
<1>3. RecordsEachDayItself'
  BY <1>1, <1>2 DEF RecordsEachDayItself, CostsOf
<1> QED
  BY <1>1, <1>3 DEF EvaluationInv

LEMMA NextKeepsInv == EvaluationInv /\ [EvalNext]_evalVars => EvaluationInv'
<1> SUFFICES ASSUME EvaluationInv, [EvalNext]_evalVars
             PROVE  EvaluationInv'
  OBVIOUS
<1>1. CASE UNCHANGED evalVars
  BY <1>1 DEF evalVars, EvaluationInv, GoodChunk, GoodSlot, Chunk, RecordedBefore,
              RecordsEachDayItself
<1> QED
  BY <1>1, BeginKeeps, StartChunkKeeps, StepChunkKeeps, StepRaisesKeeps,
     EndChunkKeeps, ReturnKeeps DEF EvalNext, Run

\* EvaluationInv is an invariant of the evaluation (runner.py:353-470).
THEOREM EvaluationInvariance == EvalSpec => []EvaluationInv
BY InitHolds, NextKeepsInv, PTL DEF EvalSpec

\* An evaluation that returns has a record of every day, of all its intervals
\* and of no other day's, in whatever order the slots of a chunk end
\* (runner.py:407-470).
THEOREM EveryDayItself == EvalSpec => []RecordsEachDayItself
<1>1. EvaluationInv => RecordsEachDayItself
  BY DEF EvaluationInv
<1> QED
  BY <1>1, EvaluationInvariance, PTL

\* The slots that are stepped next have an interval to run, whole days, and
\* their own observation, memory and mask (runner.py:407-441).
THEOREM OwnDaysOnly == EvalSpec => []StepsItsOwnDays
<1>1. EvaluationInv => StepsItsOwnDays
  <2> SUFFICES ASSUME EvaluationInv, phase = "running", NEW s \in Active
               PROVE  LET e == kernel.episode[s]
                      IN /\ ~Over(e) /\ ~e.torn
                         /\ slots[s].obs.day = slots[s].day /\ e.day = slots[s].day
                         /\ slots[s].obs.run = e.run
                         /\ slots[s].obs.memory = History(e.day, e.run)
                         /\ masks[s] = kernel.feasible[s]
    BY DEF StepsItsOwnDays
  <2>1. slots # <<>>
    BY DEF Active
  <2>2. GoodSlot(s) /\ ~slots[s].done
    BY <2>1 DEF EvaluationInv, GoodChunk, Active
  <2> QED
    BY <2>2 DEF GoodSlot, Over
<1> QED
  BY <1>1, EvaluationInvariance, PTL
================================================================================
