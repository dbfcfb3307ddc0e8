--------------------------- MODULE ExperimentProofs ---------------------------
(***************************************************************************)
(* Proofs about module Experiment, for any matrix of policies, seeds and   *)
(* splits, any configuration of the trainings, any number of workers and   *)
(* of faults.  The inductive invariant has one part for each training and  *)
(* its directory, Sound, one for the plan everything is made by, and one   *)
(* for the process of the run; a second one, EvidenceInv, follows what is  *)
(* trained, evaluated and exported through the stages of the run.          *)
(***************************************************************************)
EXTENDS Experiment, WellFoundedInduction, TLAPS

Rows == [timesteps : Nat, updates : Nat, cost : Costs, eligible : BOOLEAN]

Working == {"collect", "update", "finalize", "metadata", "writing"}

Processes ==
  [at : Working \cup {"none", "launched", "done", "failed", "misaligned"},
   timesteps : Nat, filled : Nat, updates : Nat, nextEval : Int,
   best : Nat, bestAt : Int, history : Seq(Rows),
   episodes : Nat, recordedAt : Nat, recorded : SUBSET Nat]

Descriptions ==
  [state : {"absent", "torn"}]
  \cup [state : {"complete"}, best : Int, cost : Nat, at : Int, timesteps : Nat]

Directories ==
  [made : BOOLEAN, best : Int, last : Int, history : Seq(Rows),
   meta : Descriptions]

\* kept is the policy of lowest cost in H, the earliest of them, validated at
\* step at.
BestOf(H, cost, at, kept) ==
  \E i \in DOMAIN H :
    /\ H[i].eligible
    /\ H[i].updates = kept /\ H[i].timesteps = at /\ H[i].cost = cost
    /\ \A k \in DOMAIN H : H[k].eligible =>
         cost <= H[k].cost /\ (k < i => cost < H[k].cost)

\* What a training knows of its history: the row of the untrained policy alone
\* is not eligible.
Judged(H, best, at, kept) ==
  /\ \A i \in DOMAIN H : ~H[i].eligible => H[i].updates = 0 /\ H[i].timesteps = 0
  /\ \/ best = Infinity /\ \A i \in DOMAIN H : ~H[i].eligible
     \/ BestOf(H, best, at, kept)

Rollout(a) == EffectiveSteps(a) * a.envs

\* The steps of a training are its rollouts, the last one perhaps begun.
Advanced(a, T) ==
  /\ T.at \in {"collect", "update"} =>
       /\ T.timesteps = T.updates * Rollout(a) + T.filled * a.envs
       /\ T.updates * Rollout(a) < a.total
  /\ T.at = "update" => T.filled = EffectiveSteps(a)
  /\ T.at = "finalize" =>
       T.timesteps >= a.total /\ T.updates >= 1 /\ Spends(a, T.updates)

\* With post_update timing the last policy was judged.
LastJudged(a, H) ==
  a.timing = "post_update" =>
    \E i \in DOMAIN H : H[i].eligible /\ Spends(a, H[i].updates)

\* With post_update timing no untrained policy is eligible.
OnlyTrained(a, H) ==
  a.timing = "post_update" =>
    \A i \in DOMAIN H : H[i].eligible => H[i].updates > 0

\* The directory of a training, and its process.
SoundFiles(a, D) ==
  /\ D \in Directories
  /\ D.meta.state # "absent" => D.made
  /\ D.meta.state = "complete" =>
       /\ BestOf(D.history, D.meta.cost, D.meta.at, D.best)
       /\ D.meta.best = D.best
       /\ LastJudged(a, D.history)
       /\ OnlyTrained(a, D.history)

SoundRun(a, T, D) ==
  /\ T \in Processes
  /\ T.at \in Working =>
       D.made /\ D.meta.state = IF T.at = "writing" THEN "torn" ELSE "absent"
  /\ T.at \in Working =>
       Judged(T.history, T.best, T.bestAt, D.best) /\ OnlyTrained(a, T.history)
  /\ Advanced(a, T)
  /\ T.at \in {"metadata", "writing"} =>
       /\ D.history = T.history
       /\ BestOf(D.history, T.best, T.bestAt, D.best)
       /\ LastJudged(a, D.history)

\* REINFORCE has done q whole days and r steps of the next one.
DaysDone(a, n, episodes) ==
  \E q \in Nat, r \in 0 .. EpisodeSteps - 1 :
    n = q * EpisodeSteps + r /\ episodes = q * a.envs

Whole(a, T) ==
  a.name = "reinforce" =>
    /\ T.at # "misaligned"
    /\ T.at \in Working => ValidSetup(a)
    /\ T.at \in {"collect", "update"} =>
         DaysDone(a, T.updates * EffectiveSteps(a) + T.filled, T.episodes)
    /\ T.at \in {"finalize", "metadata", "writing", "done"} =>
         T.timesteps = a.total /\ T.episodes * EpisodeSteps = T.timesteps

Sound(a, T, D) == SoundFiles(a, D) /\ SoundRun(a, T, D) /\ Whole(a, T)

TrainingInv ==
  /\ train \in [Job -> Processes] /\ files \in [Job -> Directories]
  /\ \A j \in Job : Sound(Algorithm(j), train[j], files[j])

ValidAlgorithm(a) ==
  /\ {a.steps, a.envs, a.total} \subseteq Nat \ {0}
  /\ a.evalFreq \in Nat

-----------------------------------------------------------------------------
(* Whole days *)

LEMMA SmallMultiple ==
  ASSUME NEW E \in Nat \ {0}, NEW d \in Int, -E < d * E, d * E < E
  PROVE  d = 0
<1>1. d >= 1 => d * E >= E
  OBVIOUS
<1>2. d <= -1 => d * E <= -E
  OBVIOUS
<1> QED
  BY <1>1, <1>2

LEMMA Division ==
  ASSUME NEW E \in Nat \ {0}, NEW q \in Nat, NEW r \in 0 .. E - 1
  PROVE  (q * E + r) \div E = q /\ (q * E + r) % E = r
<1> DEFINE x == q * E + r
           d == x \div E
           m == x % E
<1>1. x \in Nat
  OBVIOUS
<1>2. d \in Int /\ m \in 0 .. E - 1 /\ x = d * E + m
  <2> HIDE DEF x
  <2> QED
    BY <1>1
<1> HIDE DEF d, m
<1>3. (q - d) * E = m - r
  BY <1>2
<1>4. q - d = 0
  BY <1>2, <1>3, SmallMultiple
<1> QED
  BY <1>2, <1>3, <1>4 DEF d, m

LEMMA ExactDivision ==
  ASSUME NEW E \in Nat \ {0}, NEW q \in Nat
  PROVE  (q * E) \div E = q /\ (q * E) % E = 0
<1>1. 0 \in 0 .. E - 1 /\ q * E + 0 = q * E
  OBVIOUS
<1>2. (q * E + 0) \div E = q /\ (q * E + 0) % E = 0
  BY <1>1, Division
<1> QED
  BY <1>1, <1>2

\* A rollout of REINFORCE is a number of days.
LEMMA RolloutOfDays ==
  ASSUME NEW a, ValidAlgorithm(a), a.name = "reinforce", ValidSetup(a)
  PROVE  /\ \E k \in Nat \ {0} : EffectiveSteps(a) = k * EpisodeSteps
         /\ Rollout(a) \in Nat \ {0}
<1> DEFINE k == a.steps \div EpisodeSteps
<1>1. EpisodeSteps \in Nat \ {0} /\ a.steps \in Nat /\ a.envs \in Nat \ {0}
      /\ a.steps >= EpisodeSteps
  BY AlgorithmAssumption DEF ValidAlgorithm, ValidSetup
<1>2. k \in Nat \ {0}
  BY <1>1
<1>3. EffectiveSteps(a) = k * EpisodeSteps
  BY DEF EffectiveSteps
<1> HIDE DEF k
<1>4. k * EpisodeSteps \in Nat \ {0}
  BY <1>1, <1>2
<1>5. EffectiveSteps(a) * a.envs \in Nat \ {0}
  BY <1>1, <1>3, <1>4
<1> QED
  BY <1>2, <1>3, <1>5 DEF Rollout

\* A step of all environments, the n-th but one.
LEMMA DaysGoOn ==
  ASSUME NEW a, a.envs \in Nat \ {0}, NEW n \in Nat, NEW episodes,
         DaysDone(a, n, episodes),
         NEW dones, dones = ((((n + 1) * a.envs) \div a.envs) % EpisodeSteps = 0)
  PROVE  /\ DaysDone(a, n + 1, IF dones THEN episodes + a.envs ELSE episodes)
         /\ \A m \in Nat : n + 1 = m * EpisodeSteps => dones
<1> DEFINE E == EpisodeSteps
<1>1. E \in Nat \ {0}
  BY AlgorithmAssumption
<1>2. PICK q \in Nat, r \in 0 .. E - 1 : n = q * E + r /\ episodes = q * a.envs
  BY DEF DaysDone
<1>3. ((n + 1) * a.envs) \div a.envs = n + 1
  <2>1. n + 1 \in Nat
    OBVIOUS
  <2> QED
    BY <2>1, ExactDivision
<1>4. dones <=> (n + 1) % E = 0
  BY <1>3
<1> HIDE DEF E
<1>5. \A m \in Nat : n + 1 = m * E => (n + 1) % E = 0
  <2>1. ASSUME NEW m \in Nat, n + 1 = m * E
        PROVE  (n + 1) % E = 0
    BY <1>1, <2>1, ExactDivision
  <2> QED
    BY <2>1
<1>6. CASE r + 1 \in 0 .. E - 1
  <2>1. n + 1 = q * E + (r + 1)
    BY <1>1, <1>2
  <2>2. (n + 1) % E = r + 1
    BY <1>1, <1>6, <2>1, Division
  <2>3. ~dones
    BY <1>2, <1>4, <2>2
  <2>4. DaysDone(a, n + 1, episodes)
    BY <1>2, <1>6, <2>1 DEF DaysDone, E
  <2> QED
    BY <1>4, <1>5, <2>3, <2>4 DEF E
<1>7. CASE r + 1 = E
  <2>1. n + 1 = (q + 1) * E + 0
    BY <1>1, <1>2, <1>7
  <2>2. dones
    BY <1>1, <1>4, <1>5, <2>1
  <2>3. episodes + a.envs = (q + 1) * a.envs
    <3> DEFINE e == a.envs
    <3>1. e \in Nat /\ episodes = q * e
      BY <1>2
    <3> HIDE DEF e
    <3>2. episodes + e = (q + 1) * e
      BY <3>1
    <3> QED
      BY <3>2 DEF e
  <2>4. DaysDone(a, n + 1, episodes + a.envs)
    BY <1>1, <2>1, <2>3 DEF DaysDone, E
  <2> QED
    BY <1>4, <1>5, <2>2, <2>4 DEF E
<1> QED
  BY <1>1, <1>2, <1>6, <1>7

-----------------------------------------------------------------------------
(* Validation *)

LEMMA RolloutIsInt ==
  ASSUME NEW a, ValidAlgorithm(a)
  PROVE  EffectiveSteps(a) \in Int /\ Rollout(a) \in Int
<1>1. EpisodeSteps \in Nat \ {0} /\ a.steps \in Nat /\ a.envs \in Nat
  BY AlgorithmAssumption DEF ValidAlgorithm
<1>2. a.steps \div EpisodeSteps \in Int
  BY <1>1
<1>3. EffectiveSteps(a) \in Int
  BY <1>1, <1>2 DEF EffectiveSteps
<1> QED
  BY <1>1, <1>3 DEF Rollout

\* An eligible row keeps the judgement, whether or not it is the new best.
LEMMA JudgedOnce ==
  ASSUME NEW H \in Seq(Rows), NEW row \in Rows, row.eligible,
         NEW best, NEW at, NEW kept, best \in Nat, Judged(H, best, at, kept)
  PROVE  /\ row.cost < best =>
              Judged(Append(H, row), row.cost, row.timesteps, row.updates)
         /\ ~(row.cost < best) => Judged(Append(H, row), best, at, kept)
<1> DEFINE n == Len(H)
           G == Append(H, row)
<1>1. n \in Nat /\ DOMAIN H = 1 .. n
  OBVIOUS
<1>2. /\ DOMAIN G = 1 .. n + 1 /\ G[n + 1] = row
      /\ \A i \in 1 .. n : G[i] = H[i]
  OBVIOUS
<1>3. row.cost \in Nat /\ row.cost < Infinity /\ Infinity \in Nat
  BY CostAssumption DEF Rows
<1>4. \A i \in 1 .. n : H[i].cost \in Nat
  <2>1. \A i \in 1 .. n : H[i] \in Rows
    OBVIOUS
  <2>2. \A r \in Rows : r.cost \in Nat
    BY CostAssumption DEF Rows
  <2> QED
    BY <2>1, <2>2
<1> HIDE DEF n, G
<1>5. \A i \in DOMAIN G : i \in 1 .. n \/ i = n + 1
  BY <1>1, <1>2
<1>6. \A i \in DOMAIN G : ~G[i].eligible => G[i].updates = 0 /\ G[i].timesteps = 0
  BY <1>1, <1>2, <1>5 DEF Judged
<1>7. ASSUME row.cost < best
      PROVE  Judged(G, row.cost, row.timesteps, row.updates)
  <2>1. \A k \in 1 .. n : H[k].eligible => row.cost < H[k].cost
    <3>1. CASE best = Infinity /\ \A i \in DOMAIN H : ~H[i].eligible
      BY <3>1, <1>1
    <3>2. CASE BestOf(H, best, at, kept)
      BY <3>2, <1>1, <1>3, <1>4, <1>7 DEF BestOf
    <3> QED
      BY <3>1, <3>2 DEF Judged
  <2>2. /\ n + 1 \in DOMAIN G
        /\ \A k \in DOMAIN G : G[k].eligible =>
             row.cost <= G[k].cost /\ (k < n + 1 => row.cost < G[k].cost)
    BY <1>1, <1>2, <1>3, <1>4, <1>5, <2>1
  <2>3. BestOf(G, row.cost, row.timesteps, row.updates)
    BY <2>2, <1>2 DEF BestOf
  <2> QED
    BY <2>3, <1>6 DEF Judged
<1>8. ASSUME ~(row.cost < best)
      PROVE  Judged(G, best, at, kept)
  <2>1. BestOf(H, best, at, kept)
    BY <1>3, <1>8 DEF Judged
  <2>2. PICK i \in DOMAIN H :
          /\ H[i].eligible
          /\ H[i].updates = kept /\ H[i].timesteps = at /\ H[i].cost = best
          /\ \A k \in DOMAIN H : H[k].eligible =>
               best <= H[k].cost /\ (k < i => best < H[k].cost)
    BY <2>1 DEF BestOf
  <2>3. i \in DOMAIN G /\ i \in Nat /\ i < n + 1 /\ G[i] = H[i]
    BY <1>1, <1>2
  <2>4. \A k \in DOMAIN G : G[k].eligible =>
          best <= G[k].cost /\ (k < i => best < G[k].cost)
    BY <1>1, <1>2, <1>3, <1>5, <1>8, <2>2, <2>3
  <2>5. BestOf(G, best, at, kept)
    BY <2>2, <2>3, <2>4 DEF BestOf
  <2> QED
    BY <2>5, <1>6 DEF Judged
<1> QED
  BY <1>7, <1>8 DEF G

LEMMA CostsKnown ==
  ASSUME NEW T \in Processes
  PROVE  CostsOf(T) \subseteq Costs
<1>1. \A i \in DOMAIN T.history : T.history[i].cost \in Costs
  <2>1. T.history \in Seq(Rows)
    BY DEF Processes
  <2>2. \A i \in DOMAIN T.history : T.history[i] \in Rows
    BY <2>1
  <2> QED
    BY <2>2 DEF Rows
<1> QED
  BY <1>1 DEF CostsOf, Range

\* What validation leaves: the judgement holds, of the policy it measured too.
Validates(T, D, due, S) ==
  /\ S = [run |-> S.run, dir |-> S.dir]
  /\ S.run \in Processes /\ S.dir \in Directories
  /\ S.run = [T EXCEPT !.history = S.run.history, !.best = S.run.best,
                       !.bestAt = S.run.bestAt]
  /\ S.dir = [D EXCEPT !.best = S.dir.best]
  /\ Judged(S.run.history, S.run.best, S.run.bestAt, S.dir.best)
  /\ due => \E i \in DOMAIN S.run.history :
              /\ S.run.history[i].eligible
              /\ S.run.history[i].updates = T.updates
              /\ S.run.history[i].timesteps = T.timesteps
  /\ ~due => S.run = T
  /\ \A i \in DOMAIN S.run.history :
       \/ i \in DOMAIN T.history /\ S.run.history[i] = T.history[i]
       \/ due /\ S.run.history[i].updates = T.updates

LEMMA ValidationJudges ==
  ASSUME NEW T \in Processes, NEW D \in Directories, NEW due \in BOOLEAN,
         Judged(T.history, T.best, T.bestAt, D.best),
         NEW S \in Validated([run |-> T, dir |-> D], due)
  PROVE  Validates(T, D, due, S)
<1> USE DEF Validates
<1>1. CASE ~due
  <2>1. S = [run |-> T, dir |-> D]
    BY <1>1 DEF Validated
  <2>2. /\ T = [T EXCEPT !.history = T.history, !.best = T.best,
                        !.bestAt = T.bestAt]
        /\ D = [D EXCEPT !.best = D.best]
    BY DEF Processes, Directories
  <2> QED
    BY <2>1, <2>2, <1>1
<1>2. CASE due
  <2>1. PICK c \in Costs : S = Evaluated([run |-> T, dir |-> D], TRUE, c)
    BY <1>2, CostsKnown DEF Validated
  <2> DEFINE row == [timesteps |-> T.timesteps, updates |-> T.updates,
                     cost |-> c, eligible |-> TRUE]
             G == Append(T.history, row)
  <2>2. row \in Rows
    BY DEF Processes, Rows
  <2>3. /\ S = [run |-> S.run, dir |-> S.dir]
        /\ c < T.best =>
             /\ S.run = [T EXCEPT !.history = G, !.best = c, !.bestAt = T.timesteps]
             /\ S.dir = [D EXCEPT !.best = T.updates]
        /\ ~(c < T.best) => S.run = [T EXCEPT !.history = G] /\ S.dir = D
    BY <2>1 DEF Evaluated, Improves, Processes, Directories
  <2>4. /\ row.timesteps = T.timesteps /\ row.updates = T.updates /\ row.cost = c
        /\ row.eligible
    OBVIOUS
  <2>5. /\ T.history \in Seq(Rows) /\ T.best \in Nat /\ T.timesteps \in Nat
        /\ T.updates \in Nat /\ T.bestAt \in Int /\ T.timesteps \in Int
    BY DEF Processes
  <2> HIDE DEF row
  <2>6. /\ c < T.best => Judged(G, c, T.timesteps, T.updates)
        /\ ~(c < T.best) => Judged(G, T.best, T.bestAt, D.best)
    BY <2>2, <2>4, <2>5, JudgedOnce
  <2>7. G \in Seq(Rows) /\ G[Len(T.history) + 1] = row
        /\ Len(T.history) + 1 \in DOMAIN G
    BY <2>2, <2>5
  <2>11. \A i \in DOMAIN G : \/ i \in DOMAIN T.history /\ G[i] = T.history[i]
                             \/ G[i].updates = T.updates
    BY <2>4, <2>5
  <2> HIDE DEF G
  <2>8. c \in Nat
    BY CostAssumption
  <2>9. CASE c < T.best
    <3>1. /\ S.run = [T EXCEPT !.history = G, !.best = c, !.bestAt = T.timesteps]
          /\ S.dir = [D EXCEPT !.best = T.updates]
      BY <2>3, <2>9
    <3>2. S.run \in Processes /\ S.run.history = G /\ S.run.best = c
          /\ S.run.bestAt = T.timesteps
      BY <3>1, <2>5, <2>7, <2>8 DEF Processes
    <3>3. S.dir \in Directories /\ S.dir.best = T.updates
      BY <3>1, <2>5 DEF Directories
    <3> QED
      BY <2>3, <2>4, <2>6, <2>7, <2>9, <2>11, <3>1, <3>2, <3>3, <1>2
  <2>10. CASE ~(c < T.best)
    <3>1. S.run = [T EXCEPT !.history = G] /\ S.dir = D
      BY <2>3, <2>10
    <3>2. S.run = [T EXCEPT !.history = G, !.best = T.best, !.bestAt = T.bestAt]
      BY <3>1 DEF Processes
    <3>3. S.run \in Processes /\ S.run.history = G /\ S.run.best = T.best
          /\ S.run.bestAt = T.bestAt
      BY <3>2, <2>5, <2>7 DEF Processes
    <3>4. S.dir = [D EXCEPT !.best = D.best]
      BY <3>1 DEF Directories
    <3> QED
      BY <2>3, <2>4, <2>6, <2>7, <2>10, <2>11, <3>1, <3>2, <3>3, <3>4, <1>2
  <2> QED
    BY <2>9, <2>10
<1> QED
  BY <1>1, <1>2

\* Validation with post_update timing adds trained policies only.
LEMMA TrainedOn ==
  ASSUME NEW a, NEW T, NEW D, NEW due, NEW S, Validates(T, D, due, S),
         OnlyTrained(a, T.history),
         due /\ a.timing = "post_update" => T.updates > 0
  PROVE  OnlyTrained(a, S.run.history)
BY DEF Validates, OnlyTrained

-----------------------------------------------------------------------------
(* The steps of a training *)

LEMMA AlgorithmsAreValid ==
  ASSUME NEW j \in Job
  PROVE  ValidAlgorithm(Algorithm(j))
BY AlgorithmAssumption DEF Algorithm, ValidAlgorithm

\* A process that does not work on its directory is sound beside any.
LEMMA NotWorking ==
  ASSUME NEW a, NEW D, NEW T \in Processes, T.at \notin Working
  PROVE  SoundRun(a, T, D)
BY DEF SoundRun, Working, Advanced

LEMMA NotWorkingWhole ==
  ASSUME NEW a, NEW T, T.at \in {"none", "launched", "failed"}
  PROVE  Whole(a, T)
BY DEF Whole, Working

\* The first validation is for reference only.
LEMMA Begins ==
  ASSUME NEW a, ValidAlgorithm(a), NEW c \in Costs, NEW e \in BOOLEAN, ~e,
         NEW P \in Processes, P.at = "collect", P.timesteps = 0, P.filled = 0,
         P.updates = 0, P.best = Infinity, P.history = <<>>, P.episodes = 0,
         ValidSetup(a),
         NEW Q \in Directories, Q.made, Q.meta.state = "absent",
         NEW S, S = Evaluated([run |-> P, dir |-> Q], e, c)
  PROVE  Sound(a, S.run, S.dir) /\ S.run.at = "collect"
<1> DEFINE row == [timesteps |-> P.timesteps, updates |-> P.updates,
                   cost |-> c, eligible |-> e]
<1>1. S.run = [P EXCEPT !.history = Append(@, row)] /\ S.dir = Q
  BY DEF Evaluated
<1>2. row \in Rows /\ ~row.eligible /\ row.updates = 0 /\ row.timesteps = 0
  BY DEF Rows
<1> HIDE DEF row
<1> DEFINE H == Append(P.history, row)
<1>3. H \in Seq(Rows) /\ DOMAIN H = {1} /\ H[1] = row
  BY <1>2
<1> HIDE DEF H
<1>4. a.total \in Nat \ {0} /\ a.envs \in Nat
  BY DEF ValidAlgorithm
<1>5. S.run = [P EXCEPT !.history = H]
  BY <1>1 DEF Processes, H
<1>6. S.run \in Processes
  BY <1>5, <1>3 DEF Processes
<1>7. /\ S.run.at = "collect" /\ S.run.timesteps = 0 /\ S.run.filled = 0
      /\ S.run.updates = 0 /\ S.run.best = Infinity /\ S.run.history = H
  BY <1>5 DEF Processes
<1>8. Judged(S.run.history, S.run.best, S.run.bestAt, S.dir.best)
  BY <1>2, <1>3, <1>7 DEF Judged
<1>12. OnlyTrained(a, S.run.history)
  BY <1>2, <1>3, <1>7 DEF OnlyTrained
<1>9. Whole(a, S.run)
  <2>1. S.run.episodes = 0
    BY <1>5 DEF Processes
  <2>2. EpisodeSteps \in Nat \ {0} /\ EffectiveSteps(a) \in Int
    BY AlgorithmAssumption, RolloutIsInt
  <2>3. /\ 0 \in 0 .. EpisodeSteps - 1
        /\ 0 * EffectiveSteps(a) + 0 = 0 * EpisodeSteps + 0 /\ 0 = 0 * a.envs
    BY <2>2, <1>4
  <2>4. DaysDone(a, 0 * EffectiveSteps(a) + 0, 0)
    BY <2>3 DEF DaysDone
  <2> QED
    BY <1>7, <2>1, <2>4 DEF Whole
<1>10. Advanced(a, S.run)
  BY <1>4, <1>7, RolloutIsInt DEF Advanced
<1>11. SoundFiles(a, S.dir)
  BY <1>1 DEF SoundFiles
<1> QED
  BY <1>1, <1>6, <1>7, <1>8, <1>10, <1>11, <1>9, <1>12 DEF Sound, SoundRun, Working

\* Validation during the training, and what the trainer does after it.
LEMMA JudgedOn ==
  ASSUME NEW a, NEW D, NEW P \in Processes, SoundFiles(a, D),
         D.made, D.meta.state = "absent",
         Judged(P.history, P.best, P.bestAt, D.best),
         OnlyTrained(a, P.history),
         NEW due \in BOOLEAN, due /\ a.timing = "post_update" => P.updates > 0,
         NEW S \in Validated([run |-> P, dir |-> D], due),
         NEW to \in {"collect", "update", "finalize", "misaligned"},
         NEW next \in Int,
         NEW R, \/ R = [S.run EXCEPT !.at = to, !.nextEval = next]
                \/ R = [Recorded(a, S.run) EXCEPT !.at = to, !.nextEval = next],
         Advanced(a, [P EXCEPT !.at = to]), Whole(a, [P EXCEPT !.at = to])
  PROVE  Sound(a, R, S.dir)
<1>1. D \in Directories
  BY DEF SoundFiles
<1>2. /\ S.run \in Processes /\ S.dir \in Directories
      /\ S.run = [P EXCEPT !.history = S.run.history, !.best = S.run.best,
                           !.bestAt = S.run.bestAt]
      /\ S.dir = [D EXCEPT !.best = S.dir.best]
      /\ Judged(S.run.history, S.run.best, S.run.bestAt, S.dir.best)
      /\ OnlyTrained(a, S.run.history)
  <2>1. Validates(P, D, due, S)
    BY <1>1, ValidationJudges
  <2>2. OnlyTrained(a, S.run.history)
    BY <2>1, TrainedOn
  <2> QED
    BY <2>1, <2>2 DEF Validates
<1>3. S.dir.made /\ S.dir.meta.state = "absent"
  BY <1>1, <1>2 DEF Directories
<1>4. /\ R \in Processes /\ R.at = to
      /\ R.history = S.run.history /\ R.best = S.run.best /\ R.bestAt = S.run.bestAt
      /\ R.timesteps = S.run.timesteps /\ R.updates = S.run.updates
      /\ R.filled = S.run.filled /\ R.episodes = S.run.episodes
  <2>1. CASE R = [S.run EXCEPT !.at = to, !.nextEval = next]
    BY <1>2, <2>1 DEF Processes, Working
  <2>2. CASE R = [Recorded(a, S.run) EXCEPT !.at = to, !.nextEval = next]
    <3>1. CASE S.run.timesteps > S.run.recordedAt
      <4>1. R = [S.run EXCEPT !.recorded = @ \cup {S.run.updates},
                              !.recordedAt = S.run.timesteps,
                              !.at = to, !.nextEval = next]
        BY <2>2, <3>1, <1>2 DEF Recorded, Processes
      <4>2. S.run.recorded \cup {S.run.updates} \in SUBSET Nat
        BY <1>2 DEF Processes
      <4> QED
        BY <1>2, <4>1, <4>2 DEF Processes, Working
    <3>2. CASE ~(S.run.timesteps > S.run.recordedAt)
      BY <1>2, <2>2, <3>2 DEF Recorded, Processes, Working
    <3> QED
      BY <3>1, <3>2
  <2> QED
    BY <2>1, <2>2
<1>5. /\ S.run.timesteps = P.timesteps /\ S.run.updates = P.updates
      /\ S.run.filled = P.filled /\ S.run.episodes = P.episodes
  <2> DEFINE h == S.run.history
             b == S.run.best
             t == S.run.bestAt
  <2>1. S.run = [P EXCEPT !.history = h, !.best = b, !.bestAt = t]
    BY <1>2
  <2> HIDE DEF h, b, t
  <2> QED
    BY <2>1 DEF Processes
<1>6. Advanced(a, R) /\ Whole(a, R)
  <2> DEFINE Q == [P EXCEPT !.at = to]
  <2>1. /\ Q.at = R.at /\ Q.timesteps = R.timesteps /\ Q.updates = R.updates
        /\ Q.filled = R.filled /\ Q.episodes = R.episodes
    BY <1>4, <1>5 DEF Processes
  <2>2. Advanced(a, Q) /\ Whole(a, Q)
    OBVIOUS
  <2> HIDE DEF Q
  <2> QED
    BY <2>1, <2>2 DEF Advanced, Whole
<1>7. SoundFiles(a, S.dir)
  BY <1>2, <1>3 DEF SoundFiles
<1> QED
  BY <1>2, <1>3, <1>4, <1>6, <1>7 DEF Sound, SoundRun, Working

\* A training goes on to another sound state, and leaves what is complete.
Moves(j) ==
  /\ Running(j)
  /\ \E T \in Processes, D \in Directories :
       /\ Sound(Algorithm(j), T, D)
       /\ train' = [train EXCEPT ![j] = T] /\ files' = [files EXCEPT ![j] = D]
       /\ Complete(j) => D = files[j]
       /\ T.at = "done" => D.meta.state = "complete"

LEMMA NothingThere ==
  /\ NoProcess \in Processes /\ NoProcess.at = "none"
  /\ NoProcess.timesteps = 0 /\ NoProcess.filled = 0 /\ NoProcess.updates = 0
  /\ NoProcess.episodes = 0 /\ NoProcess.best = Infinity /\ NoProcess.history = <<>>
  /\ NoFiles \in Directories /\ ~NoFiles.made /\ NoFiles.meta.state = "absent"
<1>1. <<>> \in Seq(Rows) /\ Infinity \in Nat /\ {} \in SUBSET Nat
  BY CostAssumption
<1>2. NoProcess \in Processes
  BY <1>1 DEF NoProcess, Processes, None
<1>3. [state |-> "absent"] \in Descriptions
  BY DEF Descriptions
<1>4. NoFiles \in Directories
  BY <1>1, <1>3 DEF NoFiles, Directories, None
<1>5. ~NoFiles.made /\ NoFiles.meta.state = "absent"
  BY DEF NoFiles
<1> QED
  BY <1>2, <1>4, <1>5 DEF NoProcess

LEMMA EndMoves ==
  ASSUME NEW j \in Job, TrainingInv, Running(j), Ended(j, "failed")
  PROVE  Moves(j)
<1> DEFINE T == [NoProcess EXCEPT !.at = "failed"]
<1>1. T \in Processes /\ T.at \notin Working /\ T.at = "failed"
  BY NothingThere DEF Processes, Working
<1>2. train' = [train EXCEPT ![j] = T] /\ files' = [files EXCEPT ![j] = files[j]]
  BY DEF Ended, TrainingInv
<1> HIDE DEF T
<1>3. Sound(Algorithm(j), T, files[j]) /\ files[j] \in Directories
  BY <1>1, NotWorking, NotWorkingWhole DEF TrainingInv, Sound
<1> QED
  BY <1>1, <1>2, <1>3 DEF Moves

LEMMA BeginMoves ==
  ASSUME NEW j \in Job, TrainingInv, Begin(j)
  PROVE  Moves(j)
<1> DEFINE a == Algorithm(j)
           P == [NoProcess EXCEPT !.at = "collect", !.nextEval = a.evalFreq]
           Q == [NoFiles EXCEPT !.made = TRUE]
           e == FALSE
<1>1. PICK c \in Costs : Becomes(j, Evaluated([run |-> P, dir |-> Q], e, c))
  BY DEF Begin
<1>2. /\ P \in Processes /\ P.at = "collect" /\ P.timesteps = 0 /\ P.filled = 0
      /\ P.updates = 0 /\ P.best = Infinity /\ P.history = <<>>
      /\ P.episodes = 0
  <2>1. a.evalFreq \in Int
    BY AlgorithmsAreValid DEF ValidAlgorithm
  <2> QED
    BY <2>1, NothingThere DEF Processes, Working
<1>3. Q \in Directories /\ Q.made /\ Q.meta.state = "absent"
  BY NothingThere DEF Directories
<1>4. e \in BOOLEAN /\ ~e
  OBVIOUS
<1> DEFINE S == Evaluated([run |-> P, dir |-> Q], e, c)
<1>5. train' = [train EXCEPT ![j] = S.run] /\ files' = [files EXCEPT ![j] = S.dir]
  BY <1>1 DEF Becomes
<1>6. ValidAlgorithm(a) /\ ValidSetup(a)
  BY AlgorithmsAreValid DEF Begin
<1>7. ~Complete(j) /\ Running(j)
  BY DEF Begin, Fresh, Complete, TrainingInv, Sound, SoundFiles, Running
<1>8. S = Evaluated([run |-> P, dir |-> Q], e, c)
  OBVIOUS
<1> HIDE DEF P, Q, e, S
<1>9. Sound(a, S.run, S.dir) /\ S.run.at = "collect"
  BY <1>2, <1>3, <1>4, <1>6, <1>8, Begins
<1>10. S.run \in Processes /\ S.dir \in Directories
  BY <1>9 DEF Sound, SoundRun, SoundFiles
<1> QED
  BY <1>5, <1>7, <1>9, <1>10 DEF Moves

LEMMA StepMoves ==
  ASSUME NEW j \in Job, TrainingInv, Step(j)
  PROVE  Moves(j)
<1> DEFINE a == Algorithm(j)
           T == train[j]
           D == files[j]
           N == [T EXCEPT !.timesteps = @ + a.envs, !.filled = @ + 1]
           dones == (N.timesteps \div a.envs) % EpisodeSteps = 0
           P == [N EXCEPT !.episodes = IF dones THEN @ + a.envs ELSE @]
           full == N.filled = EffectiveSteps(a)
           due == DueInRollout(a, P)
<1>1. PICK S \in Validated([run |-> P, dir |-> D], due) :
        IF full /\ ~Aligned(a, dones)
        THEN Becomes(j, [S EXCEPT !.run.at = "misaligned"])
        ELSE Becomes(j, [S EXCEPT
               !.run.at = IF full THEN "update" ELSE "collect",
               !.run.nextEval = IF due THEN @ + a.evalFreq ELSE @])
  BY DEF Step
<1>2. /\ a.evalFreq \in Nat /\ a.envs \in Nat \ {0} /\ a.total \in Nat \ {0}
      /\ ValidAlgorithm(a) /\ Rollout(a) \in Int /\ EffectiveSteps(a) \in Int
  BY AlgorithmsAreValid, RolloutIsInt DEF ValidAlgorithm
<1>3. /\ T \in Processes /\ D \in Directories /\ T.at = "collect"
      /\ D.made /\ D.meta.state = "absent" /\ SoundFiles(a, D)
      /\ Judged(T.history, T.best, T.bestAt, D.best) /\ Advanced(a, T)
      /\ Whole(a, T) /\ OnlyTrained(a, T.history)
  BY DEF Step, TrainingInv, Sound, SoundRun, Working
<1>4. PICK n \in Nat : n = IF dones THEN T.episodes + a.envs ELSE T.episodes
  <2> HIDE DEF a, T, D, N, dones, P, full, due
  <2>1. T.episodes \in Nat /\ T.episodes + a.envs \in Nat
    BY <1>2, <1>3 DEF Processes
  <2> QED
    BY <2>1
<1>5. P = [T EXCEPT !.timesteps = T.timesteps + a.envs, !.filled = T.filled + 1,
                    !.episodes = n]
  BY <1>4, <1>3 DEF Processes
<1>6. full <=> T.filled + 1 = EffectiveSteps(a)
  BY <1>3 DEF Processes
<1>7. Running(j) /\ ~Complete(j)
  BY <1>3 DEF Running, Complete
<1>8. due \in BOOLEAN /\ ~(due /\ a.timing = "post_update")
  BY DEF DueInRollout
<1>9. dones = ((P.timesteps \div a.envs) % EpisodeSteps = 0)
  <2>1. P.timesteps = N.timesteps
    BY <1>3 DEF Processes
  <2> HIDE DEF N, P
  <2> QED
    BY <2>1
<1> HIDE DEF a, T, D, N, dones, P, full, due
<1>10. /\ P \in Processes /\ P.at = "collect" /\ P.filled = T.filled + 1
      /\ P.timesteps = T.timesteps + a.envs /\ P.updates = T.updates
      /\ P.history = T.history /\ P.best = T.best /\ P.bestAt = T.bestAt
      /\ P.episodes = n
  <2>1. T.timesteps + a.envs \in Nat /\ T.filled + 1 \in Nat
    <3>1. T.timesteps \in Nat /\ T.filled \in Nat
      BY <1>3 DEF Processes
    <3> QED
      BY <1>2, <3>1
  <2>2. P \in Processes
    BY <1>3, <1>5, <2>1 DEF Processes
  <2> QED
    BY <1>3, <1>5, <2>2 DEF Processes
<1>11. /\ P.timesteps = P.updates * Rollout(a) + P.filled * a.envs
       /\ P.updates * Rollout(a) < a.total
       /\ T.updates \in Nat /\ T.filled \in Nat
  <2>1. /\ T.timesteps = T.updates * Rollout(a) + T.filled * a.envs
        /\ T.updates * Rollout(a) < a.total
    BY <1>3 DEF Advanced
  <2>2. T.filled \in Nat /\ T.updates \in Nat
    BY <1>3 DEF Processes
  <2>3. (T.filled + 1) * a.envs = T.filled * a.envs + a.envs
    BY <1>2, <2>2
  <2>4. T.updates * Rollout(a) \in Int /\ T.filled * a.envs \in Int
    BY <1>2, <2>2
  <2> QED
    BY <1>2, <1>10, <2>1, <2>2, <2>3, <2>4
<1>12. a.name = "reinforce" =>
         /\ ValidSetup(a) /\ (full => dones)
         /\ DaysDone(a, P.updates * EffectiveSteps(a) + P.filled, n)
  <2> SUFFICES ASSUME a.name = "reinforce"
               PROVE  /\ ValidSetup(a) /\ (full => dones)
                      /\ DaysDone(a, P.updates * EffectiveSteps(a) + P.filled, n)
    OBVIOUS
  <2> DEFINE m == T.updates * EffectiveSteps(a) + T.filled
  <2>1. ValidSetup(a) /\ DaysDone(a, m, T.episodes)
    BY <1>3 DEF Whole, Working
  <2>2. PICK k \in Nat \ {0} : EffectiveSteps(a) = k * EpisodeSteps
    BY <1>2, <2>1, RolloutOfDays
  <2>3. EpisodeSteps \in Nat \ {0} /\ EffectiveSteps(a) \in Nat
    BY <2>2, AlgorithmAssumption
  <2>4. m \in Nat
    BY <2>3, <1>11
  <2>5. P.updates * EffectiveSteps(a) + P.filled = m + 1
    BY <2>3, <1>10, <1>11
  <2>6. P.timesteps = (m + 1) * a.envs
    <3>1. P.updates * Rollout(a) = (P.updates * EffectiveSteps(a)) * a.envs
      BY <1>2, <1>10, <1>11, <2>3 DEF Rollout
    <3>2. P.updates * EffectiveSteps(a) \in Nat /\ P.filled \in Nat
      BY <1>10, <1>11, <2>3
    <3>3. (P.updates * EffectiveSteps(a) + P.filled) * a.envs
            = (P.updates * EffectiveSteps(a)) * a.envs + P.filled * a.envs
      BY <1>2, <3>2
    <3> QED
      BY <1>11, <2>5, <3>1, <3>3
  <2>7. dones = ((((m + 1) * a.envs) \div a.envs) % EpisodeSteps = 0)
    BY <2>6, <1>9
  <2> HIDE DEF m
  <2>8. /\ DaysDone(a, m + 1, IF dones THEN T.episodes + a.envs ELSE T.episodes)
        /\ \A x \in Nat : m + 1 = x * EpisodeSteps => dones
    BY <1>2, <2>1, <2>4, <2>7, DaysGoOn
  <2>9. full => \E x \in Nat : m + 1 = x * EpisodeSteps
    <3>1. ASSUME full
          PROVE  m + 1 = ((T.updates + 1) * k) * EpisodeSteps
      <4>1. m + 1 = T.updates * EffectiveSteps(a) + EffectiveSteps(a)
        BY <3>1, <1>6, <1>11, <2>3 DEF m
      <4>2. m + 1 = (T.updates + 1) * (k * EpisodeSteps)
        BY <4>1, <2>2, <2>3, <1>11
      <4> QED
        BY <4>2, <2>2, <2>3, <1>11
    <3>2. (T.updates + 1) * k \in Nat
      BY <1>11, <2>2
    <3> QED
      BY <3>1, <3>2
  <2> QED
    BY <1>4, <2>1, <2>5, <2>8, <2>9
<1>13. S = [run |-> S.run, dir |-> S.dir] /\ S.run \in Processes
       /\ S.dir \in Directories
  <2>1. Validates(P, D, due, S)
    BY <1>3, <1>8, <1>10, ValidationJudges
  <2> QED
    BY <2>1 DEF Validates
<1>14. PICK to \in {"collect", "update", "misaligned"}, next \in Int :
         /\ to = "update" => full
         /\ a.name = "reinforce" => to # "misaligned"
         /\ Becomes(j, [S EXCEPT !.run.at = to, !.run.nextEval = next])
  <2>1. CASE full /\ ~Aligned(a, dones)
    <3>1. [S EXCEPT !.run.at = "misaligned"]
            = [S EXCEPT !.run.at = "misaligned", !.run.nextEval = S.run.nextEval]
      BY <1>13 DEF Processes
    <3>2. S.run.nextEval \in Int
      BY <1>13 DEF Processes
    <3>3. a.name # "reinforce"
      BY <1>12, <2>1 DEF Aligned
    <3> QED
      BY <1>1, <2>1, <3>1, <3>2, <3>3
  <2>2. CASE ~(full /\ ~Aligned(a, dones))
    <3> DEFINE to == IF full THEN "update" ELSE "collect"
               next == IF due THEN S.run.nextEval + a.evalFreq ELSE S.run.nextEval
    <3>1. next \in Int
      BY <1>2, <1>13 DEF Processes
    <3>2. Becomes(j, [S EXCEPT !.run.at = to, !.run.nextEval = next])
      BY <1>1, <2>2, <1>13 DEF Processes
    <3>3. /\ to \in {"collect", "update", "misaligned"} /\ to # "misaligned"
          /\ to = "update" => full
      OBVIOUS
    <3> HIDE DEF to, next
    <3> QED
      BY <3>1, <3>2, <3>3
  <2> QED
    BY <2>1, <2>2
<1> DEFINE R == [S.run EXCEPT !.at = to, !.nextEval = next]
<1>15. train' = [train EXCEPT ![j] = R] /\ files' = [files EXCEPT ![j] = S.dir]
  BY <1>13, <1>14 DEF Becomes
<1>16. Advanced(a, [P EXCEPT !.at = to]) /\ Whole(a, [P EXCEPT !.at = to])
  <2> DEFINE Q == [P EXCEPT !.at = to]
  <2>1. /\ Q.at = to /\ Q.timesteps = P.timesteps /\ Q.updates = P.updates
        /\ Q.filled = P.filled /\ Q.episodes = n
    BY <1>10 DEF Processes
  <2> HIDE DEF Q
  <2>2. Advanced(a, Q)
    BY <2>1, <1>6, <1>10, <1>11, <1>14 DEF Advanced
  <2>3. Whole(a, Q)
    BY <2>1, <1>14, <1>12 DEF Whole
  <2> QED
    BY <2>2, <2>3 DEF Q
<1>17. R = [S.run EXCEPT !.at = to, !.nextEval = next]
  OBVIOUS
<1> HIDE DEF R
<1>18. Sound(a, R, S.dir)
  BY <1>3, <1>8, <1>10, <1>14, <1>16, <1>17, JudgedOn
<1>19. R \in Processes /\ S.dir \in Directories
  BY <1>18 DEF Sound, SoundRun, SoundFiles
<1>20. R.at = to /\ to # "done"
  BY <1>13, <1>14, <1>17 DEF Processes
<1> QED
  BY <1>7, <1>15, <1>18, <1>19, <1>20 DEF Moves, a

LEMMA UpdateMoves ==
  ASSUME NEW j \in Job, TrainingInv, Update(j)
  PROVE  Moves(j)
<1> DEFINE a == Algorithm(j)
           T == train[j]
           D == files[j]
           P == [T EXCEPT !.updates = @ + 1, !.filled = 0]
           more == P.timesteps < a.total
           due == more /\ DueAfterUpdate(a, P)
           to == IF more THEN "collect" ELSE "finalize"
<1>1. PICK S \in Validated([run |-> P, dir |-> D], due) :
        Becomes(j, [S EXCEPT !.run = [Recorded(a, S.run) EXCEPT
          !.at = to, !.nextEval = IF due THEN CaughtUp(a, P) ELSE @]])
  BY DEF Update
<1>2. /\ a.evalFreq \in Nat /\ a.envs \in Nat \ {0} /\ a.total \in Nat \ {0}
      /\ ValidAlgorithm(a) /\ Rollout(a) \in Int /\ EffectiveSteps(a) \in Int
  BY AlgorithmsAreValid, RolloutIsInt DEF ValidAlgorithm
<1>3. /\ T \in Processes /\ D \in Directories /\ T.at = "update"
      /\ D.made /\ D.meta.state = "absent" /\ SoundFiles(a, D)
      /\ Judged(T.history, T.best, T.bestAt, D.best) /\ Advanced(a, T)
      /\ Whole(a, T) /\ OnlyTrained(a, T.history)
  BY DEF Update, TrainingInv, Sound, SoundRun, Working
<1>4. Running(j) /\ ~Complete(j)
  BY <1>3 DEF Running, Complete
<1>5. due \in BOOLEAN /\ (due => a.evalFreq > 0)
  BY DEF DueAfterUpdate
<1>6. P = [T EXCEPT !.updates = T.updates + 1, !.filled = 0]
  BY <1>3 DEF Processes
<1>7. /\ to \in {"collect", "finalize"}
      /\ to = "collect" <=> P.timesteps < a.total
  OBVIOUS
<1> HIDE DEF a, T, D, P, more, due, to
<1>8. /\ P \in Processes /\ P.filled = 0
      /\ P.timesteps = T.timesteps /\ P.updates = T.updates + 1
      /\ P.history = T.history /\ P.best = T.best /\ P.bestAt = T.bestAt
      /\ P.episodes = T.episodes
  <2>1. T.updates + 1 \in Nat
    BY <1>3 DEF Processes
  <2>2. P \in Processes
    BY <1>3, <1>6, <2>1 DEF Processes
  <2> QED
    BY <1>3, <1>6, <2>2 DEF Processes
<1>9. /\ P.timesteps = P.updates * Rollout(a)
      /\ (P.updates - 1) * Rollout(a) < a.total
      /\ P.updates >= 1 /\ P.updates \in Nat /\ P.timesteps \in Nat
      /\ T.updates \in Nat /\ T.filled = EffectiveSteps(a)
  <2>1. /\ T.timesteps = T.updates * Rollout(a) + EffectiveSteps(a) * a.envs
        /\ T.updates * Rollout(a) < a.total
    BY <1>3 DEF Advanced
  <2>2. T.filled = EffectiveSteps(a)
    BY <1>3 DEF Advanced
  <2>3. T.timesteps = T.updates * Rollout(a) + Rollout(a)
    BY <2>1 DEF Rollout
  <2>4. T.updates \in Nat /\ T.timesteps \in Nat
    BY <1>3 DEF Processes
  <2>5. (T.updates + 1) * Rollout(a) = T.updates * Rollout(a) + Rollout(a)
    BY <1>2, <2>4
  <2>6. P.updates - 1 = T.updates /\ P.updates >= 1
    BY <1>8, <2>4
  <2> QED
    BY <1>8, <2>1, <2>3, <2>4, <2>5, <2>6, <2>2
<1>10. a.name = "reinforce" =>
         /\ ValidSetup(a)
         /\ DaysDone(a, P.updates * EffectiveSteps(a) + 0, P.episodes)
         /\ P.timesteps >= a.total =>
              P.timesteps = a.total /\ P.episodes * EpisodeSteps = P.timesteps
  <2> SUFFICES ASSUME a.name = "reinforce"
               PROVE  /\ ValidSetup(a)
                      /\ DaysDone(a, P.updates * EffectiveSteps(a) + 0, P.episodes)
                      /\ P.timesteps >= a.total =>
                           /\ P.timesteps = a.total
                           /\ P.episodes * EpisodeSteps = P.timesteps
    OBVIOUS
  <2>1. /\ ValidSetup(a)
        /\ DaysDone(a, T.updates * EffectiveSteps(a) + EffectiveSteps(a), T.episodes)
    BY <1>3, <1>9 DEF Whole, Working
  <2>2. PICK k \in Nat \ {0} : EffectiveSteps(a) = k * EpisodeSteps
    BY <1>2, <2>1, RolloutOfDays
  <2>3. /\ EpisodeSteps \in Nat \ {0} /\ EffectiveSteps(a) \in Nat
        /\ Rollout(a) \in Nat \ {0}
    BY <1>2, <2>1, <2>2, AlgorithmAssumption, RolloutOfDays
  <2> DEFINE n == P.updates * EffectiveSteps(a)
  <2>4. n = T.updates * EffectiveSteps(a) + EffectiveSteps(a) /\ n \in Nat
    BY <1>8, <1>9, <2>3
  <2>5. n = (P.updates * k) * EpisodeSteps /\ P.updates * k \in Nat
    BY <1>9, <2>2, <2>3
  <2>6. P.timesteps = n * a.envs
    BY <1>2, <1>9, <2>3 DEF Rollout
  <2> HIDE DEF n
  <2>7. PICK q \in Nat, r \in 0 .. EpisodeSteps - 1 :
          n = q * EpisodeSteps + r /\ P.episodes = q * a.envs
    BY <1>8, <2>1, <2>4 DEF DaysDone
  <2>8. n = q * EpisodeSteps
    <3>1. n % EpisodeSteps = 0 /\ n % EpisodeSteps = r
      BY <2>3, <2>5, <2>7, Division, ExactDivision
    <3> QED
      BY <2>3, <2>7, <3>1
  <2>9. P.episodes * EpisodeSteps = P.timesteps
    <3>1. (q * a.envs) * EpisodeSteps = (q * EpisodeSteps) * a.envs
      BY <1>2, <2>3
    <3> QED
      BY <2>6, <2>7, <2>8, <3>1
  <2>10. P.timesteps >= a.total => P.timesteps = a.total
    <3> DEFINE m == a.total \div Rollout(a)
    <3>1. a.total % Rollout(a) = 0
      BY <2>1 DEF ValidSetup, Rollout
    <3>2. m \in Int /\ a.total = m * Rollout(a)
      BY <1>2, <2>3, <3>1
    <3> HIDE DEF m
    <3>3. (P.updates - m) * Rollout(a) = P.timesteps - a.total
      BY <1>2, <1>9, <2>3, <3>2
    <3>4. (P.updates - 1) * Rollout(a) = P.timesteps - Rollout(a)
      BY <1>2, <1>9, <2>3
    <3>5. P.timesteps >= a.total => P.updates - m = 0
      <4>1. P.updates - m \in Int
        BY <1>9, <3>2
      <4>2. P.timesteps - a.total < Rollout(a)
        BY <1>2, <1>9, <2>3, <3>4
      <4>3. P.timesteps >= a.total => -Rollout(a) < P.timesteps - a.total
        BY <1>2, <1>9, <2>3
      <4> QED
        BY <2>3, <3>3, <4>1, <4>2, <4>3, SmallMultiple
    <3> QED
      BY <1>2, <1>9, <3>2, <3>5
  <2> QED
    BY <1>8, <2>1, <2>4, <2>9, <2>10 DEF n
<1>11. S = [run |-> S.run, dir |-> S.dir] /\ S.run \in Processes
       /\ S.dir \in Directories
  <2>1. Validates(P, D, due, S)
    BY <1>3, <1>5, <1>8, ValidationJudges
  <2> QED
    BY <2>1 DEF Validates
<1>12. PICK next \in Int :
         Becomes(j, [S EXCEPT !.run = [Recorded(a, S.run) EXCEPT
                                         !.at = to, !.nextEval = next]])
  <2>1. CASE due
    <3>1. CaughtUp(a, P) \in Int
      <4>1. P.timesteps - P.nextEval \in Int /\ P.nextEval \in Int
        BY <1>8 DEF Processes
      <4>2. (P.timesteps - P.nextEval) \div a.evalFreq \in Int
        BY <4>1, <1>2, <1>5, <2>1
      <4> QED
        BY <4>1, <4>2, <1>2 DEF CaughtUp
    <3> QED
      BY <1>1, <2>1, <3>1
  <2>2. CASE ~due
    <3> DEFINE next == S.run.nextEval
    <3>1. Recorded(a, S.run).nextEval = next /\ next \in Int
      BY <1>11 DEF Recorded, Processes
    <3>2. [Recorded(a, S.run) EXCEPT !.at = to, !.nextEval = @]
            = [Recorded(a, S.run) EXCEPT !.at = to, !.nextEval = next]
      BY <1>11, <3>1 DEF Recorded, Processes
    <3> HIDE DEF next
    <3> QED
      BY <1>1, <2>2, <3>1, <3>2
  <2> QED
    BY <2>1, <2>2
<1> DEFINE R == [Recorded(a, S.run) EXCEPT !.at = to, !.nextEval = next]
<1>13. R = [Recorded(a, S.run) EXCEPT !.at = to, !.nextEval = next]
  OBVIOUS
<1> HIDE DEF R
<1>14. train' = [train EXCEPT ![j] = R] /\ files' = [files EXCEPT ![j] = S.dir]
  BY <1>11, <1>12, <1>13 DEF Becomes
<1>15. Advanced(a, [P EXCEPT !.at = to]) /\ Whole(a, [P EXCEPT !.at = to])
  <2> DEFINE Q == [P EXCEPT !.at = to]
  <2>1. /\ Q.at = to /\ Q.timesteps = P.timesteps /\ Q.updates = P.updates
        /\ Q.filled = 0 /\ Q.episodes = P.episodes
    BY <1>8 DEF Processes
  <2> HIDE DEF Q
  <2>2. Whole(a, Q)
    BY <1>2, <1>7, <1>9, <1>10, <2>1 DEF Whole
  <2>3. CASE to = "collect"
    <3>1. P.updates * Rollout(a) < a.total
      BY <1>7, <1>9, <2>3
    <3>2. P.timesteps = P.updates * Rollout(a) + 0 * a.envs
      BY <1>2, <1>9
    <3> QED
      BY <2>1, <2>3, <2>2, <3>1, <3>2 DEF Advanced, Q
  <2>4. CASE to = "finalize"
    <3>1. P.timesteps >= a.total
      BY <1>2, <1>7, <1>9, <2>4
    <3>2. Spends(a, P.updates)
      BY <1>9, <3>1 DEF Spends, Rollout
    <3> QED
      BY <1>9, <2>1, <2>4, <2>2, <3>1, <3>2 DEF Advanced, Q
  <2> QED
    BY <1>7, <2>3, <2>4
<1>19. P.updates > 0
  BY <1>9
<1>16. Sound(a, R, S.dir)
  BY <1>3, <1>5, <1>7, <1>8, <1>13, <1>15, <1>19, JudgedOn
<1>17. R \in Processes /\ S.dir \in Directories
  BY <1>16 DEF Sound, SoundRun, SoundFiles
<1>18. R.at = to /\ to # "done"
  BY <1>7, <1>11, <1>13 DEF Recorded, Processes
<1> QED
  BY <1>4, <1>14, <1>16, <1>17, <1>18 DEF Moves, a

\* At the end some policy is eligible, and the last one with post_update timing.
LEMMA FinalizeMoves ==
  ASSUME NEW j \in Job, TrainingInv, Finalize(j)
  PROVE  Moves(j)
<1> DEFINE a == Algorithm(j)
           T == train[j]
           D == files[j]
           due == FinalMissing(a, T)
<1>1. PICK S \in Validated([run |-> T, dir |-> D], due) :
        Becomes(j, [S EXCEPT !.run.at = "metadata",
          !.dir.last = S.run.updates,
          !.dir.best = IF S.run.best = Infinity THEN S.run.updates ELSE @,
          !.dir.history = S.run.history])
  BY DEF Finalize, At
<1>2. a.total \in Nat \ {0}
  BY AlgorithmsAreValid DEF ValidAlgorithm
<1>3. /\ T \in Processes /\ D \in Directories /\ T.at = "finalize"
      /\ D.made /\ D.meta.state = "absent" /\ SoundFiles(a, D)
      /\ Judged(T.history, T.best, T.bestAt, D.best) /\ Advanced(a, T)
      /\ Whole(a, T) /\ OnlyTrained(a, T.history)
  BY DEF Finalize, TrainingInv, Sound, SoundRun, Working
<1>4. Running(j) /\ ~Complete(j)
  BY <1>3 DEF Running, Complete
<1>5. due \in BOOLEAN
  BY DEF FinalMissing
<1>6. /\ T.timesteps \in Nat /\ T.timesteps # 0 /\ T.updates \in Nat
      /\ T.updates # 0 /\ Spends(a, T.updates)
  <2>1. T.timesteps >= a.total /\ T.updates >= 1 /\ Spends(a, T.updates)
    BY <1>3 DEF Advanced
  <2>2. T.timesteps \in Nat /\ T.updates \in Nat
    BY <1>3 DEF Processes
  <2> QED
    BY <1>2, <2>1, <2>2
<1>7. ~due => /\ Len(T.history) \in DOMAIN T.history
              /\ T.history[Len(T.history)].timesteps = T.timesteps
              /\ a.timing = "post_update" =>
                   T.history[Len(T.history)].updates = T.updates
  <2>1. T.history \in Seq(Rows)
    BY <1>3 DEF Processes
  <2>2. T.history # <<>> => Len(T.history) \in DOMAIN T.history
    BY <2>1
  <2> QED
    BY <2>2 DEF FinalMissing, Last
<1> HIDE DEF a, T, D, due
<1>8. Validates(T, D, due, S)
  BY <1>3, <1>5, ValidationJudges
<1> DEFINE H == S.run.history
<1>9. /\ S = [run |-> S.run, dir |-> S.dir] /\ S.run \in Processes
      /\ S.dir \in Directories /\ Judged(H, S.run.best, S.run.bestAt, S.dir.best)
      /\ S.dir = [D EXCEPT !.best = S.dir.best]
  BY <1>8 DEF Validates
<1>10. PICK i \in DOMAIN H :
         H[i].eligible /\ (a.timing = "post_update" => H[i].updates = T.updates)
  <2>1. CASE due
    BY <1>8, <2>1 DEF Validates
  <2>2. CASE ~due
    <3>1. S.run = T
      BY <1>8, <2>2 DEF Validates
    <3>2. \A k \in DOMAIN H : ~H[k].eligible => H[k].timesteps = 0
      BY <1>9 DEF Judged
    <3> QED
      BY <1>6, <1>7, <2>2, <3>1, <3>2
  <2> QED
    BY <2>1, <2>2
<1>11. BestOf(H, S.run.best, S.run.bestAt, S.dir.best)
  BY <1>9, <1>10 DEF Judged
<1>12. S.run.best # Infinity
  <2>1. \A k \in DOMAIN H : H[k] \in Rows
    BY <1>9 DEF Processes
  <2>2. S.run.best \in Costs
    BY <1>11, <2>1 DEF BestOf, Rows
  <2> QED
    BY <2>2, CostAssumption
<1>13. LastJudged(a, H) /\ OnlyTrained(a, H)
  BY <1>3, <1>6, <1>8, <1>10, TrainedOn DEF LastJudged
<1>14. H \in Seq(Rows) /\ S.run.updates \in Nat
  BY <1>9 DEF Processes
<1> DEFINE R == [S.run EXCEPT !.at = "metadata"]
           F == [S.dir EXCEPT !.last = S.run.updates, !.history = H]
<1>15. train' = [train EXCEPT ![j] = R] /\ files' = [files EXCEPT ![j] = F]
  <2> DEFINE b == IF S.run.best = Infinity THEN S.run.updates ELSE S.dir.best
  <2>1. Becomes(j, [S EXCEPT !.run.at = "metadata", !.dir.last = S.run.updates,
                             !.dir.best = b, !.dir.history = H])
    BY <1>1, <1>9
  <2>2. b = S.dir.best
    BY <1>12
  <2> HIDE DEF b, H
  <2>3. /\ train' = [train EXCEPT ![j] = R]
        /\ files' = [files EXCEPT ![j] =
             [S.dir EXCEPT !.last = S.run.updates, !.best = b, !.history = H]]
    BY <1>9, <2>1 DEF Becomes
  <2>4. F = [S.dir EXCEPT !.last = S.run.updates, !.best = b, !.history = H]
    BY <1>9, <2>2 DEF Directories
  <2> QED
    BY <2>3, <2>4
<1>16. /\ R \in Processes /\ R.at = "metadata" /\ R.history = H
       /\ R.best = S.run.best /\ R.bestAt = S.run.bestAt
       /\ R.timesteps = S.run.timesteps /\ R.episodes = S.run.episodes
  BY <1>9 DEF Processes, Working
<1>17. S.run.timesteps = T.timesteps /\ S.run.episodes = T.episodes
  <2> DEFINE b == S.run.best
             t == S.run.bestAt
  <2>1. S.run = [T EXCEPT !.history = H, !.best = b, !.bestAt = t]
    BY <1>8 DEF Validates
  <2> HIDE DEF H, b, t
  <2> QED
    BY <1>3, <2>1 DEF Processes
<1>18. /\ F \in Directories /\ F.history = H /\ F.best = S.dir.best
       /\ F.made = S.dir.made /\ F.meta = S.dir.meta
  <2> HIDE DEF H
  <2>1. S.dir \in Directories /\ S.run.updates \in Int
    BY <1>9, <1>14
  <2> QED
    BY <2>1, <1>14 DEF Directories
<1>19. S.dir.made /\ S.dir.meta.state = "absent"
  BY <1>3, <1>9 DEF Directories
<1> HIDE DEF H, R, F
<1>20. Advanced(a, R) /\ Whole(a, R)
  BY <1>3, <1>16, <1>17 DEF Advanced, Whole, Working
<1>21. SoundFiles(a, F)
  BY <1>18, <1>19 DEF SoundFiles
<1>22. Sound(a, R, F)
  BY <1>9, <1>11, <1>13, <1>16, <1>18, <1>19, <1>20, <1>21
  DEF Sound, SoundRun, Working
<1> QED
  BY <1>4, <1>15, <1>16, <1>18, <1>22 DEF Moves, a

LEMMA OpenMoves ==
  ASSUME NEW j \in Job, TrainingInv, OpenMetadata(j)
  PROVE  Moves(j)
<1> DEFINE a == Algorithm(j)
           T == train[j]
           D == files[j]
           R == [T EXCEPT !.at = "writing"]
           F == [D EXCEPT !.meta = [state |-> "torn"]]
<1>1. T \in Processes /\ D \in Directories /\ T.at = "metadata"
  BY DEF OpenMetadata, TrainingInv
<1>2. /\ D.made /\ D.meta.state = "absent"
      /\ D.history = T.history /\ BestOf(D.history, T.best, T.bestAt, D.best)
      /\ LastJudged(a, D.history) /\ Judged(T.history, T.best, T.bestAt, D.best)
      /\ OnlyTrained(a, T.history) /\ Whole(a, T)
  BY <1>1 DEF TrainingInv, Sound, SoundRun, Working
<1>3. train' = [train EXCEPT ![j] = R] /\ files' = [files EXCEPT ![j] = F]
  BY DEF OpenMetadata, Becomes, At
<1>4. Running(j) /\ ~Complete(j)
  BY <1>1, <1>2 DEF Running, Complete
<1> HIDE DEF a, T, D
<1>5. /\ R \in Processes /\ R.at = "writing" /\ R.history = T.history
      /\ R.best = T.best /\ R.bestAt = T.bestAt
      /\ R.timesteps = T.timesteps /\ R.episodes = T.episodes
  BY <1>1 DEF Processes, Working
<1>6. /\ F \in Directories /\ F.made = D.made /\ F.history = D.history
      /\ F.best = D.best /\ F.meta.state = "torn"
  <2>1. [state |-> "torn"] \in Descriptions
    BY DEF Descriptions
  <2> QED
    BY <1>1, <2>1 DEF Directories
<1> HIDE DEF R, F
<1>7. Advanced(a, R) /\ SoundFiles(a, F) /\ Whole(a, R)
  BY <1>1, <1>2, <1>5, <1>6 DEF Advanced, SoundFiles, Whole, Working
<1>8. Sound(a, R, F)
  BY <1>2, <1>5, <1>6, <1>7 DEF Sound, SoundRun, Working
<1> QED
  BY <1>3, <1>4, <1>5, <1>6, <1>8 DEF Moves, a

LEMMA WriteMoves ==
  ASSUME NEW j \in Job, TrainingInv, WriteMetadata(j)
  PROVE  Moves(j)
<1> DEFINE a == Algorithm(j)
           T == train[j]
           D == files[j]
           meta == [state |-> "complete", best |-> D.best, cost |-> T.best,
                    at |-> T.bestAt, timesteps |-> T.timesteps]
           R == [T EXCEPT !.at = "done"]
           F == [D EXCEPT !.meta = meta]
<1>1. T \in Processes /\ D \in Directories /\ T.at = "writing"
  BY DEF WriteMetadata, TrainingInv
<1>2. /\ D.made /\ D.meta.state = "torn"
      /\ D.history = T.history /\ BestOf(D.history, T.best, T.bestAt, D.best)
      /\ LastJudged(a, D.history) /\ OnlyTrained(a, T.history) /\ Whole(a, T)
  BY <1>1 DEF TrainingInv, Sound, SoundRun, Working
<1>3. train' = [train EXCEPT ![j] = R] /\ files' = [files EXCEPT ![j] = F]
  BY DEF WriteMetadata, Becomes, At
<1>4. Running(j) /\ ~Complete(j)
  BY <1>1, <1>2 DEF Running, Complete
<1> HIDE DEF a, T, D
<1>5. /\ meta \in Descriptions /\ meta.state = "complete" /\ meta.best = D.best
      /\ meta.cost = T.best /\ meta.at = T.bestAt
  BY <1>1 DEF Descriptions, Processes, Directories
<1> HIDE DEF meta
<1>6. /\ R \in Processes /\ R.at = "done"
      /\ R.timesteps = T.timesteps /\ R.episodes = T.episodes
  BY <1>1 DEF Processes
<1>7. /\ F \in Directories /\ F.made = D.made /\ F.history = D.history
      /\ F.best = D.best /\ F.meta = meta
  BY <1>1, <1>5 DEF Directories
<1> HIDE DEF R, F
<1>8. SoundFiles(a, F)
  BY <1>2, <1>5, <1>7 DEF SoundFiles
<1>9. Whole(a, R)
  BY <1>1, <1>2, <1>6 DEF Whole, Working
<1>10. Sound(a, R, F)
  BY <1>6, <1>8, <1>9, NotWorking DEF Sound, Working
<1> QED
  BY <1>3, <1>4, <1>5, <1>6, <1>7, <1>10 DEF Moves, a

LEMMA TrainingMoves ==
  ASSUME NEW j \in Job, TrainingInv, Proceed(j) \/ Dies(j)
  PROVE  Moves(j)
<1>1. CASE Reject(j)
  BY <1>1, EndMoves DEF Reject, Running
<1>2. CASE Dies(j)
  BY <1>2, EndMoves DEF Dies
<1> QED
  BY <1>1, <1>2, BeginMoves, StepMoves, UpdateMoves, FinalizeMoves, OpenMoves,
     WriteMoves DEF Proceed

-----------------------------------------------------------------------------
(* Sequences of sequences *)

\* Induction over the naturals, for the set of the numbers with the property.
LEMMA NatInductionOn ==
  ASSUME NEW P, 0 \in P, \A n \in Nat : n \in P => n + 1 \in P
  PROVE  \A n \in Nat : n \in P
<1> SUFFICES ASSUME NEW m \in Nat \ P PROVE FALSE
  OBVIOUS
<1> DEFINE T == Nat \ P
<1>1. T \subseteq Nat /\ T # {}
  OBVIOUS
<1>2. IsWellFoundedOn(OpToRel(<, Nat), Nat)
  BY NatLessThanWellFounded
<1> HIDE DEF T
<1>3. PICK x \in T : \A y \in T : ~ (<<y, x>> \in OpToRel(<, Nat))
  BY <1>1, <1>2, WFMin
<1>4. x \in Nat /\ x \notin P /\ x # 0
  BY <1>3, <1>1 DEF T
<1>5. x - 1 \in Nat /\ (x - 1) + 1 = x /\ x - 1 < x
  BY <1>4
<1>6. x - 1 \in T
  BY <1>4, <1>5 DEF T
<1>7. <<x - 1, x>> \in OpToRel(<, Nat)
  BY <1>4, <1>5 DEF OpToRel
<1> QED
  BY <1>3, <1>6, <1>7

\* f flattens the first n sequences of s, as the community modules do.
Flattens(f, s, n) ==
  f = [i \in 1 .. n |-> IF i = 1 THEN s[i] ELSE f[i - 1] \o s[i]]

\* There is such a function for every number of sequences.
LEMMA FlattenExists ==
  ASSUME NEW s, NEW n \in Nat
  PROVE  \E f : Flattens(f, s, n)
<1> DEFINE P == {m \in Nat : \E f : Flattens(f, s, m)}
<1>1. 0 \in P
  <2>1. Flattens([i \in 1 .. 0 |-> s], s, 0)
    BY DEF Flattens
  <2> QED
    BY <2>1
<1>2. ASSUME NEW m \in Nat, m \in P PROVE m + 1 \in P
  <2>1. PICK f : Flattens(f, s, m)
    BY <1>2
  <2> DEFINE v == IF m + 1 = 1 THEN s[m + 1] ELSE f[m] \o s[m + 1]
             g == [i \in 1 .. m + 1 |-> IF i = m + 1 THEN v ELSE f[i]]
             e == [i \in 1 .. m + 1 |-> IF i = 1 THEN s[i] ELSE g[i - 1] \o s[i]]
  <2>2. ASSUME NEW i \in 1 .. m + 1 PROVE g[i] = e[i]
    <3>1. CASE i = m + 1
      <4>1. g[i] = v
        BY <3>1
      <4>2. CASE m = 0
        BY <3>1, <4>1, <4>2
      <4>3. CASE m # 0
        <5>1. m \in 1 .. m + 1 /\ m # m + 1 /\ i - 1 = m /\ i # 1
          BY <3>1, <4>3
        <5>2. g[m] = f[m]
          BY <5>1
        <5> QED
          BY <3>1, <4>1, <4>3, <5>1, <5>2
      <4> QED
        BY <4>2, <4>3
    <3>2. CASE i # m + 1
      <4>1. i \in 1 .. m
        BY <3>2
      <4>2. g[i] = f[i]
        BY <3>2
      <4>3. f[i] = IF i = 1 THEN s[i] ELSE f[i - 1] \o s[i]
        BY <2>1, <4>1 DEF Flattens
      <4>4. i # 1 => g[i - 1] = f[i - 1]
        <5> SUFFICES ASSUME i # 1 PROVE g[i - 1] = f[i - 1]
          OBVIOUS
        <5>1. i - 1 \in 1 .. m + 1 /\ i - 1 # m + 1
          BY <4>1
        <5> QED
          BY <5>1
      <4> QED
        BY <4>2, <4>3, <4>4
    <3> QED
      BY <3>1, <3>2
  <2>3. Flattens(g, s, m + 1)
    <3>1. g = e
      BY <2>2
    <3> QED
      BY <3>1 DEF Flattens
  <2> QED
    BY <2>3
<1> HIDE DEF P
<1>3. n \in P
  BY <1>1, <1>2, NatInductionOn
<1> QED
  BY <1>3 DEF P

\* F holds the elements of the first n sequences of s, block after block: those
\* before an element in its block come before it in F.
InBlocks(F, s, n) ==
  /\ \A a \in 1 .. n : \A k \in DOMAIN s[a] : \E x \in DOMAIN F : F[x] = s[a][k]
  /\ \A x \in DOMAIN F : \E a \in 1 .. n : \E m \in DOMAIN s[a] :
       /\ F[x] = s[a][m]
       /\ \A k \in 1 .. m - 1 : \E y \in 1 .. x - 1 : F[y] = s[a][k]

\* The next block is added at the end.
LEMMA NextBlock ==
  ASSUME NEW S, NEW F \in Seq(S), NEW s, NEW n \in Nat, InBlocks(F, s, n),
         s[n + 1] \in Seq(S), NEW G, G = F \o s[n + 1]
  PROVE  G \in Seq(S) /\ InBlocks(G, s, n + 1)
<1> DEFINE B == s[n + 1]
           L == Len(F)
<1>1. /\ G \in Seq(S) /\ L \in Nat /\ Len(B) \in Nat
      /\ DOMAIN G = 1 .. L + Len(B) /\ DOMAIN F = 1 .. L /\ DOMAIN B = 1 .. Len(B)
      /\ \A x \in 1 .. L : G[x] = F[x]
      /\ \A k \in 1 .. Len(B) : G[L + k] = B[k]
  OBVIOUS
<1> HIDE DEF L
<1>2. ASSUME NEW a \in 1 .. n + 1, NEW k \in DOMAIN s[a]
      PROVE  \E x \in DOMAIN G : G[x] = s[a][k]
  <2>1. CASE a = n + 1
    <3>1. L + k \in DOMAIN G /\ G[L + k] = s[a][k]
      BY <1>1, <1>2, <2>1
    <3> QED
      BY <3>1
  <2>2. CASE a \in 1 .. n
    <3>1. PICK x \in DOMAIN F : F[x] = s[a][k]
      BY <1>2, <2>2 DEF InBlocks
    <3>2. x \in DOMAIN G /\ G[x] = F[x]
      BY <1>1
    <3> QED
      BY <3>1, <3>2
  <2> QED
    BY <1>2, <2>1, <2>2
<1>3. ASSUME NEW x \in DOMAIN G
      PROVE  \E a \in 1 .. n + 1 : \E m \in DOMAIN s[a] :
               /\ G[x] = s[a][m]
               /\ \A k \in 1 .. m - 1 : \E y \in 1 .. x - 1 : G[y] = s[a][k]
  <2>1. CASE x \in 1 .. L
    <3>1. PICK a \in 1 .. n : \E m \in DOMAIN s[a] :
            /\ F[x] = s[a][m]
            /\ \A k \in 1 .. m - 1 : \E y \in 1 .. x - 1 : F[y] = s[a][k]
      BY <1>1, <2>1 DEF InBlocks
    <3>2. PICK m \in DOMAIN s[a] :
            /\ F[x] = s[a][m]
            /\ \A k \in 1 .. m - 1 : \E y \in 1 .. x - 1 : F[y] = s[a][k]
      BY <3>1
    <3>3. G[x] = s[a][m]
      BY <1>1, <2>1, <3>2
    <3>4. \A k \in 1 .. m - 1 : \E y \in 1 .. x - 1 : G[y] = s[a][k]
      <4>1. \A y \in 1 .. x - 1 : G[y] = F[y]
        BY <1>1, <2>1
      <4> QED
        BY <3>2, <4>1
    <3>5. a \in 1 .. n + 1
      OBVIOUS
    <3> QED
      BY <3>3, <3>4, <3>5
  <2>2. CASE x \notin 1 .. L
    <3> DEFINE m == x - L
    <3>1. m \in 1 .. Len(B) /\ x = L + m
      BY <1>1, <2>2
    <3>2. G[x] = B[m]
      BY <1>1, <3>1
    <3>3. ASSUME NEW k \in 1 .. m - 1
          PROVE  \E y \in 1 .. x - 1 : G[y] = B[k]
      <4>1. k \in Nat /\ k >= 1 /\ k <= m - 1 /\ m \in Nat /\ m <= Len(B)
        BY <1>1, <3>1
      <4>2. k \in 1 .. Len(B)
        BY <1>1, <4>1
      <4>3. L + k \in 1 .. x - 1
        <5> HIDE DEF m
        <5> QED
          BY <1>1, <3>1, <4>1
      <4>4. G[L + k] = B[k]
        BY <1>1, <4>2
      <4> QED
        BY <4>3, <4>4
    <3>4. n + 1 \in 1 .. n + 1 /\ m \in DOMAIN B
      BY <1>1, <3>1
    <3> QED
      BY <3>2, <3>3, <3>4
  <2> QED
    BY <2>1, <2>2
<1> QED
  BY <1>1, <1>2, <1>3 DEF InBlocks

\* What flattening a sequence of sequences gives.
LEMMA FlattenBlocks ==
  ASSUME NEW S, NEW s \in Seq(Seq(S))
  PROVE  FlattenSeq(s) \in Seq(S) /\ InBlocks(FlattenSeq(s), s, Len(s))
<1>1. Len(s) \in Nat /\ DOMAIN s = 1 .. Len(s) /\ \A i \in 1 .. Len(s) : s[i] \in Seq(S)
  OBVIOUS
<1>2. CASE Len(s) = 0
  <2>1. FlattenSeq(s) = s
    BY <1>2 DEF FlattenSeq
  <2>2. s = <<>> /\ s \in Seq(S)
    BY <1>2
  <2> QED
    BY <1>2, <2>1, <2>2 DEF InBlocks
<1>3. CASE Len(s) # 0
  <2> DEFINE f == CHOOSE f : Flattens(f, s, Len(s))
  <2>1. FlattenSeq(s) = f[Len(s)]
    BY <1>3 DEF FlattenSeq, Flattens
  <2>2. Flattens(f, s, Len(s))
    BY <1>1, FlattenExists
  <2> HIDE DEF f
  <2>3. \A i \in 1 .. Len(s) : f[i] = IF i = 1 THEN s[i] ELSE f[i - 1] \o s[i]
    BY <2>2 DEF Flattens
  <2> DEFINE P == {m \in Nat : m \in 1 .. Len(s) => f[m] \in Seq(S) /\ InBlocks(f[m], s, m)}
  <2>4. 0 \in P
    OBVIOUS
  <2>5. ASSUME NEW m \in Nat, m \in P PROVE m + 1 \in P
    <3> SUFFICES ASSUME m + 1 \in 1 .. Len(s)
                 PROVE  f[m + 1] \in Seq(S) /\ InBlocks(f[m + 1], s, m + 1)
      OBVIOUS
    <3>1. CASE m = 0
      <4>1. f[1] = s[1] /\ s[1] \in Seq(S)
        BY <1>1, <2>3, <3>1
      <4>2. InBlocks(<<>>, s, 0) /\ <<>> \in Seq(S)
        BY DEF InBlocks
      <4>3. s[1] = <<>> \o s[1]
        BY <4>1
      <4>4. 0 + 1 = 1
        OBVIOUS
      <4> QED
        BY <3>1, <4>1, <4>2, <4>3, <4>4, NextBlock
    <3>2. CASE m # 0
      <4>1. m \in 1 .. Len(s) /\ m + 1 # 1 /\ (m + 1) - 1 = m
        BY <3>2, <1>1
      <4>2. f[m] \in Seq(S) /\ InBlocks(f[m], s, m)
        BY <2>5, <4>1
      <4>3. f[m + 1] = f[m] \o s[m + 1] /\ s[m + 1] \in Seq(S)
        BY <1>1, <2>3, <4>1
      <4> QED
        BY <4>2, <4>3, NextBlock
    <3> QED
      BY <3>1, <3>2
  <2> HIDE DEF P
  <2>6. Len(s) \in P
    BY <1>1, <2>4, <2>5, NatInductionOn
  <2> QED
    BY <1>1, <1>3, <2>1, <2>6 DEF P
<1> QED
  BY <1>2, <1>3

-----------------------------------------------------------------------------
(* The matrix and the stages *)

LEMMA Matrix ==
  /\ Policies \in Seq(Range(Policies)) /\ Seeds \in Seq(Range(Seeds))
  /\ Splits \in Seq(Range(Splits))
  /\ DOMAIN Policies = 1 .. Len(Policies) /\ DOMAIN Seeds = 1 .. Len(Seeds)
  /\ DOMAIN Splits = 1 .. Len(Splits)
  /\ Len(Policies) \in Nat /\ Len(Seeds) \in Nat /\ Len(Splits) \in Nat
  /\ \A p \in DOMAIN Policies : Policies[p] \in Range(Policies)
  /\ \A s \in DOMAIN Seeds : Seeds[s] \in Range(Seeds)
  /\ \A i \in DOMAIN Splits : Splits[i] \in Range(Splits)
  /\ Job = Range(Policies) \X Range(Seeds)
<1>1. /\ Policies \in Seq(Range(Policies)) /\ Seeds \in Seq(Range(Seeds))
      /\ Splits \in Seq(Range(Splits)) /\ Job = Range(Policies) \X Range(Seeds)
  BY ExperimentAssumption
<1>2. \A T, s : s \in Seq(T) => DOMAIN s = 1 .. Len(s) /\ Len(s) \in Nat
  OBVIOUS
<1> QED
  BY <1>1, <1>2 DEF Range

\* A sequence written down as a function.
LEMMA Written ==
  ASSUME NEW n \in Nat, NEW T, NEW f, DOMAIN f = 1 .. n,
         f = [i \in DOMAIN f |-> f[i]], \A i \in 1 .. n : f[i] \in T
  PROVE  f \in Seq(T) /\ Len(f) = n
<1>1. f \in [1 .. n -> T]
  OBVIOUS
<1> QED
  BY <1>1

LEMMA Joined ==
  ASSUME NEW T, NEW s \in Seq(T), NEW r \in Seq(T)
  PROVE  /\ s \o r \in Seq(T) /\ DOMAIN (s \o r) = 1 .. Len(s) + Len(r)
         /\ \A i \in 1 .. Len(s) : (s \o r)[i] = s[i]
         /\ \A i \in 1 .. Len(r) : (s \o r)[Len(s) + i] = r[i]
OBVIOUS

\* The elements of a sequence of sequences, and where they go.
LEMMA Flattened ==
  ASSUME NEW T, NEW n \in Nat, NEW s, DOMAIN s = 1 .. n,
         s = [i \in DOMAIN s |-> s[i]],
         \A i \in 1 .. n : s[i] \in Seq(T)
  PROVE  FlattenSeq(s) \in Seq(T) /\ InBlocks(FlattenSeq(s), s, n)
<1>1. s \in Seq(Seq(T)) /\ Len(s) = n
  BY Written
<1> QED
  BY <1>1, FlattenBlocks

\* The matrix holds every policy with every seed.
LEMMA JobsCovered ==
  Jobs \in Seq(Job) /\ \A j \in Job : \E i \in DOMAIN Jobs : Jobs[i] = j
<1> DEFINE row(p) == [s \in DOMAIN Seeds |-> <<Policies[p], Seeds[s]>>]
           rows == [p \in DOMAIN Policies |-> row(p)]
<1>1. ASSUME NEW p \in DOMAIN Policies
      PROVE  row(p) \in Seq(Job)
  BY <1>1, Matrix, Written
<1>2. Jobs = FlattenSeq(rows)
  BY DEF Jobs
<1>3. Jobs \in Seq(Job) /\ InBlocks(Jobs, rows, Len(Policies))
  BY <1>1, <1>2, Matrix, Flattened
<1>4. ASSUME NEW j \in Job
      PROVE  \E i \in DOMAIN Jobs : Jobs[i] = j
  <2>1. PICK p \in DOMAIN Policies, s \in DOMAIN Seeds : j = <<Policies[p], Seeds[s]>>
    BY Matrix DEF Range
  <2>2. s \in DOMAIN rows[p] /\ rows[p][s] = j
    BY <2>1
  <2> HIDE DEF rows
  <2>3. \E i \in DOMAIN Jobs : Jobs[i] = rows[p][s]
    BY <1>3, <2>1, <2>2, Matrix DEF InBlocks
  <2> QED
    BY <2>2, <2>3
<1> QED
  BY <1>3, <1>4

\* What is left to be trained is every job that is not kept.
LEMMA UntrainedCovered ==
  /\ Untrained \in Seq(Job)
  /\ \A j \in Job : ~(driver.resume /\ Trained(j)) =>
       \E i \in DOMAIN Untrained : Untrained[i] = j
<1> DEFINE kept(j) == driver.resume /\ Trained(j)
           parts == [i \in DOMAIN Jobs |-> IF kept(Jobs[i]) THEN <<>> ELSE <<Jobs[i]>>]
<1>1. Jobs \in Seq(Job) /\ DOMAIN Jobs = 1 .. Len(Jobs) /\ Len(Jobs) \in Nat
  BY JobsCovered
<1>2. ASSUME NEW i \in DOMAIN Jobs
      PROVE  parts[i] \in Seq(Job)
  BY <1>1, <1>2
<1>3. Untrained = FlattenSeq(parts)
  BY DEF Untrained
<1>4. Untrained \in Seq(Job) /\ InBlocks(Untrained, parts, Len(Jobs))
  BY <1>1, <1>2, <1>3, Flattened
<1>5. ASSUME NEW j \in Job, ~kept(j)
      PROVE  \E i \in DOMAIN Untrained : Untrained[i] = j
  <2>1. PICK i \in DOMAIN Jobs : Jobs[i] = j
    BY JobsCovered
  <2>2. 1 \in DOMAIN parts[i] /\ parts[i][1] = j
    BY <2>1, <1>5
  <2> HIDE DEF parts
  <2>3. \E x \in DOMAIN Untrained : Untrained[x] = parts[i][1]
    BY <1>1, <1>4, <2>2 DEF InBlocks
  <2> QED
    BY <2>2, <2>3
<1> QED
  BY <1>4, <1>5

AllEvaluations == {Evaluation(j, x) : j \in Job, x \in Range(Splits)}
AllReports == {Report(p) : p \in Range(Policies)}
AllBaselines == {Baseline(x) : x \in Range(Splits)}
AllStages == AllBaselines \cup AllEvaluations \cup AllReports

LEMMA BaselinesFirst ==
  Baselines \in Seq(AllBaselines)
BY Matrix, Written DEF Baselines, AllBaselines

LEMMA EvaluationsOfOne ==
  ASSUME NEW p \in Range(Policies)
  PROVE  EvaluationsOf(p) \in Seq(AllEvaluations)
<1> DEFINE row(s) == [i \in DOMAIN Splits |-> Evaluation(<<p, Seeds[s]>>, Splits[i])]
           rows == [s \in DOMAIN Seeds |-> row(s)]
<1>1. ASSUME NEW s \in DOMAIN Seeds
      PROVE  row(s) \in Seq(AllEvaluations)
  <2>1. <<p, Seeds[s]>> \in Job
    BY <1>1, Matrix
  <2>2. \A i \in DOMAIN Splits : row(s)[i] \in AllEvaluations
    BY <2>1, Matrix DEF AllEvaluations
  <2>3. DOMAIN row(s) = 1 .. Len(Splits) /\ row(s) = [i \in DOMAIN row(s) |-> row(s)[i]]
    BY Matrix
  <2> HIDE DEF row
  <2> QED
    BY <2>2, <2>3, Matrix, Written
<1> QED
  BY <1>1, Matrix, Flattened DEF EvaluationsOf

\* The kinds tell the stages apart.
LEMMA StagesDiffer ==
  /\ \A s \in AllBaselines : s.kind = "baseline"
  /\ \A s \in AllEvaluations : s.kind = "model" /\ s.of[1] \in Job
  /\ \A s \in AllReports : s.kind = "report"
  /\ \A p, q : Report(p) = Report(q) => p = q
  /\ \A p : Report(p).kind = "report"
BY DEF AllBaselines, AllEvaluations, AllReports, Baseline, Evaluation, Report

\* The stages, and what comes before a report.
LEMMA StagesInOrder ==
  /\ Stages \in Seq(AllStages)
  /\ \A p \in Range(Policies) : \E k \in DOMAIN Stages : Stages[k] = Report(p)
  /\ \A k \in DOMAIN Stages, p \in Range(Policies) : Stages[k] = Report(p) =>
       \A s \in Range(Baselines \o EvaluationsOf(p)) :
         \E i \in 1 .. k - 1 : Stages[i] = s
<1> DEFINE block(p) == Append(EvaluationsOf(Policies[p]), Report(Policies[p]))
           blocks == [p \in DOMAIN Policies |-> block(p)]
           F == FlattenSeq(blocks)
           B == Baselines
           n == Len(Baselines)
<1>1. ASSUME NEW p \in DOMAIN Policies
      PROVE  /\ block(p) \in Seq(AllEvaluations \cup AllReports)
             /\ block(p) = Append(EvaluationsOf(Policies[p]), Report(Policies[p]))
             /\ EvaluationsOf(Policies[p]) \in Seq(AllEvaluations)
             /\ blocks[p] = block(p)
  <2>1. Policies[p] \in Range(Policies)
    BY <1>1, Matrix
  <2>2. EvaluationsOf(Policies[p]) \in Seq(AllEvaluations)
    BY <2>1, EvaluationsOfOne
  <2>3. Report(Policies[p]) \in AllReports
    BY <2>1 DEF AllReports
  <2>4. EvaluationsOf(Policies[p]) \in Seq(AllEvaluations \cup AllReports)
    BY <2>2
  <2> QED
    BY <2>2, <2>3, <2>4, <1>1
<1>2. F \in Seq(AllEvaluations \cup AllReports) /\ InBlocks(F, blocks, Len(Policies))
  BY <1>1, Matrix, Flattened
<1>3. Stages = B \o F
  BY DEF Stages
<1>4. B \in Seq(AllBaselines) /\ n \in Nat /\ DOMAIN B = 1 .. n
  BY BaselinesFirst
<1> HIDE DEF B, F, n, block, blocks
<1>5. B \in Seq(AllStages) /\ F \in Seq(AllStages)
  BY <1>2, <1>4 DEF AllStages
<1>6. Len(F) \in Nat /\ DOMAIN F = 1 .. Len(F)
  BY <1>2
<1>7. /\ Stages \in Seq(AllStages) /\ DOMAIN Stages = 1 .. n + Len(F)
      /\ \A i \in 1 .. n : Stages[i] = B[i]
      /\ \A i \in 1 .. Len(F) : Stages[n + i] = F[i]
  <2>1. Len(B) = n
    BY DEF B, n
  <2> QED
    BY <1>3, <1>5, <2>1, Joined
<1>8. ASSUME NEW p \in Range(Policies)
      PROVE  \E k \in DOMAIN Stages : Stages[k] = Report(p)
  <2>1. PICK a \in DOMAIN Policies : Policies[a] = p
    BY DEF Range
  <2> DEFINE m == Len(EvaluationsOf(p)) + 1
  <2>2. m \in DOMAIN blocks[a] /\ blocks[a][m] = Report(p)
    BY <1>1, <2>1
  <2>3. PICK x \in DOMAIN F : F[x] = blocks[a][m]
    BY <1>2, <2>2, Matrix DEF InBlocks
  <2>4. n + x \in DOMAIN Stages /\ Stages[n + x] = Report(p)
    BY <1>4, <1>6, <1>7, <2>2, <2>3
  <2> QED
    BY <2>4
<1>9. ASSUME NEW k \in DOMAIN Stages, NEW p \in Range(Policies), Stages[k] = Report(p),
             NEW s \in Range(Baselines \o EvaluationsOf(p))
      PROVE  \E i \in 1 .. k - 1 : Stages[i] = s
  <2>1. k \notin 1 .. n
    <3>1. \A i \in 1 .. n : B[i] \in AllBaselines
      BY <1>4
    <3> QED
      BY <1>7, <1>9, <3>1, StagesDiffer
  <2>2. PICK x \in DOMAIN F : k = n + x
    <3>1. k - n \in 1 .. Len(F) /\ k = n + (k - n)
      BY <1>4, <1>6, <1>7, <2>1
    <3> QED
      BY <1>6, <3>1
  <2>3. F[x] = Report(p)
    BY <1>6, <1>7, <1>9, <2>2
  <2>4. PICK a \in DOMAIN Policies : \E m \in DOMAIN blocks[a] :
          /\ F[x] = blocks[a][m]
          /\ \A i \in 1 .. m - 1 : \E y \in 1 .. x - 1 : F[y] = blocks[a][i]
    <3>1. \A y \in DOMAIN F : \E a \in 1 .. Len(Policies) : \E m \in DOMAIN blocks[a] :
            /\ F[y] = blocks[a][m]
            /\ \A i \in 1 .. m - 1 : \E z \in 1 .. y - 1 : F[z] = blocks[a][i]
      BY <1>2 DEF InBlocks
    <3> QED
      BY <3>1, Matrix
  <2>5. PICK m \in DOMAIN blocks[a] :
          /\ F[x] = blocks[a][m]
          /\ \A i \in 1 .. m - 1 : \E y \in 1 .. x - 1 : F[y] = blocks[a][i]
    BY <2>4
  <2> DEFINE E == EvaluationsOf(Policies[a])
  <2>6. /\ E \in Seq(AllEvaluations) /\ blocks[a] = Append(E, Report(Policies[a]))
        /\ Len(E) \in Nat /\ DOMAIN E = 1 .. Len(E)
    BY <1>1
  <2> HIDE DEF E
  <2>7. /\ DOMAIN blocks[a] = 1 .. Len(E) + 1
        /\ \A i \in 1 .. Len(E) : blocks[a][i] = E[i] /\ E[i] \in AllEvaluations
        /\ blocks[a][Len(E) + 1] = Report(Policies[a])
    BY <2>6
  <2>8. m \notin 1 .. Len(E)
    <3>1. blocks[a][m] = Report(p)
      BY <2>3, <2>5
    <3>2. Report(p).kind = "report"
      BY StagesDiffer
    <3>3. \A r \in AllEvaluations : r.kind = "model"
      BY StagesDiffer
    <3> QED
      BY <2>7, <3>1, <3>2, <3>3
  <2>9. m = Len(E) + 1 /\ Policies[a] = p
    <3>1. m = Len(E) + 1
      BY <2>6, <2>7, <2>8
    <3>2. Report(p) = Report(Policies[a])
      BY <2>3, <2>5, <2>7, <3>1
    <3> QED
      BY <3>1, <3>2, StagesDiffer
  <2>10. PICK z \in DOMAIN (B \o E) : s = (B \o E)[z]
    BY <1>9, <2>9 DEF Range, B, E
  <2>11. /\ Len(B) = n /\ DOMAIN (B \o E) = 1 .. n + Len(E)
         /\ \A i \in 1 .. n : (B \o E)[i] = B[i]
         /\ \A i \in 1 .. Len(E) : (B \o E)[n + i] = E[i]
    <3>1. Len(B) = n
      BY DEF B, n
    <3>2. B \in Seq(AllStages) /\ E \in Seq(AllStages)
      BY <1>5, <2>6 DEF AllStages
    <3>3. /\ DOMAIN (B \o E) = 1 .. Len(B) + Len(E)
          /\ \A i \in 1 .. Len(B) : (B \o E)[i] = B[i]
          /\ \A i \in 1 .. Len(E) : (B \o E)[Len(B) + i] = E[i]
      BY <3>2, Joined
    <3> QED
      BY <3>1, <3>3
  <2>12. CASE z \in 1 .. n
    <3>1. Stages[z] = s /\ z \in 1 .. k - 1
      <4>1. x \in Nat /\ x >= 1
        BY <1>6
      <4> QED
        BY <1>4, <1>7, <2>2, <2>10, <2>11, <2>12, <4>1
    <3> QED
      BY <3>1
  <2>13. CASE z \notin 1 .. n
    <3>1. z - n \in 1 .. Len(E) /\ z = n + (z - n)
      BY <1>4, <2>6, <2>10, <2>11, <2>13
    <3>2. s = E[z - n]
      BY <2>10, <2>11, <3>1
    <3>3. z - n \in 1 .. m - 1
      BY <2>6, <2>9, <3>1
    <3>4. PICK y \in 1 .. x - 1 : F[y] = blocks[a][z - n]
      BY <2>5, <3>3
    <3>5. F[y] = s
      BY <2>7, <3>1, <3>2, <3>4
    <3>6. y \in 1 .. Len(F) /\ n + y \in 1 .. k - 1
      BY <1>4, <1>6, <2>2, <3>4
    <3>7. Stages[n + y] = s
      BY <1>7, <3>5, <3>6
    <3> QED
      BY <3>6, <3>7
  <2> QED
    BY <2>12, <2>13
<1> QED
  BY <1>7, <1>8, <1>9

-----------------------------------------------------------------------------
(* The run *)

\* While a run is on, what is on disk is what the protocol has frozen.
DriverInv ==
  /\ DOMAIN driver = DOMAIN Idle
  /\ driver.at \notin {"idle", "prepare", "exporting"} => protocol = source
  /\ driver.at = "prepare" => protocol = None
  /\ driver.at = "writing" =>
       (Now \in DOMAIN stage => stage[Now].state # "complete")

\* Without a protocol there is nothing; with one, everything is of it.
PlanInv ==
  /\ source \in {1, 2} /\ protocol \in {None, 1, 2}
  /\ madeBy \in [Job -> {None, 1, 2}]
  /\ protocol = None =>
       /\ \A j \in Job : ~files[j].made /\ ~Running(j)
       /\ \A s \in DOMAIN stage : stage[s].state = "absent"
  /\ \A j \in Job : files[j].made \/ Running(j) => madeBy[j] = protocol
  /\ \A s \in DOMAIN stage : stage[s].state # "absent" => stage[s].by = protocol

ExperimentInv == TrainingInv /\ PlanInv /\ DriverInv

\* The step of CompletedIsKept.
Keeps ==
  protocol' = protocol =>
    /\ \A j \in Job : Complete(j) =>
         [files'[j] EXCEPT !.last = None] = [files[j] EXCEPT !.last = None]
    /\ \A s \in DOMAIN stage : stage[s].state = "complete" => stage'[s] = stage[s]

Preserves == ExperimentInv' /\ Keeps

LEMMA IdleFields == {"at", "pos"} \subseteq DOMAIN Idle /\ Idle.at = "idle"
BY DEF Idle

\* Steps of the run that touch neither the trainings nor the stages.
LEMMA DriverGoesOn ==
  ASSUME ExperimentInv, UNCHANGED <<train, files, source, protocol, madeBy, stage>>,
         DriverInv'
  PROVE  Preserves
<1>1. TrainingInv'
  BY DEF ExperimentInv, TrainingInv
<1>2. PlanInv'
  BY DEF ExperimentInv, PlanInv, Running
<1>3. Keeps
  BY DEF Keeps
<1> QED
  BY <1>1, <1>2, <1>3 DEF Preserves, ExperimentInv

LEMMA StopsIdle ==
  ASSUME Stops
  PROVE  DriverInv'
BY IdleFields DEF Stops, DriverInv

LEMMA DriverSteps ==
  ASSUME ExperimentInv,
         \/ Scan \/ Cancel \/ GiveUp \/ AllTrained \/ SkipStage \/ StageStops
         \/ BeginStage \/ Tables \/ Export \/ WriteArtifacts \/ Kill
         \/ \E export \in BOOLEAN : LaunchFresh(export) \/ LaunchResume(export)
  PROVE  Preserves
<1> USE IdleFields DEF ExperimentInv, trainVars
<1>1. CASE Scan
  <2>1. DOMAIN driver' = DOMAIN Idle /\ driver'.at \in {"idle", "train"}
    BY <1>1 DEF Scan, Stops, DriverInv
  <2> QED
    BY <1>1, <2>1, DriverGoesOn DEF Scan, DriverInv
<1>2. CASE Cancel
  <2>1. DOMAIN driver' = DOMAIN Idle /\ driver'.at = "cancelled"
    BY <1>2 DEF Cancel, DriverInv
  <2> QED
    BY <1>2, <2>1, DriverGoesOn DEF Cancel, DriverInv
<1>3. CASE GiveUp \/ StageStops \/ Kill
  BY <1>3, StopsIdle, DriverGoesOn DEF GiveUp, StageStops, Kill
<1>4. CASE AllTrained
  <2>1. DOMAIN driver' = DOMAIN Idle /\ driver'.at = "stages"
    BY <1>4 DEF AllTrained, DriverInv
  <2> QED
    BY <1>4, <2>1, DriverGoesOn DEF AllTrained, DriverInv
<1>5. CASE SkipStage
  <2>1. DOMAIN driver' = DOMAIN Idle /\ driver'.at = "stages"
    BY <1>5 DEF SkipStage, AtStage, DriverInv
  <2> QED
    BY <1>5, <2>1, DriverGoesOn DEF SkipStage, AtStage, DriverInv
<1>6. CASE BeginStage
  <2>1. /\ DOMAIN driver' = DOMAIN Idle /\ driver'.at = "writing"
        /\ driver'.pos = driver.pos
    BY <1>6 DEF BeginStage, DriverInv
  <2>2. Now' = Now /\ stage' = stage /\ stage[Now].state = "absent"
    BY <1>6, <2>1 DEF BeginStage, Startable, Now
  <2>3. DriverInv'
    BY <1>6, <2>1, <2>2 DEF BeginStage, AtStage, DriverInv
  <2> QED
    BY <1>6, <2>3, DriverGoesOn DEF BeginStage
<1>7. CASE Tables
  <2>1. DOMAIN driver' = DOMAIN Idle /\ driver'.at \in {"export", "tidy"}
    BY <1>7 DEF Tables, DriverInv
  <2> QED
    BY <1>7, <2>1, DriverGoesOn DEF Tables, DriverInv
<1>8. CASE Export
  <2>1. /\ DOMAIN driver' = DOMAIN Idle
        /\ driver'.at = IF driver.at = "idle" THEN "exporting" ELSE "copying"
    BY <1>8 DEF Export, DriverInv
  <2> QED
    BY <1>8, <2>1, DriverGoesOn DEF Export, DriverInv
<1>9. CASE WriteArtifacts
  <2>1. CASE driver.at = "exporting"
    BY <1>9, <2>1, StopsIdle, DriverGoesOn DEF WriteArtifacts, Stops
  <2>2. CASE driver.at = "copying"
    <3>1. DOMAIN driver' = DOMAIN Idle /\ driver'.at = "tidy"
      BY <1>9, <2>2 DEF WriteArtifacts, DriverInv
    <3> QED
      BY <1>9, <2>2, <3>1, DriverGoesOn DEF WriteArtifacts, DriverInv
  <2> QED
    BY <1>9, <2>1, <2>2 DEF WriteArtifacts
<1>10. ASSUME NEW export \in BOOLEAN, LaunchFresh(export)
       PROVE  Preserves
  <2>1. DOMAIN driver' = DOMAIN Idle /\ driver'.at = "prepare"
    BY <1>10 DEF LaunchFresh
  <2> QED
    BY <1>10, <2>1, DriverGoesOn DEF LaunchFresh, DriverInv
<1>11. ASSUME NEW export \in BOOLEAN, LaunchResume(export)
       PROVE  Preserves
  <2>1. DOMAIN driver' = DOMAIN Idle /\ driver'.at = "scan"
    BY <1>11 DEF LaunchResume
  <2> QED
    BY <1>11, <2>1, DriverGoesOn DEF LaunchResume, SamePlan, DriverInv
<1> QED
  BY <1>1, <1>2, <1>3, <1>4, <1>5, <1>6, <1>7, <1>8, <1>9, <1>10, <1>11

LEMMA FreezeSteps ==
  ASSUME ExperimentInv, Freeze
  PROVE  Preserves
<1> USE DEF ExperimentInv, Freeze, trainVars
<1>1. /\ DOMAIN driver' = DOMAIN Idle /\ driver'.at = "scan"
      /\ protocol = None /\ protocol' = source /\ source' = source
  BY IdleFields DEF DriverInv
<1>2. TrainingInv'
  BY DEF TrainingInv
<1>3. DriverInv'
  BY <1>1 DEF DriverInv
<1>4. PlanInv'
  BY <1>1 DEF PlanInv, Running, None
<1>5. Keeps
  BY DEF Keeps
<1> QED
  BY <1>2, <1>3, <1>4, <1>5 DEF Preserves

\* A step of one training keeps everything of the run.
LEMMA MovesPreserve ==
  ASSUME ExperimentInv, NEW j \in Job, Moves(j),
         UNCHANGED <<driver, source, protocol, madeBy, stage>>
  PROVE  Preserves
<1>1. PICK T \in Processes, D \in Directories :
        /\ Sound(Algorithm(j), T, D)
        /\ train' = [train EXCEPT ![j] = T] /\ files' = [files EXCEPT ![j] = D]
        /\ Complete(j) => D = files[j]
  BY DEF Moves
<1>2. train \in [Job -> Processes] /\ files \in [Job -> Directories]
  BY DEF ExperimentInv, TrainingInv
<1>3. TrainingInv'
  BY <1>1, <1>2 DEF ExperimentInv, TrainingInv
<1>4. Running(j)
  BY DEF Moves
<1>5. \A k \in Job : k # j => train'[k] = train[k] /\ files'[k] = files[k]
  BY <1>1, <1>2
<1>6. madeBy[j] = protocol /\ protocol # None
  BY <1>4 DEF ExperimentInv, PlanInv
<1>7. PlanInv'
  BY <1>5, <1>6 DEF ExperimentInv, PlanInv, Running
<1>8. DriverInv'
  BY DEF ExperimentInv, DriverInv, Now
<1>9. Keeps
  BY <1>1, <1>2, <1>5 DEF Keeps
<1> QED
  BY <1>3, <1>7, <1>8, <1>9 DEF Preserves, ExperimentInv

LEMMA StartTaskSteps ==
  ASSUME ExperimentInv, StartTask
  PROVE  Preserves
<1> DEFINE i == driver.started + 1
           started == [driver EXCEPT !.started = i]
           P == [NoProcess EXCEPT !.at = "launched"]
           j == Task(i)
<1>1. /\ DOMAIN started = DOMAIN Idle /\ started.at = "train"
      /\ driver.at = "train" /\ protocol = source /\ protocol # None
  BY IdleFields DEF StartTask, ExperimentInv, DriverInv, PlanInv, None
<1>2. UNCHANGED <<files, source, protocol, stage>>
  BY DEF StartTask
<1>3. CASE /\ driver' = [started EXCEPT !.lost = @ \cup {j}]
           /\ UNCHANGED <<train, madeBy>>
  <2>1. DOMAIN driver' = DOMAIN Idle /\ driver'.at = "train"
    BY <1>1, <1>3, IdleFields
  <2> QED
    BY <1>1, <1>2, <1>3, <2>1, DriverGoesOn DEF ExperimentInv, DriverInv
<1>4. CASE /\ driver' = started
           /\ train' = [train EXCEPT ![j] = P]
           /\ madeBy' = IF files[j].made THEN madeBy
                        ELSE [madeBy EXCEPT ![j] = source]
  <2>1. P \in Processes /\ P.at \notin Working /\ P.at = "launched"
    BY NothingThere DEF Processes, Working
  <2> HIDE DEF i, started, P, j
  <2>2. train \in [Job -> Processes] /\ files \in [Job -> Directories]
    BY DEF ExperimentInv, TrainingInv
  <2>3. \A k \in Job : train'[k] = IF k = j THEN P ELSE train[k]
    BY <1>4, <2>2
  <2>4. TrainingInv'
    <3>1. train' \in [Job -> Processes]
      BY <1>4, <2>1, <2>2
    <3>2. \A k \in Job : SoundRun(Algorithm(k), P, files[k]) /\ Whole(Algorithm(k), P)
      BY <2>1, NotWorking, NotWorkingWhole
    <3> QED
      BY <1>2, <2>3, <3>1, <3>2 DEF ExperimentInv, TrainingInv, Sound
  <2>5. /\ madeBy' \in [Job -> {None, 1, 2}]
        /\ \A k \in Job : madeBy'[k] = IF k = j /\ ~files[j].made THEN source
                                       ELSE madeBy[k]
    BY <1>4 DEF ExperimentInv, PlanInv
  <2>6. PlanInv'
    BY <1>1, <1>2, <2>3, <2>5 DEF ExperimentInv, PlanInv, Running
  <2>7. DriverInv'
    BY <1>1, <1>2, <1>4 DEF DriverInv
  <2>8. Keeps
    BY <1>2 DEF Keeps
  <2> QED
    BY <2>4, <2>6, <2>7, <2>8 DEF Preserves, ExperimentInv
<1> QED
  BY <1>3, <1>4 DEF StartTask

LEMMA WriteStageSteps ==
  ASSUME ExperimentInv, WriteStage
  PROVE  Preserves
<1> DEFINE after == [absent |-> "partial", partial |-> "torn", torn |-> "complete"]
           is == after[stage[Now].state]
           dir == [state |-> is, by |-> source, weights |-> driver.weights]
<1>1. /\ driver.at = "writing" /\ stage' = [stage EXCEPT ![Now] = dir]
      /\ driver' = IF is = "complete"
                   THEN [driver EXCEPT !.at = "stages", !.pos = @ + 1] ELSE driver
      /\ UNCHANGED <<train, files, source, protocol, madeBy>>
  BY DEF WriteStage, trainVars
<1>2. dir.state = is /\ dir.by = source
  OBVIOUS
<1> HIDE DEF is, dir
<1>3. /\ DOMAIN driver' = DOMAIN Idle
      /\ IF is = "complete" THEN driver'.at = "stages" ELSE driver' = driver
  BY <1>1, IdleFields DEF ExperimentInv, DriverInv
<1>4. protocol = source /\ protocol # None
  BY <1>1 DEF ExperimentInv, DriverInv, PlanInv, None
<1>5. /\ DOMAIN stage' = DOMAIN stage
      /\ \A s \in DOMAIN stage : stage'[s] = IF s = Now THEN dir ELSE stage[s]
  BY <1>1
<1>6. TrainingInv'
  BY <1>1 DEF ExperimentInv, TrainingInv
<1>7. PlanInv'
  BY <1>1, <1>2, <1>4, <1>5 DEF ExperimentInv, PlanInv, Running
<1>8. DriverInv'
  <2>1. CASE is = "complete"
    BY <1>1, <1>3, <1>4, <2>1 DEF DriverInv
  <2>2. CASE is # "complete"
    <3>1. driver' = driver /\ Now' = Now
      BY <1>3, <2>2 DEF Now
    <3> QED
      BY <1>1, <1>2, <1>3, <1>4, <1>5, <2>2, <3>1 DEF DriverInv
  <2> QED
    BY <2>1, <2>2
<1>9. Keeps
  BY <1>1, <1>5 DEF Keeps, ExperimentInv, DriverInv
<1> QED
  BY <1>6, <1>7, <1>8, <1>9 DEF Preserves, ExperimentInv

LEMMA SoundWithoutLast ==
  ASSUME NEW a, NEW T, NEW D, Sound(a, T, D), NEW F, F = [D EXCEPT !.last = None]
  PROVE  /\ Sound(a, T, F) /\ F \in Directories
         /\ F.made = D.made /\ F.meta = D.meta
<1>1. D \in Directories
  BY DEF Sound, SoundFiles
<1>2. /\ F \in Directories /\ F.made = D.made /\ F.meta = D.meta
      /\ F.history = D.history /\ F.best = D.best
  BY <1>1 DEF Directories, None
<1> QED
  BY <1>2 DEF Sound, SoundFiles, SoundRun

LEMMA TidySteps ==
  ASSUME ExperimentInv, Tidy
  PROVE  Preserves
<1>1. /\ files' = [j \in Job |-> [files[j] EXCEPT !.last = None]]
      /\ Stops /\ UNCHANGED <<train, source, protocol, madeBy, stage>>
  BY DEF Tidy
<1>2. \A j \in Job : Sound(Algorithm(j), train[j], files[j])
  BY DEF ExperimentInv, TrainingInv
<1>3. \A j \in Job : /\ Sound(Algorithm(j), train[j], files'[j])
                     /\ files'[j] \in Directories
                     /\ files'[j].made = files[j].made
                     /\ files'[j].meta = files[j].meta
  BY <1>1, <1>2, SoundWithoutLast
<1>4. files' \in [Job -> Directories]
  BY <1>1, <1>3
<1>5. TrainingInv'
  BY <1>1, <1>3, <1>4 DEF ExperimentInv, TrainingInv
<1>6. PlanInv'
  BY <1>1, <1>3 DEF ExperimentInv, PlanInv, Running
<1>7. Keeps
  <2>1. ASSUME NEW j \in Job
        PROVE  [files'[j] EXCEPT !.last = None] = [files[j] EXCEPT !.last = None]
    <3>1. files'[j] = [files[j] EXCEPT !.last = None] /\ files[j] \in Directories
      BY <1>1 DEF ExperimentInv, TrainingInv
    <3> QED
      BY <3>1 DEF Directories
  <2> QED
    BY <1>1, <2>1 DEF Keeps
<1> QED
  BY <1>1, <1>5, <1>6, <1>7, StopsIdle DEF Preserves, ExperimentInv

LEMMA EditSteps ==
  ASSUME ExperimentInv, Edit
  PROVE  Preserves
<1>1. /\ driver.at = "idle" /\ source' \in {1, 2}
      /\ UNCHANGED <<train, files, driver, protocol, madeBy, stage>>
  BY DEF Edit, ExperimentInv, PlanInv, trainVars
<1>2. TrainingInv'
  BY <1>1 DEF ExperimentInv, TrainingInv
<1>3. PlanInv'
  BY <1>1 DEF ExperimentInv, PlanInv, Running
<1>4. DriverInv'
  BY <1>1 DEF ExperimentInv, DriverInv
<1>5. Keeps
  BY <1>1 DEF Keeps
<1> QED
  BY <1>2, <1>3, <1>4, <1>5 DEF Preserves, ExperimentInv

\* A process that is not running is sound beside an empty directory.
LEMMA EmptyIsSound ==
  ASSUME NEW j \in Job, TrainingInv, ~Running(j)
  PROVE  Sound(Algorithm(j), train[j], NoFiles)
<1>1. train[j] \in Processes /\ train[j].at \notin Working
  BY DEF TrainingInv, Running, Working
<1>2. Whole(Algorithm(j), train[j])
  BY DEF TrainingInv, Sound
<1>3. SoundFiles(Algorithm(j), NoFiles)
  BY NothingThere DEF SoundFiles
<1> QED
  BY <1>1, <1>3, <1>2, NotWorking DEF Sound

LEMMA ClearSteps ==
  ASSUME ExperimentInv, Clear
  PROVE  Preserves
<1>1. /\ driver.at = "idle" /\ \A j \in Job : ~Running(j)
      /\ files' = [j \in Job |-> IF Complete(j) THEN files[j] ELSE NoFiles]
      /\ stage' = [s \in DOMAIN stage |->
                     IF stage[s].state = "complete" THEN stage[s] ELSE NoStage]
      /\ UNCHANGED <<train, driver, source, protocol, madeBy>>
  BY DEF Clear, Quiet
<1>2. NoStage.state = "absent"
  BY DEF NoStage
<1>3. /\ DOMAIN stage' = DOMAIN stage
      /\ \A s \in DOMAIN stage :
           stage'[s] = IF stage[s].state = "complete" THEN stage[s] ELSE NoStage
  BY <1>1
<1>4. \A j \in Job : /\ files'[j] \in Directories
                     /\ Sound(Algorithm(j), train[j], files'[j])
                     /\ files'[j].made => files[j].made
  BY <1>1, NothingThere, EmptyIsSound DEF ExperimentInv, TrainingInv
<1>5. files' \in [Job -> Directories]
  BY <1>1, <1>4
<1>6. TrainingInv'
  BY <1>1, <1>4, <1>5 DEF ExperimentInv, TrainingInv
<1>7. PlanInv'
  BY <1>1, <1>2, <1>3, <1>4 DEF ExperimentInv, PlanInv, Running
<1>8. DriverInv'
  BY <1>1 DEF ExperimentInv, DriverInv
<1>9. Keeps
  BY <1>1, <1>3 DEF Keeps
<1> QED
  BY <1>6, <1>7, <1>8, <1>9 DEF Preserves, ExperimentInv

LEMMA StartOverSteps ==
  ASSUME ExperimentInv, StartOver
  PROVE  Preserves
<1>1. /\ driver.at = "idle" /\ \A j \in Job : ~Running(j)
      /\ files' = [j \in Job |-> NoFiles] /\ protocol' = None
      /\ stage' = [s \in DOMAIN stage |-> NoStage]
      /\ UNCHANGED <<train, driver, source, madeBy>>
  BY DEF StartOver, Quiet
<1>2. NoStage.state = "absent"
  BY DEF NoStage
<1>3. \A j \in Job : files'[j] \in Directories /\ ~files'[j].made
                     /\ Sound(Algorithm(j), train[j], files'[j])
  BY <1>1, NothingThere, EmptyIsSound DEF ExperimentInv
<1>4. files' \in [Job -> Directories]
  BY <1>1, <1>3
<1>5. TrainingInv'
  BY <1>1, <1>3, <1>4 DEF ExperimentInv, TrainingInv
<1>6. PlanInv'
  BY <1>1, <1>2, <1>3 DEF ExperimentInv, PlanInv, Running
<1>7. DriverInv'
  BY <1>1 DEF ExperimentInv, DriverInv
<1>8. Keeps
  <2>1. CASE protocol = None
    BY <2>1, <1>1 DEF Keeps, ExperimentInv, PlanInv, TrainingInv, Sound, SoundFiles,
                      Complete
  <2>2. CASE protocol # None
    BY <2>2, <1>1 DEF Keeps
  <2> QED
    BY <2>1, <2>2
<1> QED
  BY <1>5, <1>6, <1>7, <1>8 DEF Preserves, ExperimentInv

LEMMA InitHolds ==
  ASSUME ExpInit
  PROVE  ExperimentInv
<1> USE DEF ExpInit, TrainInit
<1>1. \A j \in Job : ~Running(j)
  BY NothingThere DEF Running
<1>2. TrainingInv
  <2>1. train \in [Job -> Processes] /\ files \in [Job -> Directories]
    BY NothingThere
  <2>2. \A j \in Job : SoundFiles(Algorithm(j), NoFiles)
    BY NothingThere DEF SoundFiles
  <2>3. \A j \in Job : /\ SoundRun(Algorithm(j), NoProcess, NoFiles)
                       /\ Whole(Algorithm(j), NoProcess)
    BY NothingThere, NotWorking, NotWorkingWhole DEF Working
  <2> QED
    BY <2>1, <2>2, <2>3 DEF TrainingInv, Sound
<1>3. PlanInv
  BY <1>1, NothingThere DEF PlanInv, NoStage
<1>4. DriverInv
  BY IdleFields DEF DriverInv
<1> QED
  BY <1>2, <1>3, <1>4 DEF ExperimentInv

LEMMA NextPreserves ==
  ASSUME ExperimentInv, [Next]_vars
  PROVE  Preserves
<1>1. CASE UNCHANGED vars
  <2>1. DriverInv'
    BY <1>1 DEF vars, expVars, trainVars, ExperimentInv, DriverInv, Now
  <2> QED
    BY <1>1, <2>1, DriverGoesOn DEF vars, expVars, trainVars
<1>2. CASE Drive
  BY <1>2, DriverSteps, FreezeSteps, StartTaskSteps, WriteStageSteps, TidySteps
  DEF Drive
<1>3. CASE TrainStep
  <2>1. PICK j \in Job : Proceed(j)
    BY <1>3 DEF TrainStep
  <2>2. Moves(j)
    BY <2>1, TrainingMoves DEF ExperimentInv
  <2> QED
    BY <1>3, <2>2, MovesPreserve DEF TrainStep, expVars
<1>4. CASE Launch
  BY <1>4, DriverSteps DEF Launch
<1>5. CASE (driver.at = "idle" /\ Export) \/ Kill
  BY <1>5, DriverSteps
<1>6. CASE TrainingDies
  <2>1. PICK j \in Job : Dies(j)
    BY <1>6 DEF TrainingDies
  <2>2. Moves(j)
    BY <2>1, TrainingMoves DEF ExperimentInv
  <2> QED
    BY <1>6, <2>2, MovesPreserve DEF TrainingDies
<1>7. CASE Edit \/ Clear \/ StartOver
  BY <1>7, EditSteps, ClearSteps, StartOverSteps
<1> QED
  BY <1>1, <1>2, <1>3, <1>4, <1>5, <1>6, <1>7 DEF Next

-----------------------------------------------------------------------------
(* The evidence *)

Finished == \A j \in Job : Complete(j)

StagesInv == DOMAIN stage = Range(Stages) /\ EvaluatesOnlyFinished

\* What is called complete is, and an exported tree was.
StatusInv ==
  /\ DOMAIN artifacts = {"state", "stages"}
  /\ status = "complete" =>
       Finished /\ \A s \in DOMAIN stage : stage[s].state = "complete"
  /\ artifacts.state # "absent" =>
       Finished /\ \A s \in DOMAIN stage : artifacts.stages[s].state = "complete"
  /\ driver.at \in {"copying", "exporting"} => artifacts.state # "absent"

\* Every job is complete or among the tasks, and a task that was started and
\* not lost is complete when its training says so.
TasksInv ==
  /\ driver.tasks \in Seq(Job) /\ driver.started \in 0 .. Len(driver.tasks)
  /\ \A j \in Job : Complete(j) \/ \E i \in DOMAIN driver.tasks : driver.tasks[i] = j
  /\ \A i \in 1 .. driver.started :
       \/ driver.tasks[i] \in driver.lost
       \/ train[driver.tasks[i]].at = "done" => Complete(driver.tasks[i])

\* The stages before the one at hand are complete.
PassedInv ==
  /\ Finished
  /\ driver.pos \in Nat \ {0}
  /\ \A i \in DOMAIN Stages : i < driver.pos => stage[Stages[i]].state = "complete"

HeldInv ==
  /\ driver.pos \in DOMAIN Stages
  /\ Now.kind = "model" => driver.weights = files[Now.of[1]].meta.best

RunInv ==
  /\ driver.at \in {"prepare", "scan"} => driver.started = 0
  /\ driver.at = "train" => TasksInv
  /\ driver.at \in {"stages", "writing"} => PassedInv
  /\ driver.at = "writing" => HeldInv

EvidenceInv == StagesInv /\ StatusInv /\ RunInv

\* What is complete stays as it is.
Carried ==
  /\ \A j \in Job : Complete(j) =>
       files'[j].meta.state = "complete" /\ files'[j].meta = files[j].meta
  /\ DOMAIN stage' = DOMAIN stage
  /\ \A s \in DOMAIN stage : stage[s].state = "complete" => stage'[s] = stage[s]

LEMMA DriverFields ==
  /\ DOMAIN Idle = {"at", "resume", "export", "tasks", "started", "lost", "pos",
                    "weights"}
  /\ Idle.at = "idle" /\ Idle.started = 0
BY DEF Idle

LEMMA StageKinds ==
  /\ \A s \in Range(Stages) : s \in AllStages
  /\ \A s \in Range(Stages) : s.kind = "model" => s.of[1] \in Job
  /\ \A p \in Range(Policies) :
       /\ Report(p) \in Range(Stages)
       /\ \A s \in Range(Baselines \o EvaluationsOf(p)) : s \in Range(Stages)
  /\ \A i \in DOMAIN Stages : Stages[i] \in Range(Stages)
  /\ DOMAIN Stages = 1 .. Len(Stages) /\ Len(Stages) \in Nat
<1>1. /\ Stages \in Seq(AllStages) /\ DOMAIN Stages = 1 .. Len(Stages)
      /\ Len(Stages) \in Nat
  BY StagesInOrder
<1>2. \A s \in Range(Stages) : s \in AllStages
  BY <1>1 DEF Range
<1>3. \A s \in AllStages : s.kind = "model" => s.of[1] \in Job
  BY StagesDiffer DEF AllStages
<1>4. \A i \in DOMAIN Stages : Stages[i] \in Range(Stages)
  BY DEF Range
<1>5. ASSUME NEW p \in Range(Policies)
      PROVE  /\ Report(p) \in Range(Stages)
             /\ \A s \in Range(Baselines \o EvaluationsOf(p)) : s \in Range(Stages)
  <2>1. PICK k \in DOMAIN Stages : Stages[k] = Report(p)
    BY StagesInOrder
  <2>2. \A s \in Range(Baselines \o EvaluationsOf(p)) : \E i \in 1 .. k - 1 : Stages[i] = s
    BY <2>1, StagesInOrder
  <2>3. \A i \in 1 .. k - 1 : i \in DOMAIN Stages
    BY <1>1
  <2> QED
    BY <1>4, <2>1, <2>2, <2>3
<1> QED
  BY <1>1, <1>2, <1>3, <1>4, <1>5

\* Only another output directory does away with what is complete.
LEMMA CarriesOn ==
  ASSUME ExperimentInv, [Next]_vars, ~StartOver
  PROVE  Carried
<1>1. DOMAIN stage' = DOMAIN stage
  <2>1. CASE WriteStage
    BY <2>1 DEF WriteStage
  <2>2. CASE Clear
    BY <2>2 DEF Clear
  <2>3. CASE ~WriteStage /\ ~Clear
    BY <2>3 DEF Next, vars, expVars, Drive, Freeze, Scan, StartTask, Cancel, GiveUp,
       AllTrained, SkipStage, StageStops, BeginStage, Tables, Export, WriteArtifacts,
       Tidy, TrainStep, Launch, LaunchFresh, LaunchResume, Kill, TrainingDies, Edit
  <2> QED
    BY <2>1, <2>2, <2>3
<1>2. CASE Freeze
  BY <1>1, <1>2 DEF Freeze, trainVars, Carried, Complete
<1>3. CASE ~Freeze
  <2>1. protocol' = protocol
    BY <1>3 DEF Next, vars, expVars, Drive, Scan, StartTask, Cancel, GiveUp,
       AllTrained, SkipStage, StageStops, BeginStage, WriteStage, Tables, Export,
       WriteArtifacts, Tidy, TrainStep, Launch, LaunchFresh, LaunchResume, Kill,
       TrainingDies, Edit, Clear
  <2>2. Keeps /\ ExperimentInv'
    BY NextPreserves DEF Preserves
  <2>3. ASSUME NEW j \in Job, Complete(j)
        PROVE  files'[j].meta = files[j].meta
    <3>1. files[j] \in Directories /\ files'[j] \in Directories
      BY <2>2 DEF ExperimentInv, TrainingInv
    <3>2. [files'[j] EXCEPT !.last = None] = [files[j] EXCEPT !.last = None]
      BY <2>1, <2>2, <2>3 DEF Keeps
    <3>3. \A D \in Directories : [D EXCEPT !.last = None].meta = D.meta
      BY DEF Directories
    <3> QED
      BY <3>1, <3>2, <3>3
  <2> QED
    BY <1>1, <2>1, <2>2, <2>3 DEF Keeps, Carried, Complete
<1> QED
  BY <1>2, <1>3

\* Stages that are left alone or done away with.
LEMMA StagesKeep ==
  ASSUME StagesInv, Carried,
         \A s \in DOMAIN stage : stage'[s] = stage[s] \/ stage'[s].state = "absent"
  PROVE  StagesInv'
<1>1. ASSUME NEW s \in DOMAIN stage', s.kind = "model", stage'[s].state # "absent"
      PROVE  Finished' /\ stage'[s].weights = files'[s.of[1]].meta.best
  <2>1. s \in DOMAIN stage /\ stage'[s] = stage[s]
    BY <1>1 DEF Carried
  <2>2. Finished /\ stage[s].weights = files[s.of[1]].meta.best
    BY <1>1, <2>1 DEF StagesInv, EvaluatesOnlyFinished, Finished
  <2>3. s.of[1] \in Job
    BY <1>1, <2>1, StageKinds DEF StagesInv
  <2> QED
    BY <2>1, <2>2, <2>3 DEF Carried, Finished, Complete
<1>2. ASSUME NEW p \in Range(Policies), stage'[Report(p)].state # "absent",
             NEW s \in Range(Baselines \o EvaluationsOf(p))
      PROVE  stage'[s].state = "complete"
  <2>1. Report(p) \in DOMAIN stage /\ s \in DOMAIN stage
    BY StageKinds DEF StagesInv
  <2>2. stage[Report(p)].state # "absent"
    BY <1>2, <2>1
  <2>3. stage[s].state = "complete"
    BY <2>2 DEF StagesInv, EvaluatesOnlyFinished
  <2> QED
    BY <2>1, <2>3 DEF Carried
<1> QED
  BY <1>1, <1>2 DEF StagesInv, EvaluatesOnlyFinished, Carried, Finished

\* A status and an export that are left alone.
LEMMA StatusKeeps ==
  ASSUME StatusInv, Carried, artifacts' = artifacts,
         status' \in {status, "none", "made", "training", "evaluation"},
         driver'.at \in {"copying", "exporting"} => driver'.at = driver.at
  PROVE  StatusInv'
<1>1. status' = "complete" => status = "complete"
  OBVIOUS
<1>2. Finished => Finished'
  BY DEF Carried, Finished, Complete
<1>3. status' = "complete" => Finished' /\ \A s \in DOMAIN stage' : stage'[s].state = "complete"
  BY <1>1, <1>2 DEF StatusInv, Carried
<1>4. artifacts'.state # "absent" =>
        Finished' /\ \A s \in DOMAIN stage' : artifacts'.stages[s].state = "complete"
  BY <1>2 DEF StatusInv, Carried
<1> QED
  BY <1>3, <1>4 DEF StatusInv

\* Steps that leave the stages, the status and the export alone.
LEMMA OnlyTheRun ==
  ASSUME EvidenceInv, Carried, UNCHANGED <<stage, artifacts>>,
         status' \in {status, "none", "made", "training", "evaluation"},
         driver'.at \in {"copying", "exporting"} => driver'.at = driver.at,
         RunInv'
  PROVE  EvidenceInv'
BY StagesKeep, StatusKeeps DEF EvidenceInv

\* A run that waits, or does not read what it has.
LEMMA Elsewhere ==
  ASSUME driver'.at \notin {"prepare", "scan", "train", "stages", "writing"}
  PROVE  RunInv'
BY DEF RunInv

\* The tasks are what is left, when nothing was torn.
LEMMA ScanEvidence ==
  ASSUME ExperimentInv, EvidenceInv, Carried, Scan
  PROVE  EvidenceInv'
<1>1. /\ driver.at = "scan" /\ UNCHANGED <<train, files, stage, artifacts>>
      /\ status' = "training"
  BY DEF Scan, trainVars
<1>2. CASE driver' = Idle
  BY <1>1, <1>2, Elsewhere, OnlyTheRun, DriverFields
<1>3. CASE /\ ~(driver.resume /\ \E j \in Job : files[j].meta.state = "torn")
           /\ driver' = [driver EXCEPT !.at = "train", !.tasks = Untrained]
  <2>1. /\ driver'.at = "train" /\ driver'.tasks = Untrained
        /\ driver'.started = driver.started /\ driver.started = 0
    BY <1>1, <1>3, DriverFields DEF ExperimentInv, DriverInv, EvidenceInv, RunInv
  <2>2. ASSUME NEW j \in Job, ~ \E i \in DOMAIN Untrained : Untrained[i] = j
        PROVE  Complete(j)
    <3>1. driver.resume /\ Trained(j)
      BY <2>2, UntrainedCovered
    <3>2. files[j].meta \in Descriptions
      BY DEF ExperimentInv, TrainingInv, Directories
    <3>3. files[j].meta.state \in {"absent", "torn", "complete"}
      BY <3>2 DEF Descriptions
    <3> QED
      BY <1>3, <3>1, <3>3 DEF Trained, Complete
  <2>3. Untrained \in Seq(Job) /\ Len(Untrained) \in Nat
    BY UntrainedCovered
  <2>4. TasksInv'
    BY <1>1, <2>1, <2>2, <2>3 DEF TasksInv, Complete
  <2> QED
    BY <1>1, <2>1, <2>4, OnlyTheRun DEF RunInv
<1> QED
  BY <1>2, <1>3 DEF Scan, Stops

\* A task that was started and not lost has a training of its own.
LEMMA StartTaskEvidence ==
  ASSUME ExperimentInv, EvidenceInv, Carried, StartTask
  PROVE  EvidenceInv'
<1> DEFINE i == driver.started + 1
           started == [driver EXCEPT !.started = i]
           j == Task(i)
<1>1. /\ driver.at = "train" /\ i <= Len(driver.tasks)
      /\ UNCHANGED <<files, status, stage, artifacts>>
      /\ j = driver.tasks[i]
  BY DEF StartTask, Task
<1>2. TasksInv /\ driver.started \in Nat
  BY <1>1 DEF EvidenceInv, RunInv, TasksInv
<1>3. /\ driver.tasks \in Seq(Job) /\ DOMAIN driver.tasks = 1 .. Len(driver.tasks)
      /\ i \in 1 .. Len(driver.tasks) /\ i \in 0 .. Len(driver.tasks)
      /\ \A k \in 1 .. i : k \in 1 .. driver.started \/ k = i
      /\ \A k \in 1 .. i : driver.tasks[k] \in Job
  BY <1>1, <1>2 DEF TasksInv
<1>4. DOMAIN driver = DOMAIN Idle
  BY DEF ExperimentInv, DriverInv
<1>5. CASE /\ driver' = [started EXCEPT !.lost = @ \cup {j}]
           /\ UNCHANGED train
  <2>1. /\ driver'.at = "train" /\ driver'.tasks = driver.tasks /\ driver'.started = i
        /\ driver'.lost = driver.lost \cup {j}
    BY <1>1, <1>4, <1>5, DriverFields
  <2> HIDE DEF i, j, started
  <2>2. ASSUME NEW k \in 1 .. i
        PROVE  \/ driver.tasks[k] \in driver'.lost
               \/ train'[driver.tasks[k]].at = "done" => Complete(driver.tasks[k])'
    <3>1. CASE k = i
      BY <1>1, <2>1, <3>1
    <3>2. CASE k \in 1 .. driver.started
      BY <1>1, <1>2, <1>5, <2>1, <3>2 DEF TasksInv, Complete
    <3> QED
      BY <1>3, <3>1, <3>2
  <2>3. \A k \in Job : Complete(k)' <=> Complete(k)
    BY <1>1 DEF Complete
  <2>4. TasksInv'
    BY <1>2, <1>3, <2>1, <2>2, <2>3 DEF TasksInv
  <2> QED
    BY <1>1, <2>1, <2>4, OnlyTheRun DEF RunInv
<1>6. CASE /\ driver' = started
           /\ train' = [train EXCEPT ![j] = [NoProcess EXCEPT !.at = "launched"]]
  <2>1. /\ driver'.at = "train" /\ driver'.tasks = driver.tasks /\ driver'.started = i
        /\ driver'.lost = driver.lost
    BY <1>1, <1>4, <1>6, DriverFields
  <2>2. [NoProcess EXCEPT !.at = "launched"].at = "launched"
    BY DEF NoProcess
  <2>3. train \in [Job -> Processes]
    BY DEF ExperimentInv, TrainingInv
  <2>4. \A k \in Job : IF k = j THEN train'[k].at = "launched" ELSE train'[k] = train[k]
    BY <1>6, <2>2, <2>3
  <2> HIDE DEF i, j, started
  <2>5. \A k \in Job : Complete(k)' <=> Complete(k)
    BY <1>1 DEF Complete
  <2>6. ASSUME NEW k \in 1 .. i
        PROVE  \/ driver.tasks[k] \in driver.lost
               \/ train'[driver.tasks[k]].at = "done" => Complete(driver.tasks[k])'
    <3>1. CASE driver.tasks[k] = j
      BY <1>3, <2>4, <3>1
    <3>2. CASE driver.tasks[k] # j
      <4>1. k \in 1 .. driver.started
        BY <1>1, <1>3, <3>2
      <4>2. train'[driver.tasks[k]] = train[driver.tasks[k]]
        BY <1>3, <2>4, <3>2
      <4>3. driver.tasks[k] \in Job
        BY <1>3
      <4> QED
        BY <1>2, <2>1, <2>5, <4>1, <4>2, <4>3 DEF TasksInv
    <3> QED
      BY <3>1, <3>2
  <2>7. TasksInv'
    BY <1>2, <1>3, <2>1, <2>5, <2>6 DEF TasksInv
  <2> QED
    BY <1>1, <2>1, <2>7, OnlyTheRun DEF RunInv
<1> QED
  BY <1>5, <1>6 DEF StartTask

\* When every task has succeeded, every job is complete.
LEMMA AllTrainedEvidence ==
  ASSUME ExperimentInv, EvidenceInv, Carried, AllTrained
  PROVE  EvidenceInv'
<1>1. /\ driver.at = "train" /\ driver.started = Len(driver.tasks)
      /\ \A i \in Started : Succeeded(i)
      /\ driver' = [driver EXCEPT !.at = "stages", !.pos = 1]
      /\ status' = "evaluation" /\ UNCHANGED <<train, files, stage, artifacts>>
  BY DEF AllTrained, trainVars
<1>2. TasksInv
  BY <1>1 DEF EvidenceInv, RunInv
<1>3. DOMAIN driver.tasks = Started
  BY <1>1, <1>2 DEF TasksInv, Started
<1>4. \A i \in Started : Complete(driver.tasks[i])
  BY <1>1, <1>2 DEF TasksInv, Started, Succeeded, Failed, Over, Task
<1>5. Finished
  BY <1>2, <1>3, <1>4 DEF TasksInv, Finished
<1>6. driver'.at = "stages" /\ driver'.pos = 1
  BY <1>1, DriverFields DEF ExperimentInv, DriverInv
<1>7. PassedInv'
  BY <1>1, <1>5, <1>6, StageKinds DEF PassedInv, Finished, Complete
<1> QED
  BY <1>1, <1>6, <1>7, OnlyTheRun DEF RunInv

LEMMA SkipStageEvidence ==
  ASSUME ExperimentInv, EvidenceInv, Carried, SkipStage
  PROVE  EvidenceInv'
<1>1. /\ driver.at = "stages" /\ stage[Now].state = "complete"
      /\ driver' = [driver EXCEPT !.pos = @ + 1]
      /\ UNCHANGED <<train, files, status, stage, artifacts>>
  BY DEF SkipStage, AtStage, Done, trainVars
<1>2. PassedInv
  BY <1>1 DEF EvidenceInv, RunInv
<1>3. driver'.at = "stages" /\ driver'.pos = driver.pos + 1
  BY <1>1, DriverFields DEF ExperimentInv, DriverInv
<1>4. driver.pos \in Nat \ {0} /\ \A i \in Nat : i < driver.pos + 1 =>
        i < driver.pos \/ i = driver.pos
  BY <1>2 DEF PassedInv
<1>5. \A i \in DOMAIN Stages : i \in Nat
  BY StageKinds
<1>6. PassedInv'
  BY <1>1, <1>2, <1>3, <1>4, <1>5 DEF PassedInv, Finished, Complete, Now
<1> QED
  BY <1>1, <1>3, <1>6, OnlyTheRun DEF RunInv

\* The model that is loaded is the one metadata.json calls the best.
LEMMA BeginStageEvidence ==
  ASSUME ExperimentInv, EvidenceInv, Carried, BeginStage
  PROVE  EvidenceInv'
<1> DEFINE w == IF Now.kind = "model" THEN files[Now.of[1]].best ELSE None
<1>1. /\ driver.at = "stages" /\ driver.pos <= Len(Stages)
      /\ driver' = [driver EXCEPT !.at = "writing", !.weights = w]
      /\ UNCHANGED <<train, files, status, stage, artifacts>>
  BY DEF BeginStage, AtStage, trainVars
<1>2. PassedInv
  BY <1>1 DEF EvidenceInv, RunInv
<1>3. driver'.at = "writing" /\ driver'.pos = driver.pos /\ driver'.weights = w
  BY <1>1, DriverFields DEF ExperimentInv, DriverInv
<1>4. driver.pos \in DOMAIN Stages
  BY <1>1, <1>2, StageKinds DEF PassedInv
<1>5. Now.kind = "model" => w = files[Now.of[1]].meta.best
  <2> SUFFICES ASSUME Now.kind = "model"
               PROVE  files[Now.of[1]].best = files[Now.of[1]].meta.best
    OBVIOUS
  <2>1. Now.of[1] \in Job
    BY <1>4, StageKinds DEF Now
  <2>2. Complete(Now.of[1])
    BY <1>2, <2>1 DEF PassedInv, Finished
  <2> QED
    BY <2>1, <2>2 DEF ExperimentInv, TrainingInv, Sound, SoundFiles, Complete
<1> HIDE DEF w
<1>6. PassedInv'
  BY <1>1, <1>2, <1>3 DEF PassedInv, Finished, Complete
<1>7. HeldInv'
  BY <1>1, <1>3, <1>4, <1>5 DEF HeldInv, Now
<1> QED
  BY <1>1, <1>3, <1>6, <1>7, OnlyTheRun DEF RunInv

\* A stage is written when every training and every stage before it is complete.
LEMMA WriteStageEvidence ==
  ASSUME ExperimentInv, EvidenceInv, Carried, WriteStage
  PROVE  EvidenceInv'
<1> DEFINE after == [absent |-> "partial", partial |-> "torn", torn |-> "complete"]
           is == after[stage[Now].state]
           dir == [state |-> is, by |-> source, weights |-> driver.weights]
<1>1. /\ driver.at = "writing" /\ stage' = [stage EXCEPT ![Now] = dir]
      /\ driver' = IF is = "complete"
                   THEN [driver EXCEPT !.at = "stages", !.pos = @ + 1] ELSE driver
      /\ UNCHANGED <<train, files, status, artifacts>>
  BY DEF WriteStage, trainVars
<1>2. dir.state = is /\ dir.weights = driver.weights
  OBVIOUS
<1> HIDE DEF is, dir
<1>3. PassedInv /\ HeldInv /\ StagesInv
  BY <1>1 DEF EvidenceInv, RunInv
<1>4. /\ Now \in DOMAIN stage /\ Now \in Range(Stages) /\ Now = Stages[driver.pos]
      /\ driver.pos \in DOMAIN Stages
  BY <1>3, StageKinds DEF HeldInv, StagesInv, Now
<1>5. /\ DOMAIN stage' = DOMAIN stage
      /\ \A s \in DOMAIN stage : stage'[s] = IF s = Now THEN dir ELSE stage[s]
  BY <1>1
<1>6. Finished'
  BY <1>1, <1>3 DEF PassedInv, Finished, Complete
<1>7. \A i \in DOMAIN Stages : i < driver.pos => stage'[Stages[i]].state = "complete"
  BY <1>3, StageKinds DEF PassedInv, Carried, StagesInv
<1>8. StagesInv'
  <2>1. ASSUME NEW s \in DOMAIN stage', s.kind = "model", stage'[s].state # "absent"
        PROVE  stage'[s].weights = files'[s.of[1]].meta.best
    <3>1. CASE s = Now
      BY <1>1, <1>2, <1>3, <1>4, <1>5, <2>1, <3>1 DEF HeldInv
    <3>2. CASE s # Now
      BY <1>1, <1>3, <1>5, <2>1, <3>2 DEF StagesInv, EvaluatesOnlyFinished
    <3> QED
      BY <3>1, <3>2
  <2>2. ASSUME NEW p \in Range(Policies), stage'[Report(p)].state # "absent",
               NEW s \in Range(Baselines \o EvaluationsOf(p))
        PROVE  stage'[s].state = "complete"
    <3>1. Report(p) \in DOMAIN stage /\ s \in DOMAIN stage
      BY <1>3, StageKinds DEF StagesInv
    <3>2. CASE Report(p) = Now
      <4>1. PICK i \in 1 .. driver.pos - 1 : Stages[i] = s
        BY <1>4, <2>2, <3>2, StagesInOrder
      <4>2. i \in DOMAIN Stages /\ i < driver.pos
        BY <1>4, <4>1, StageKinds
      <4> QED
        BY <1>7, <4>1, <4>2
    <3>3. CASE Report(p) # Now
      <4>1. stage[Report(p)].state # "absent"
        BY <1>5, <2>2, <3>1, <3>3
      <4>2. stage[s].state = "complete"
        BY <1>3, <4>1 DEF StagesInv, EvaluatesOnlyFinished
      <4> QED
        BY <3>1, <4>2 DEF Carried
    <3> QED
      BY <3>2, <3>3
  <2> QED
    BY <1>3, <1>5, <1>6, <2>1, <2>2 DEF StagesInv, EvaluatesOnlyFinished, Finished
<1>9. RunInv'
  <2>1. CASE is # "complete"
    <3>1. driver' = driver /\ Now' = Now
      BY <1>1, <2>1 DEF Now
    <3>2. PassedInv'
      BY <1>3, <1>6, <1>7, <3>1 DEF PassedInv
    <3>3. HeldInv'
      BY <1>1, <1>3, <3>1 DEF HeldInv
    <3> QED
      BY <1>1, <3>1, <3>2, <3>3 DEF RunInv
  <2>2. CASE is = "complete"
    <3>1. driver'.at = "stages" /\ driver'.pos = driver.pos + 1
      BY <1>1, <2>2, DriverFields DEF ExperimentInv, DriverInv
    <3>2. stage'[Stages[driver.pos]].state = "complete"
      BY <1>2, <1>4, <1>5, <2>2
    <3>3. driver.pos \in Nat \ {0} /\ \A i \in Nat : i < driver.pos + 1 =>
            i < driver.pos \/ i = driver.pos
      BY <1>3 DEF PassedInv
    <3>4. \A i \in DOMAIN Stages : i \in Nat
      BY StageKinds
    <3>5. PassedInv'
      BY <1>6, <1>7, <3>1, <3>2, <3>3, <3>4 DEF PassedInv
    <3> QED
      BY <3>1, <3>5 DEF RunInv
  <2> QED
    BY <2>1, <2>2
<1>10. driver'.at \notin {"copying", "exporting"}
  BY <1>1, DriverFields DEF ExperimentInv, DriverInv
<1>11. StatusInv'
  BY <1>1, <1>10, StatusKeeps DEF EvidenceInv
<1> QED
  BY <1>8, <1>9, <1>11 DEF EvidenceInv

LEMMA TablesEvidence ==
  ASSUME ExperimentInv, EvidenceInv, Carried, Tables
  PROVE  EvidenceInv'
<1>1. /\ driver.at = "stages" /\ driver.pos > Len(Stages) /\ status' = "complete"
      /\ driver' = [driver EXCEPT !.at = IF driver.export THEN "export" ELSE "tidy"]
      /\ UNCHANGED <<train, files, stage, artifacts>>
  BY DEF Tables, trainVars
<1>2. driver'.at \in {"export", "tidy"}
  BY <1>1, DriverFields DEF ExperimentInv, DriverInv
<1>3. PassedInv /\ StagesInv /\ StatusInv
  BY <1>1 DEF EvidenceInv, RunInv
<1>4. \A i \in DOMAIN Stages : i < driver.pos
  BY <1>1, <1>3, StageKinds DEF PassedInv
<1>5. \A s \in DOMAIN stage : stage[s].state = "complete"
  BY <1>3, <1>4 DEF PassedInv, StagesInv, Range
<1>6. StatusInv'
  BY <1>1, <1>2, <1>3, <1>5 DEF StatusInv, PassedInv, Finished, Complete
<1>7. RunInv'
  BY <1>2, Elsewhere
<1>8. StagesInv'
  BY <1>1, <1>3, StagesKeep
<1> QED
  BY <1>6, <1>7, <1>8 DEF EvidenceInv

\* The tree is copied from a complete output.
LEMMA ExportEvidence ==
  ASSUME ExperimentInv, EvidenceInv, Carried, Export
  PROVE  EvidenceInv'
<1>1. /\ status = "complete" /\ UNCHANGED <<train, files, status, stage>>
      /\ artifacts' = [state |-> "copying", stages |-> stage]
      /\ driver' = [driver EXCEPT !.at =
                      IF driver.at = "idle" THEN "exporting" ELSE "copying"]
  BY DEF Export, Exportable, trainVars
<1>2. driver'.at \in {"exporting", "copying"}
  BY <1>1, DriverFields DEF ExperimentInv, DriverInv
<1>3. StatusInv'
  BY <1>1 DEF EvidenceInv, StatusInv, Finished, Complete
<1>4. RunInv'
  BY <1>2, Elsewhere
<1>5. StagesInv'
  BY <1>1, StagesKeep DEF EvidenceInv
<1> QED
  BY <1>3, <1>4, <1>5 DEF EvidenceInv

LEMMA WriteArtifactsEvidence ==
  ASSUME ExperimentInv, EvidenceInv, Carried, WriteArtifacts
  PROVE  EvidenceInv'
<1>1. /\ driver.at \in {"copying", "exporting"}
      /\ artifacts' = [artifacts EXCEPT !.state = "complete"]
      /\ driver' = IF driver.at = "exporting" THEN Idle
                   ELSE [driver EXCEPT !.at = "tidy"]
      /\ UNCHANGED <<train, files, status, stage>>
  BY DEF WriteArtifacts, trainVars
<1>2. driver'.at \in {"idle", "tidy"}
  BY <1>1, DriverFields DEF ExperimentInv, DriverInv
<1>3. artifacts'.stages = artifacts.stages /\ DOMAIN artifacts' = DOMAIN artifacts
  BY <1>1 DEF EvidenceInv, StatusInv
<1>4. StatusInv'
  BY <1>1, <1>2, <1>3 DEF EvidenceInv, StatusInv, Finished, Complete
<1>5. RunInv'
  BY <1>2, Elsewhere
<1>6. StagesInv'
  BY <1>1, StagesKeep DEF EvidenceInv
<1> QED
  BY <1>4, <1>5, <1>6 DEF EvidenceInv

\* What was left incomplete is removed, when no run is on.
LEMMA ClearEvidence ==
  ASSUME ExperimentInv, EvidenceInv, Carried, Clear
  PROVE  EvidenceInv'
<1>1. /\ driver.at = "idle" /\ UNCHANGED <<train, driver, status>>
      /\ stage' = [s \in DOMAIN stage |->
                     IF stage[s].state = "complete" THEN stage[s] ELSE NoStage]
      /\ artifacts' = IF artifacts.state = "complete" THEN artifacts
                      ELSE [state |-> "absent", stages |-> NoStage]
  BY DEF Clear, Quiet
<1>2. StagesInv'
  BY <1>1, StagesKeep DEF EvidenceInv, NoStage
<1>3. RunInv'
  BY <1>1, Elsewhere
<1>4. Finished => Finished'
  BY DEF Carried, Finished, Complete
<1>5. status' = "complete" =>
        Finished' /\ \A s \in DOMAIN stage' : stage'[s].state = "complete"
  BY <1>1, <1>4 DEF EvidenceInv, StatusInv, Carried
<1>6. artifacts'.state # "absent" => artifacts' = artifacts
  BY <1>1
<1>7. DOMAIN artifacts' = {"state", "stages"}
  BY <1>1 DEF EvidenceInv, StatusInv
<1>8. artifacts'.state # "absent" =>
        Finished' /\ \A s \in DOMAIN stage' : artifacts'.stages[s].state = "complete"
  BY <1>4, <1>6 DEF EvidenceInv, StatusInv, Carried
<1>9. StatusInv'
  BY <1>1, <1>5, <1>7, <1>8 DEF StatusInv
<1> QED
  BY <1>2, <1>3, <1>9 DEF EvidenceInv

LEMMA StartOverEvidence ==
  ASSUME EvidenceInv, StartOver
  PROVE  EvidenceInv'
<1>1. /\ driver.at = "idle" /\ driver' = driver /\ status' = "none"
      /\ stage' = [s \in DOMAIN stage |-> NoStage]
      /\ artifacts' = [state |-> "absent", stages |-> NoStage]
  BY DEF StartOver, Quiet
<1>2. /\ DOMAIN stage' = Range(Stages)
      /\ \A s \in DOMAIN stage' : stage'[s].state = "absent"
  BY <1>1 DEF EvidenceInv, StagesInv, NoStage
<1>3. StagesInv'
  BY <1>2, StageKinds DEF StagesInv, EvaluatesOnlyFinished
<1>4. StatusInv'
  BY <1>1 DEF StatusInv
<1>5. RunInv'
  BY <1>1, Elsewhere
<1> QED
  BY <1>3, <1>4, <1>5 DEF EvidenceInv

\* A step of a training, whatever the run does meanwhile.
LEMMA MovesEvidence ==
  ASSUME ExperimentInv, EvidenceInv, Carried, NEW j \in Job, Moves(j),
         UNCHANGED <<driver, status, stage, artifacts>>
  PROVE  EvidenceInv'
<1>1. PICK T \in Processes, D \in Directories :
        /\ train' = [train EXCEPT ![j] = T] /\ files' = [files EXCEPT ![j] = D]
        /\ T.at = "done" => D.meta.state = "complete"
  BY DEF Moves
<1>2. train \in [Job -> Processes] /\ files \in [Job -> Directories]
  BY DEF ExperimentInv, TrainingInv
<1>3. /\ \A k \in Job : k # j => train'[k] = train[k] /\ files'[k] = files[k]
      /\ train'[j] = T /\ files'[j] = D
  BY <1>1, <1>2
<1>4. Finished => Finished'
  BY DEF Carried, Finished, Complete
<1>5. ASSUME TasksInv PROVE TasksInv'
  <2>1. \A i \in 1 .. driver.started : driver.tasks[i] \in Job
    BY <1>5 DEF TasksInv
  <2>2. \A k \in Job : (train[k].at = "done" => Complete(k)) =>
                         (train'[k].at = "done" => files'[k].meta.state = "complete")
    BY <1>1, <1>3 DEF Complete
  <2>3. \A k \in Job : Complete(k) => files'[k].meta.state = "complete"
    BY DEF Carried
  <2> QED
    BY <1>5, <2>1, <2>2, <2>3 DEF TasksInv, Complete
<1>6. PassedInv => PassedInv'
  BY <1>4 DEF PassedInv
<1>7. PassedInv /\ HeldInv => HeldInv'
  <2> SUFFICES ASSUME PassedInv, HeldInv PROVE HeldInv'
    OBVIOUS
  <2>1. Now' = Now /\ Now \in Range(Stages)
    BY StageKinds DEF Now, HeldInv
  <2>2. Now.kind = "model" => files'[Now.of[1]].meta = files[Now.of[1]].meta
    BY <2>1, StageKinds DEF PassedInv, Finished, Carried
  <2> QED
    BY <2>1, <2>2 DEF HeldInv
<1>8. RunInv'
  BY <1>5, <1>6, <1>7 DEF EvidenceInv, RunInv
<1> QED
  BY <1>8, OnlyTheRun

LEMMA EvidenceStutters ==
  ASSUME EvidenceInv, UNCHANGED <<train, files, driver, status, stage, artifacts>>
  PROVE  EvidenceInv'
BY DEF EvidenceInv, StagesInv, EvaluatesOnlyFinished, StatusInv, RunInv, TasksInv,
   PassedInv, HeldInv, Finished, Complete, Now

LEMMA OtherEvidence ==
  ASSUME ExperimentInv, EvidenceInv, Carried,
         \/ Freeze \/ Cancel \/ GiveUp \/ StageStops \/ Tidy \/ Kill
         \/ \E export \in BOOLEAN : LaunchFresh(export) \/ LaunchResume(export)
  PROVE  EvidenceInv'
<1>1. /\ UNCHANGED <<stage, artifacts>> /\ status' \in {status, "made"}
  BY DEF Freeze, Cancel, GiveUp, StageStops, Tidy, Kill, LaunchFresh, LaunchResume
<1>2. CASE Freeze
  <2>1. driver'.at = "scan" /\ driver'.started = 0
    BY <1>2, DriverFields DEF Freeze, EvidenceInv, RunInv, ExperimentInv, DriverInv
  <2> QED
    BY <1>1, <2>1, OnlyTheRun DEF RunInv
<1>3. CASE Cancel
  <2>1. driver'.at = "cancelled"
    BY <1>3, DriverFields DEF Cancel, ExperimentInv, DriverInv
  <2> QED
    BY <1>1, <2>1, OnlyTheRun, Elsewhere
<1>4. CASE GiveUp \/ StageStops \/ Tidy \/ Kill
  <2>1. driver'.at = "idle"
    BY <1>4, DriverFields DEF GiveUp, StageStops, Tidy, Kill, Stops
  <2> QED
    BY <1>1, <2>1, OnlyTheRun, Elsewhere
<1>5. CASE \E export \in BOOLEAN : LaunchFresh(export) \/ LaunchResume(export)
  <2>1. driver'.at \in {"prepare", "scan"} /\ driver'.started = 0
    BY <1>5, DriverFields DEF LaunchFresh, LaunchResume
  <2> QED
    BY <1>1, <2>1, OnlyTheRun DEF RunInv
<1> QED
  BY <1>2, <1>3, <1>4, <1>5

LEMMA EvidenceSteps ==
  ASSUME ExperimentInv, EvidenceInv, [Next]_vars
  PROVE  EvidenceInv'
<1>1. CASE StartOver
  BY <1>1, StartOverEvidence
<1>2. CASE ~StartOver
  <2>1. Carried
    BY <1>2, CarriesOn
  <2>2. CASE UNCHANGED vars \/ Edit
    BY <2>2, EvidenceStutters DEF vars, expVars, trainVars, Edit
  <2>3. CASE Drive
    BY <2>1, <2>3, OtherEvidence, ScanEvidence, StartTaskEvidence, AllTrainedEvidence,
       SkipStageEvidence, BeginStageEvidence, WriteStageEvidence, TablesEvidence,
       ExportEvidence, WriteArtifactsEvidence DEF Drive
  <2>4. CASE TrainStep
    <3>1. PICK j \in Job : Proceed(j)
      BY <2>4 DEF TrainStep
    <3>2. Moves(j)
      BY <3>1, TrainingMoves DEF ExperimentInv
    <3> QED
      BY <2>1, <2>4, <3>2, MovesEvidence DEF TrainStep, expVars
  <2>5. CASE TrainingDies
    <3>1. PICK j \in Job : Dies(j)
      BY <2>5 DEF TrainingDies
    <3>2. Moves(j)
      BY <3>1, TrainingMoves DEF ExperimentInv
    <3> QED
      BY <2>1, <2>5, <3>2, MovesEvidence DEF TrainingDies
  <2>6. CASE Launch \/ Kill
    BY <2>1, <2>6, OtherEvidence DEF Launch
  <2>7. CASE (driver.at = "idle" /\ Export) \/ Clear
    BY <2>1, <2>7, ExportEvidence, ClearEvidence
  <2> QED
    BY <1>2, <2>2, <2>3, <2>4, <2>5, <2>6, <2>7 DEF Next
<1> QED
  BY <1>1, <1>2

LEMMA EvidenceInit ==
  ASSUME ExpInit
  PROVE  EvidenceInv
<1>1. driver = Idle /\ status = "none"
      /\ stage = [s \in Range(Stages) |-> NoStage]
      /\ artifacts = [state |-> "absent", stages |-> NoStage]
  BY DEF ExpInit
<1>2. /\ DOMAIN stage = Range(Stages)
      /\ \A s \in DOMAIN stage : stage[s].state = "absent"
  BY <1>1 DEF NoStage
<1>3. StagesInv
  BY <1>2, StageKinds DEF StagesInv, EvaluatesOnlyFinished
<1>4. StatusInv
  BY <1>1, DriverFields DEF StatusInv
<1>5. RunInv
  BY <1>1, DriverFields DEF RunInv
<1> QED
  BY <1>3, <1>4, <1>5 DEF EvidenceInv

-----------------------------------------------------------------------------
(* The theorems *)

\* Every process and every directory is sound, and the plan of the run is kept,
\* whatever is killed, dies or is edited in between.
THEOREM ExperimentInvariance == Spec => []ExperimentInv
<1>1. ExpInit => ExperimentInv
  BY InitHolds
<1>2. ExperimentInv /\ [Next]_vars => ExperimentInv'
  BY NextPreserves DEF Preserves
<1> QED
  BY <1>1, <1>2, PTL DEF Spec

\* Whatever is complete under one output was made by the code its protocol.json
\* has frozen (src/bus_rl/experiments.py), over any number of interruptions,
\* edits and resumed runs.
THEOREM OnePlan == Spec => []FrozenPlan
<1>1. ExperimentInv => FrozenPlan
  BY DEF ExperimentInv, PlanInv, TrainingInv, Sound, SoundFiles, FrozenPlan, Complete
<1> QED
  BY <1>1, ExperimentInvariance, PTL

\* No step of a run, of a training or of the operator rewrites a complete
\* training or stage of the output directory in use.
THEOREM NothingIsRewritten == Spec => CompletedIsKept
<1>1. ExperimentInv /\ [Next]_vars => Keeps
  BY NextPreserves DEF Preserves
<1>2. Keeps <=> (protocol' = protocol =>
        /\ \A j \in Job : Complete(j) =>
             [files'[j] EXCEPT !.last = None] = [files[j] EXCEPT !.last = None]
        /\ \A s \in DOMAIN stage :
             stage[s].state = "complete" => stage'[s] = stage[s])
  BY DEF Keeps
<1> QED
  BY <1>1, <1>2, ExperimentInvariance, PTL DEF Spec, CompletedIsKept

\* The best model of every complete training is the eligible policy of lowest
\* validation cost, the earliest of those that tie, with the cost and the step
\* metadata.json gives (src/bus_rl/learning/training/callbacks.py), for every
\* rollout length, number of environments, budget and evaluation frequency; with
\* post_update timing it has been trained and competed with the last policy.
THEOREM BestOfAll == Spec => []KeepsTheBest
<1>1. ASSUME TrainingInv, NEW j \in Job, Complete(j)
      PROVE  LET H == files[j].history
                 E == {i \in DOMAIN H : H[i].eligible}
                 meta == files[j].meta
             IN /\ \E i \in E :
                     /\ H[i].updates = files[j].best /\ meta.best = files[j].best
                     /\ H[i].timesteps = meta.at /\ H[i].cost = meta.cost
                     /\ \A k \in E : H[i].cost <= H[k].cost
                     /\ \A k \in E : k < i => H[i].cost < H[k].cost
                /\ Algorithm(j).timing = "post_update" =>
                     /\ files[j].best > 0
                     /\ \E i \in E : Spends(Algorithm(j), H[i].updates)
  <2>1. /\ BestOf(files[j].history, files[j].meta.cost, files[j].meta.at,
                  files[j].best)
        /\ files[j].meta.best = files[j].best
        /\ LastJudged(Algorithm(j), files[j].history)
        /\ OnlyTrained(Algorithm(j), files[j].history)
    BY <1>1 DEF TrainingInv, Sound, SoundFiles, Complete
  <2> QED
    BY <2>1 DEF BestOf, LastJudged, OnlyTrained
<1>2. ExperimentInv => KeepsTheBest
  BY <1>1 DEF ExperimentInv, KeepsTheBest
<1> QED
  BY <1>2, ExperimentInvariance, PTL

\* REINFORCE trains on whole days and spends exactly its budget
\* (effective_rollout_steps and validate_algorithm_setup in algorithms.py), for
\* every length of the day and of the rollout that the setup lets through.
THEOREM OnlyWholeDays == Spec => []WholeEpisodes
<1>1. ExperimentInv => WholeEpisodes
  BY DEF ExperimentInv, TrainingInv, Sound, Whole, WholeEpisodes
<1> QED
  BY <1>1, ExperimentInvariance, PTL

\* What is evaluated, reported, called complete and exported rests on complete
\* trainings and complete stages, wherever a run was interrupted.
THEOREM EvidenceInvariance == Spec => []EvidenceInv
<1>1. ExpInit => EvidenceInv
  BY EvidenceInit
<1>2. ExperimentInv /\ EvidenceInv /\ [Next]_vars => EvidenceInv'
  BY EvidenceSteps
<1> QED
  BY <1>1, <1>2, ExperimentInvariance, PTL DEF Spec

\* A model meets a test split only when every training of the matrix is
\* complete, with the weights its metadata.json calls the best, and a report
\* is made only of complete evaluations (run_experiment in experiments.py).
THEOREM TestsComeLast == Spec => []EvaluatesOnlyFinished
<1>1. EvidenceInv => EvaluatesOnlyFinished
  BY DEF EvidenceInv, StagesInv
<1> QED
  BY <1>1, EvidenceInvariance, PTL

\* An exported tree with its inventory holds every stage and every training,
\* complete (export_artifacts in artifacts.py), whether the run or the command
\* line exports it and whatever was interrupted before.
THEOREM ExportIsWhole == Spec => []ExportsEverything
<1>1. EvidenceInv => ExportsEverything
  BY DEF EvidenceInv, StatusInv, ExportsEverything, Finished
<1> QED
  BY <1>1, EvidenceInvariance, PTL
===============================================================================
