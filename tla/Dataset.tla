-------------------------------- MODULE Dataset --------------------------------
(***************************************************************************)
(* From a seed to the tapes a kernel runs on (execution/scenarios/         *)
(* generation.py and io.py, rust/bridge.py).                               *)
(*                                                                         *)
(* A dataset is generated in memory and then written file by file, its     *)
(* manifest last; the writer may be killed at any file.  Later processes   *)
(* load a split, with its tapes or only its metadata, and pack it into a   *)
(* native store, which then reads the tapes itself.  Stores are shared     *)
(* through a small cache.  Between any two of these steps a file may be    *)
(* damaged.                                                                *)
(*                                                                         *)
(* The arrival tape is one cell, a count per tick: the cell that a burst,  *)
(* where there is one, adds to.  SHA-256 is taken to be injective: the     *)
(* hash of a scenario is its seed and the counts it was made from.         *)
(***************************************************************************)
EXTENDS Integers, Sequences, FiniteSets

CONSTANTS
  Item,        \* the scenarios of the dataset, 1 .. N, in the order written
  Split,       \* Split[i]: the split of scenario i
  Bursty,      \* the scenarios of the variant "burst"
  Configs,     \* physical configurations: route_count and fleet_size
  Demands,     \* what the seed may yield: counts per tick of demand
  Bursts,      \* and a burst: extra passengers, first tick, ticks
  Controls,    \* the switches of the runs: enable_reassign, enable_short_turn
  DemandEnd,   \* demand_end_s in ticks
  Horizon,     \* horizon_s in ticks
  Garbage,     \* counts a damaged tape may hold
  Faults,      \* bound: kills and damaged files
  StoreLimit,  \* _STORE_CACHE_LIMIT
  None

ASSUME DatasetAssumption ==
  /\ Cardinality(Item) \in Nat /\ Item = 1 .. Cardinality(Item)
  /\ Bursty \subseteq Item
  /\ DemandEnd \in Nat /\ Horizon \in Nat /\ DemandEnd <= Horizon
  /\ Demands \subseteq [0 .. DemandEnd - 1 -> Nat]
  /\ Bursts \subseteq [extra : 8 .. 20, start : Nat, length : Nat \ {0}]
  /\ StoreLimit \in Nat \ {0}

\* What numpy makes of a count when it casts it to int8.
Int8(n) == ((n + 128) % 256) - 128

VARIABLES
  config,   \* run.physical
  drawn,    \* what the seeds of the scenarios yield: the demand and the burst
  stage,    \* of the writer: "idle", "saving", "invalid", "raised", "over"
  next,     \* the number of files written so far
  disk,     \* the files of the dataset
  loaded,   \* the scenarios a later process holds
  cache,    \* _STORE_CACHE, oldest first
  used,     \* the store that was handed out last, and to whom
  faults

vars == <<config, drawn, stage, next, disk, loaded, cache, used, faults>>

-----------------------------------------------------------------------------
(* Generation *)

\* SimConfig turns down what the encoding has no room for.
ValidConfig(c) == c.routes \in 1 .. 4 /\ c.fleet \in 1 .. 16

Smaller(m, n) == IF m <= n THEN m ELSE n

Assigned(c) == c.fleet - 3

\* _fleet raises for a fleet without two buses per route and three to spare.
FleetFits(c) == Assigned(c) >= 2 * c.routes

\* A burst goes on to the end of demand at the most.
BurstTicks(b) == b.start .. Smaller(b.start + b.length, DemandEnd) - 1

Drawn(i) ==
  [t \in 0 .. Horizon - 1 |->
     (IF t < DemandEnd THEN drawn.demand[i][t] ELSE 0)
       + (IF i \in Bursty /\ t \in BurstTicks(drawn.burst[i])
          THEN drawn.burst[i].extra ELSE 0)]

\* Slip: the cast is made without looking.
FitsAlways(tape) == TRUE

\* _as_int8_arrivals
Fits(tape) == \A t \in DOMAIN tape : tape[t] \in 0 .. 127

Narrow(tape) == [t \in DOMAIN tape |-> Int8(tape[t])]

\* scenario_digest, over the counts as int32, which holds all of them.
Digest(i, tape) == <<i, tape>>

\* The scenario of a seed; generate_scenario is a function of its seed.
Tape(i) == Narrow(Drawn(i))

Hash(i) == Digest(i, Tape(i))

\* _validate: no counts below zero, none outside the demand window.
Sound(tape) ==
  /\ DOMAIN tape = 0 .. Horizon - 1
  /\ \A t \in DOMAIN tape : tape[t] >= 0 /\ (t >= DemandEnd => tape[t] = 0)

-----------------------------------------------------------------------------
(* The files *)

Absent == [is |-> "absent"]
Torn == [is |-> "torn"]

\* Per scenario its metadata and its tapes, and the manifest at the end.
Files == [k \in 1 .. 2 * Cardinality(Item) + 1 |->
            IF k > 2 * Cardinality(Item) THEN <<"manifest", 0>>
            ELSE <<IF k % 2 = 1 THEN "scenario" ELSE "tapes", (k + 1) \div 2>>]

FileNames == {Files[k] : k \in DOMAIN Files}

Content(f) ==
  [is |-> "whole",
   holds |-> CASE f[1] = "scenario" -> Hash(f[2])
               [] f[1] = "tapes"    -> Tape(f[2])
               [] f[1] = "manifest" -> Item]

Whole(f) == disk[f].is = "whole"

Fresh == \A f \in DOMAIN disk : disk[f].is = "absent"

DataInit ==
  /\ config \in {c \in Configs : ValidConfig(c)}
  /\ drawn \in [demand : [Item -> Demands], burst : [Bursty -> Bursts]]
  /\ stage = "idle"
  /\ next = 0
  /\ disk = [f \in FileNames |-> Absent]
  /\ loaded = <<>>
  /\ cache = <<>>
  /\ used = <<>>
  /\ faults = 0

readers == <<loaded, cache, used>>

\* cmd_generate and generate_manifest: everything is made before anything is
\* written.
Generate ==
  /\ stage = "idle"
  /\ Fresh
  /\ stage' = IF FleetFits(config) /\ \A i \in Item : Fits(Drawn(i))
              THEN "saving" ELSE "raised"
  /\ UNCHANGED <<config, drawn, next, disk, readers, faults>>

\* save_manifest and save_scenario, one file at a time.
Save ==
  /\ stage = "saving"
  /\ next < Len(Files)
  /\ LET f == Files[next + 1]
     IN IF f[1] = "scenario" /\ ~Sound(Tape(f[2]))
        THEN stage' = "invalid" /\ UNCHANGED <<next, disk>>
        ELSE /\ disk' = [disk EXCEPT ![f] = Content(f)]
             /\ next' = next + 1
             /\ stage' = IF next' = Len(Files) THEN "over" ELSE "saving"
  /\ UNCHANGED <<config, drawn, readers, faults>>

\* The writer is killed; the file it was writing may be there in part.
Kill ==
  /\ stage = "saving"
  /\ faults < Faults
  /\ faults' = faults + 1
  /\ stage' = "over"
  /\ LET f == Files[next + 1]
     IN disk' \in {disk, [disk EXCEPT ![f] = Torn]}
  /\ UNCHANGED <<config, drawn, next, readers>>

\* A file of the finished dataset is damaged.
Damage ==
  /\ stage = "over"
  /\ faults < Faults
  /\ faults' = faults + 1
  /\ \E f \in {g \in DOMAIN disk : Whole(g)} :
       \/ disk' = [disk EXCEPT ![f] = Torn]
       \/ /\ f[1] = "tapes"
          /\ \E t \in 0 .. Horizon - 1, n \in Garbage :
               disk' = [disk EXCEPT ![f].holds[t] = n]
  /\ UNCHANGED <<config, drawn, stage, next, readers>>

-----------------------------------------------------------------------------
(* Loading and packing *)

Splits == {Split[i] : i \in Item}

\* The days of a split; their order is that of their numbers.
DaysOf(split) == {i \in Item : Split[i] = split}

Meta(i) == disk[<<"scenario", i>>].holds

Persisted(i) == disk[<<"tapes", i>>].holds

\* What the tapes on disk are read as, and whether they are those the
\* metadata name.
Matches(i, hash) ==
  /\ Whole(<<"tapes", i>>)
  /\ Digest(i, Narrow(Persisted(i))) = hash

\* load_scenario either returns the scenario or raises.
Loadable(i, withTapes) ==
  /\ Whole(<<"scenario", i>>)
  /\ withTapes => Matches(i, Meta(i)) /\ Sound(Narrow(Persisted(i)))

Scenario(i, withTapes) ==
  [item |-> i, hash |-> Meta(i),
   tape |-> IF withTapes THEN Narrow(Persisted(i)) ELSE <<>>]

LoadSplits(split, withTapes) ==
  /\ Whole(<<"manifest", 0>>)
  /\ \A i \in DaysOf(split) : Loadable(i, withTapes)

LoadSplit ==
  \E split \in Splits, withTapes \in BOOLEAN :
    /\ LoadSplits(split, withTapes)
    /\ loaded' = [i \in DaysOf(split) |-> Scenario(i, withTapes)]
    /\ UNCHANGED <<config, drawn, stage, next, disk, cache, used, faults>>

\* _scenario_tapes raises when the tapes left on disk do not match the hash.
Packable(s) == s.tape # <<>> \/ Matches(s.item, s.hash)

\* Slip: a store is recognised by its days alone.
StoreKeyOfDays(S, flags) == [k \in DOMAIN S |-> <<S[k].hash>>]

StoreKey(S, flags) == [k \in DOMAIN S |-> <<S[k].hash, flags>>]

\* NativeScenarioStore: the tapes are copied, with the flags of the run.
Packed(S, flags) ==
  [k \in DOMAIN S |->
     [tape |-> IF S[k].tape # <<>> THEN S[k].tape
               ELSE Narrow(Persisted(S[k].item)),
      flags |-> flags]]

\* A full cache gives up its oldest entry; a hit leaves the order alone.
Remembered(entry) ==
  Append(IF Len(cache) >= StoreLimit THEN Tail(cache) ELSE cache, entry)

\* What environments are made with: all days of the split, its first ones, or
\* a single one, in their order.
Selections ==
  {days \in UNION {[1 .. n -> DOMAIN loaded] : n \in 1 .. Cardinality(DOMAIN loaded)} :
     \A j, k \in DOMAIN days : j < k => days[j] < days[k]}

\* shared_store, as an environment calls it on its scenarios with the
\* switches of the run's control applied.
ShareStore ==
  /\ \E days \in Selections, flags \in Controls :
       LET S == [k \in DOMAIN days |-> loaded[days[k]]]
           hits == {k \in DOMAIN cache : cache[k].key = StoreKey(S, flags)}
           entry == IF hits # {} THEN cache[CHOOSE k \in hits : TRUE]
                    ELSE [key |-> StoreKey(S, flags), store |-> Packed(S, flags)]
       IN /\ hits # {} \/ \A k \in DOMAIN S : Packable(S[k])
          /\ cache' = IF hits # {} THEN cache ELSE Remembered(entry)
          /\ used' = [flags |-> flags, store |-> entry.store, items |-> days]
  /\ UNCHANGED <<config, drawn, stage, next, disk, loaded, faults>>

DataNext == Generate \/ Save \/ Kill \/ Damage \/ LoadSplit \/ ShareStore

DataSpec == DataInit /\ [][DataNext]_vars

-----------------------------------------------------------------------------
(* Properties *)

\* Generation does not trip over its own validation half way through, and a
\* manifest that is there lists only scenarios that load, with and without
\* their tapes, unless a file was damaged since: a killed writer leaves no
\* manifest, and no count that is saved is lost in the int8 tapes.
WhatIsListedLoads ==
  /\ stage # "invalid"
  /\ Whole(<<"manifest", 0>>) /\ faults = 0 =>
       \A split \in Splits, withTapes \in BOOLEAN :
         LoadSplits(split, withTapes)
  /\ Whole(<<"manifest", 0>>) => next = Len(Files)

\* A kernel runs on the tapes that the seeds of its scenarios yield, in their
\* order and under the switches of its own run, whatever has happened to the
\* files between generation, loading and packing, and whichever stores were
\* packed before for other runs.
RunsOnItsOwnTapes ==
  used # <<>> =>
    \A k \in DOMAIN used.items :
      used.store[k] = [tape |-> Drawn(used.items[k]), flags |-> used.flags]
=============================================================================
