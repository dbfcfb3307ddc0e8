----------------------------- MODULE DatasetProofs -----------------------------
(***************************************************************************)
(* Proofs about module Dataset, for any number of days, any demand and     *)
(* bursts, any damage and any size of the cache.  Both properties rest on  *)
(* what is known of the scenarios once anything is written: their counts   *)
(* fit into int8, so that the tapes are what the seeds yield (AllFit), and *)
(* on what a hash says: the tapes of its scenario (KeySaysStore).          *)
(***************************************************************************)
EXTENDS Dataset, TLAPS

\* Generation has looked at every count.
AllFit == \A i \in Item : Fits(Drawn(i))

\* The entry of the cache for some days under some switches.
KeyOf(days, flags) == [k \in DOMAIN days |-> <<Hash(days[k]), flags>>]

StoreOf(days, flags) ==
  [k \in DOMAIN days |-> [tape |-> Tape(days[k]), flags |-> flags]]

EntryOf(days, flags) == [key |-> KeyOf(days, flags), store |-> StoreOf(days, flags)]

Entries == {EntryOf(days, flags) : days \in Seq(Item), flags \in Controls}

\* What is on disk: the metadata are never altered, and without faults nothing
\* else is; the manifest comes last.
GoodDisk ==
  /\ DOMAIN disk = FileNames
  /\ next \in 0 .. Len(Files)
  /\ stage \in {"idle", "saving", "raised", "over"}
  /\ stage \in {"idle", "saving"} => next < Len(Files)
  /\ stage \in {"idle", "raised"} => \A f \in FileNames : ~Whole(f)
  /\ stage \notin {"idle", "raised"} => AllFit
  /\ \A i \in Item : Whole(<<"scenario", i>>) => Meta(i) = Hash(i)
  /\ Whole(<<"manifest", 0>>) => next = Len(Files)
  /\ faults = 0 => \A k \in 1 .. next : disk[Files[k]] = Content(Files[k])

\* A loaded scenario is the one that was generated, with or without its tapes.
GoodLoaded ==
  \A i \in DOMAIN loaded :
    /\ i \in Item
    /\ loaded[i].item = i /\ loaded[i].hash = Hash(i)
    /\ loaded[i].tape \in {<<>>, Tape(i)}
    /\ AllFit

GoodDraw ==
  drawn \in [demand : [Item -> Demands], burst : [Bursty -> Bursts]]

GoodUsed ==
  used # <<>> =>
    /\ used.items \in Seq(Item)
    /\ used.store = StoreOf(used.items, used.flags)
    /\ AllFit

DataInv ==
  /\ GoodDraw
  /\ GoodDisk
  /\ GoodLoaded
  /\ cache \in Seq(Entries)
  /\ GoodUsed
  /\ faults \in Nat

-----------------------------------------------------------------------------
(* Tapes *)

\* Counts that fit come back from int8 as they were.
LEMMA NarrowKeeps ==
  ASSUME NEW tape, tape = [t \in DOMAIN tape |-> tape[t]], Fits(tape)
  PROVE  Narrow(tape) = tape
<1>1. ASSUME NEW t \in DOMAIN tape
      PROVE  Int8(tape[t]) = tape[t]
  BY DEF Fits, Int8
<1> QED
  BY <1>1 DEF Narrow

LEMMA DrawnFields ==
  ASSUME NEW i
  PROVE  /\ DOMAIN Drawn(i) = 0 .. Horizon - 1
         /\ Drawn(i) = [t \in DOMAIN Drawn(i) |-> Drawn(i)[t]]
BY DEF Drawn

\* Once all counts were found to fit, the tapes are what the seeds yield.
LEMMA TapeIsDrawn ==
  ASSUME AllFit, NEW i \in Item
  PROVE  Tape(i) = Drawn(i)
BY NarrowKeeps, DrawnFields DEF AllFit, Tape

\* A burst stays within the demand window, so no tape has counts outside it.
LEMMA DrawnIsSound ==
  ASSUME AllFit, GoodDraw, NEW i \in Item
  PROVE  Sound(Tape(i))
<1>1. Tape(i) = Drawn(i)
  BY TapeIsDrawn
<1>2. ASSUME NEW t \in 0 .. Horizon - 1
      PROVE  Drawn(i)[t] >= 0
  <2>1. Fits(Drawn(i))
    BY DEF AllFit
  <2>2. \A u \in DOMAIN Drawn(i) : Drawn(i)[u] \in 0 .. 127
    BY <2>1 DEF Fits
  <2>3. Drawn(i)[t] \in 0 .. 127
    BY <1>2, <2>2, DrawnFields
  <2> QED
    BY <2>3
<1>3. ASSUME NEW t \in 0 .. Horizon - 1, t >= DemandEnd
      PROVE  Drawn(i)[t] = 0
  <2>1. i \in Bursty => t \notin BurstTicks(drawn.burst[i])
    <3>1. SUFFICES ASSUME i \in Bursty
                   PROVE  t \notin BurstTicks(drawn.burst[i])
      OBVIOUS
    <3> DEFINE b == drawn.burst[i]
    <3>2. b \in Bursts
      BY <3>1 DEF GoodDraw
    <3>3. b.start \in Nat /\ b.length \in Nat
      BY <3>2, DatasetAssumption
    <3> HIDE DEF b
    <3>4. t \notin BurstTicks(b)
      BY <1>3, <3>3, DatasetAssumption DEF BurstTicks, Smaller
    <3> QED
      BY <3>4 DEF b
  <2> QED
    BY <1>3, <2>1, DatasetAssumption DEF Drawn
<1> QED
  BY <1>1, <1>2, <1>3, DrawnFields DEF Sound

-----------------------------------------------------------------------------
(* Files *)

\* Each scenario has its metadata and its tapes, before the manifest.
LEMMA FilesFields ==
  /\ Len(Files) \in Nat /\ Len(Files) >= 1
  /\ DOMAIN Files = 1 .. Len(Files)
  /\ \A i \in Item : /\ 2 * i - 1 \in 1 .. Len(Files)
                     /\ Files[2 * i - 1] = <<"scenario", i>>
                     /\ 2 * i \in 1 .. Len(Files)
                     /\ Files[2 * i] = <<"tapes", i>>
  /\ \A k \in 1 .. Len(Files) : Files[k] = <<"manifest", 0>> <=> k = Len(Files)
  /\ \A k \in 1 .. Len(Files) :
       k < Len(Files) => \E i \in Item : Files[k] \in {<<"scenario", i>>, <<"tapes", i>>}
<1> DEFINE n == Cardinality(Item)
<1>1. n \in Nat /\ Item = 1 .. n
  BY DatasetAssumption
<1> HIDE DEF n
<1>2. Files = [k \in 1 .. 2 * n + 1 |->
                 IF k > 2 * n THEN <<"manifest", 0>>
                 ELSE <<IF k % 2 = 1 THEN "scenario" ELSE "tapes", (k + 1) \div 2>>]
  BY Zenon DEF Files, n
<1>3. DOMAIN Files = 1 .. 2 * n + 1 /\ Len(Files) = 2 * n + 1
  BY <1>1, <1>2
<1>4. ASSUME NEW i \in Item
      PROVE  /\ 2 * i - 1 \in 1 .. 2 * n /\ (2 * i - 1) % 2 = 1
             /\ ((2 * i - 1) + 1) \div 2 = i
             /\ 2 * i \in 1 .. 2 * n /\ (2 * i) % 2 = 0
             /\ (2 * i + 1) \div 2 = i
  BY <1>1
<1>5. ASSUME NEW i \in Item
      PROVE  Files[2 * i - 1] = <<"scenario", i>> /\ Files[2 * i] = <<"tapes", i>>
  BY <1>1, <1>2, <1>4
<1>6. ASSUME NEW k \in 1 .. 2 * n
      PROVE  (k + 1) \div 2 \in Item
  BY <1>1
<1>7. ASSUME NEW k \in 1 .. 2 * n
      PROVE  Files[k] \in {<<"scenario", (k + 1) \div 2>>, <<"tapes", (k + 1) \div 2>>}
  BY <1>1, <1>2
<1>8. Files[2 * n + 1] = <<"manifest", 0>>
  BY <1>1, <1>2
<1>9. \A k \in 1 .. 2 * n : Files[k] # <<"manifest", 0>>
  BY <1>7
<1>10. ASSUME NEW k \in 1 .. Len(Files)
       PROVE  k \in 1 .. 2 * n \/ k = 2 * n + 1
  BY <1>1, <1>3
<1>11. \A k \in 1 .. Len(Files) : Files[k] = <<"manifest", 0>> <=> k = Len(Files)
  BY <1>1, <1>3, <1>8, <1>9, <1>10
<1>12. \A k \in 1 .. Len(Files) :
         k < Len(Files) => \E i \in Item : Files[k] \in {<<"scenario", i>>, <<"tapes", i>>}
  BY <1>1, <1>3, <1>6, <1>7, <1>10
<1> QED
  <2>1. Len(Files) \in Nat /\ Len(Files) >= 1 /\ DOMAIN Files = 1 .. Len(Files)
    BY <1>1, <1>3
  <2>2. ASSUME NEW i \in Item
        PROVE  2 * i - 1 \in 1 .. Len(Files) /\ 2 * i \in 1 .. Len(Files)
    BY <1>1, <1>3, <1>4
  <2> QED
    BY <1>5, <1>11, <1>12, <2>1, <2>2

LEMMA NamesOfItems ==
  /\ \A i \in Item : <<"scenario", i>> \in FileNames /\ <<"tapes", i>> \in FileNames
  /\ <<"manifest", 0>> \in FileNames
  /\ \A k \in 1 .. Len(Files) : Files[k] \in FileNames
<1>1. ASSUME NEW k \in 1 .. Len(Files)
      PROVE  Files[k] \in FileNames
  BY FilesFields DEF FileNames
<1>2. ASSUME NEW i \in Item
      PROVE  <<"scenario", i>> \in FileNames /\ <<"tapes", i>> \in FileNames
  <2>1. /\ 2 * i - 1 \in 1 .. Len(Files) /\ Files[2 * i - 1] = <<"scenario", i>>
        /\ 2 * i \in 1 .. Len(Files) /\ Files[2 * i] = <<"tapes", i>>
    BY FilesFields
  <2> QED
    BY <1>1, <2>1
<1>3. <<"manifest", 0>> \in FileNames
  <2> DEFINE n == Len(Files)
  <2>1. n \in 1 .. n
    <3>1. n \in Nat /\ n >= 1
      BY FilesFields
    <3> HIDE DEF n
    <3> QED
      BY <3>1
  <2>2. Files[Len(Files)] = <<"manifest", 0>>
    BY <2>1, FilesFields
  <2> QED
    BY <1>1, <2>1, <2>2
<1> QED
  BY <1>1, <1>2, <1>3

LEMMA ContentFields ==
  ASSUME NEW i
  PROVE  /\ \A f : Content(f).is = "whole"
         /\ Content(<<"scenario", i>>).holds = Hash(i)
         /\ Content(<<"tapes", i>>).holds = Tape(i)
BY DEF Content

-----------------------------------------------------------------------------
(* Writing *)

\* What the seeds yield does not change, and so neither do tapes and hashes.
LEMMA SameDraw ==
  ASSUME drawn' = drawn
  PROVE  /\ GoodDraw' <=> GoodDraw
         /\ AllFit' <=> AllFit
         /\ \A i : Hash(i)' = Hash(i) /\ Tape(i)' = Tape(i)
         /\ \A f : Content(f)' = Content(f)
         /\ Entries' = Entries
         /\ \A days, flags : StoreOf(days, flags)' = StoreOf(days, flags)
BY DEF GoodDraw, AllFit, Hash, Tape, Drawn, Content, Entries, EntryOf, KeyOf,
       StoreOf

LEMMA InitHolds == DataInit => DataInv
<1> SUFFICES ASSUME DataInit
             PROVE  DataInv
  OBVIOUS
<1>1. /\ stage = "idle" /\ next = 0 /\ loaded = <<>> /\ cache = <<>> /\ used = <<>>
      /\ faults = 0 /\ disk = [f \in FileNames |-> Absent] /\ GoodDraw
  BY DEF DataInit, GoodDraw
<1>2. \A f \in FileNames : ~Whole(f)
  BY <1>1 DEF Whole, Absent
<1>3. GoodDisk
  <2>1. 0 \in 0 .. Len(Files) /\ 0 < Len(Files)
    <3> DEFINE n == Len(Files)
    <3>1. n \in Nat /\ n >= 1
      BY FilesFields
    <3> HIDE DEF n
    <3>2. 0 \in 0 .. n /\ 0 < n
      BY <3>1
    <3> QED
      BY <3>2 DEF n
  <2>2. DOMAIN disk = FileNames /\ \A k \in 1 .. next : FALSE
    BY <1>1
  <2>3. ~Whole(<<"manifest", 0>>) /\ \A i \in Item : ~Whole(<<"scenario", i>>)
    BY <1>2, NamesOfItems
  <2> QED
    BY <1>1, <1>2, <2>1, <2>2, <2>3 DEF GoodDisk
<1>4. GoodLoaded /\ GoodUsed /\ cache \in Seq(Entries)
  BY <1>1 DEF GoodLoaded, GoodUsed
<1> QED
  BY <1>1, <1>3, <1>4 DEF DataInv

\* Generation looks at every count before anything is written.
LEMMA GenerateKeeps ==
  ASSUME DataInv, Generate
  PROVE  GoodDisk'
<1>1. /\ drawn' = drawn /\ disk' = disk /\ next' = next /\ faults' = faults
      /\ stage = "idle" /\ stage' \in {"saving", "raised"}
      /\ stage' = "saving" => AllFit
  BY DEF Generate, AllFit
<1>2. \A f \in FileNames : ~Whole(f)
  BY <1>1 DEF DataInv, GoodDisk
<1> QED
  BY <1>1, <1>2, SameDraw DEF DataInv, GoodDisk, Whole, Meta

\* The next file gets what belongs in it: what was generated is sound.
LEMMA SaveKeeps ==
  ASSUME DataInv, Save
  PROVE  GoodDisk'
<1> DEFINE f == Files[next + 1]
<1>1. /\ drawn' = drawn /\ faults' = faults /\ stage = "saving" /\ next < Len(Files)
      /\ next \in 0 .. Len(Files) /\ AllFit /\ GoodDraw
  BY DEF Save, DataInv, GoodDisk
<1>2. next + 1 \in 1 .. Len(Files) /\ f \in FileNames
  <2> DEFINE n == Len(Files)
  <2>1. n \in Nat /\ next \in 0 .. n /\ next < n
    BY <1>1, FilesFields
  <2> HIDE DEF n
  <2>2. next + 1 \in 1 .. n
    BY <2>1
  <2> QED
    BY <2>2, NamesOfItems DEF n
<1>3. ~(f[1] = "scenario" /\ ~Sound(Tape(f[2])))
  <2>1. f = <<"manifest", 0>> \/ \E i \in Item : f \in {<<"scenario", i>>, <<"tapes", i>>}
    <3>1. CASE next + 1 = Len(Files)
      BY <1>2, <3>1, FilesFields
    <3>2. CASE next + 1 # Len(Files)
      <4>1. next + 1 < Len(Files)
        BY <1>2, <3>2
      <4> QED
        BY <1>2, <4>1, FilesFields
    <3> QED
      BY <3>1, <3>2
  <2> HIDE DEF f
  <2>2. f[1] = "scenario" => f[2] \in Item
    BY <2>1
  <2> QED
    BY <1>1, <2>2, DrawnIsSound
<1>4. /\ disk' = [disk EXCEPT ![f] = Content(f)]
      /\ next' = next + 1
      /\ stage' = IF next' = Len(Files) THEN "over" ELSE "saving"
  BY <1>3 DEF Save
<1>5. /\ DOMAIN disk' = FileNames /\ disk'[f] = Content(f)
      /\ \A g \in FileNames : g # f => disk'[g] = disk[g]
  BY <1>2, <1>4 DEF DataInv, GoodDisk
<1>6. /\ next' \in 0 .. Len(Files)
      /\ stage' \in {"saving", "over"}
      /\ stage' = "saving" => next' < Len(Files)
  BY <1>1, <1>2, <1>4
<1> HIDE DEF f
<1>7. \A i \in Item : Whole(<<"scenario", i>>)' => Meta(i)' = Hash(i)
  <2> SUFFICES ASSUME NEW i \in Item, disk'[<<"scenario", i>>].is = "whole"
               PROVE  disk'[<<"scenario", i>>].holds = Hash(i)
    BY DEF Whole, Meta
  <2>1. CASE f = <<"scenario", i>>
    BY <1>5, <2>1, ContentFields
  <2>2. CASE f # <<"scenario", i>>
    BY <1>5, <2>2, NamesOfItems DEF DataInv, GoodDisk, Whole, Meta
  <2> QED
    BY <2>1, <2>2
<1>8. Whole(<<"manifest", 0>>)' => next' = Len(Files)
  <2>1. CASE f = <<"manifest", 0>>
    BY <1>2, <1>4, <2>1, FilesFields DEF f
  <2>2. CASE f # <<"manifest", 0>>
    <3>1. ~Whole(<<"manifest", 0>>)
      BY <1>1 DEF DataInv, GoodDisk
    <3> QED
      BY <1>5, <2>2, <3>1, NamesOfItems DEF Whole
  <2> QED
    BY <2>1, <2>2
<1>9. ASSUME faults = 0, NEW k \in 1 .. next'
      PROVE  disk'[Files[k]] = Content(Files[k])
  <2>1. CASE Files[k] = f
    BY <1>5, <2>1
  <2>2. CASE Files[k] # f
    <3>1. k \in 1 .. next /\ k \in 1 .. Len(Files)
      BY <1>1, <1>4, <1>6, <2>2 DEF f
    <3>2. disk[Files[k]] = Content(Files[k])
      BY <1>9, <3>1 DEF DataInv, GoodDisk
    <3> QED
      BY <1>5, <2>2, <3>1, <3>2, NamesOfItems
  <2> QED
    BY <2>1, <2>2
<1> QED
  BY <1>1, <1>5, <1>6, <1>7, <1>8, <1>9, SameDraw DEF GoodDisk

\* A fault makes a file unreadable, or alters a tape; the metadata never.
LEMMA FaultsKeep ==
  ASSUME DataInv, Kill \/ Damage
  PROVE  GoodDisk'
<1>1. /\ drawn' = drawn /\ next' = next /\ faults' = faults + 1
      /\ stage \in {"saving", "over"} /\ stage' = "over" /\ AllFit
  BY DEF Kill, Damage, DataInv, GoodDisk
<1>2. PICK f : \/ disk' = disk
               \/ disk' = [disk EXCEPT ![f] = Torn]
               \/ /\ f[1] = "tapes"
                  /\ \E t, n : disk' = [disk EXCEPT ![f].holds[t] = n]
                  /\ Whole(f) /\ f \in FileNames
  BY DEF Kill, Damage, DataInv, GoodDisk
<1>3. DOMAIN disk' = FileNames /\ DOMAIN disk = FileNames
  BY <1>2 DEF DataInv, GoodDisk
<1>4. ASSUME NEW g \in FileNames, g[1] # "tapes", disk'[g].is = "whole"
      PROVE  disk'[g] = disk[g]
  BY <1>2, <1>3, <1>4 DEF Torn
<1>5. ASSUME NEW g \in FileNames, g[1] # "tapes", Whole(g)'
      PROVE  Whole(g) /\ disk'[g] = disk[g]
  BY <1>4, <1>5 DEF Whole
<1>6. \A i \in Item : Whole(<<"scenario", i>>)' => Meta(i)' = Hash(i)
  <2> TAKE i \in Item
  <2>1. HAVE Whole(<<"scenario", i>>)'
  <2>2. /\ Whole(<<"scenario", i>>)
        /\ disk'[<<"scenario", i>>] = disk[<<"scenario", i>>]
    BY <1>5, <2>1, NamesOfItems
  <2> QED
    BY <2>2 DEF DataInv, GoodDisk, Meta
<1>7. Whole(<<"manifest", 0>>)' => next' = Len(Files)
  BY <1>1, <1>5, NamesOfItems DEF DataInv, GoodDisk
<1> QED
  BY <1>1, <1>3, <1>6, <1>7, SameDraw DEF DataInv, GoodDisk

-----------------------------------------------------------------------------
(* Reading *)

\* A scenario that loads is the one that was written, and its tapes, if they
\* are read, are those its hash stands for, or the load raises.
LEMMA LoadedIsGood ==
  ASSUME DataInv, NEW i \in Item, NEW withTapes \in BOOLEAN, Loadable(i, withTapes)
  PROVE  LET s == Scenario(i, withTapes)
         IN /\ s.item = i /\ s.hash = Hash(i)
            /\ s.tape \in {<<>>, Tape(i)}
            /\ AllFit
<1>1. Whole(<<"scenario", i>>)
  BY DEF Loadable
<1>2. Meta(i) = Hash(i) /\ AllFit
  BY <1>1, NamesOfItems DEF DataInv, GoodDisk
<1>3. ASSUME withTapes
      PROVE  Narrow(Persisted(i)) = Tape(i)
  <2>1. Digest(i, Narrow(Persisted(i))) = Hash(i)
    BY <1>2, <1>3 DEF Loadable, Matches
  <2> QED
    BY <2>1 DEF Digest, Hash
<1> QED
  BY <1>2, <1>3 DEF Scenario

\* The key of a store says what is in it.
LEMMA KeySaysStore ==
  ASSUME NEW days \in Seq(Item), NEW flags, NEW days2 \in Seq(Item), NEW flags2,
         KeyOf(days, flags) = KeyOf(days2, flags2)
  PROVE  StoreOf(days, flags) = StoreOf(days2, flags2)
<1>1. DOMAIN days = DOMAIN days2
  <2>1. DOMAIN KeyOf(days, flags) = DOMAIN days /\ DOMAIN KeyOf(days2, flags2) = DOMAIN days2
    BY DEF KeyOf
  <2> QED
    BY <2>1
<1>2. ASSUME NEW k \in DOMAIN days
      PROVE  Tape(days[k]) = Tape(days2[k]) /\ flags = flags2
  <2>1. <<Hash(days[k]), flags>> = <<Hash(days2[k]), flags2>>
    <3>1. KeyOf(days, flags)[k] = <<Hash(days[k]), flags>>
      BY DEF KeyOf
    <3>2. KeyOf(days2, flags2)[k] = <<Hash(days2[k]), flags2>>
      BY <1>1 DEF KeyOf
    <3> QED
      BY <3>1, <3>2
  <2>2. Hash(days[k]) = Hash(days2[k]) /\ flags = flags2
    BY <2>1
  <2> QED
    BY <2>2 DEF Hash, Digest
<1> QED
  BY <1>1, <1>2 DEF StoreOf

LEMMA LoadKeeps ==
  ASSUME DataInv, LoadSplit
  PROVE  DataInv'
<1>1. /\ drawn' = drawn /\ stage' = stage /\ next' = next /\ disk' = disk
      /\ cache' = cache /\ used' = used /\ faults' = faults
  BY DEF LoadSplit
<1>2. PICK split \in Splits, withTapes \in BOOLEAN :
        /\ LoadSplits(split, withTapes)
        /\ loaded' = [i \in DaysOf(split) |-> Scenario(i, withTapes)]
  BY DEF LoadSplit
<1>3. ASSUME NEW i \in DaysOf(split)
      PROVE  i \in Item /\ Loadable(i, withTapes) /\ loaded'[i] = Scenario(i, withTapes)
  BY <1>2 DEF LoadSplits, DaysOf
<1>4. \A i \in DOMAIN loaded' :
        /\ i \in Item
        /\ loaded'[i].item = i /\ loaded'[i].hash = Hash(i)
        /\ loaded'[i].tape \in {<<>>, Tape(i)}
        /\ AllFit
  BY <1>2, <1>3, LoadedIsGood
<1>5. GoodLoaded'
  BY <1>1, <1>4, SameDraw DEF GoodLoaded
<1> QED
  BY <1>1, <1>5, SameDraw DEF DataInv, GoodDisk, GoodUsed, Whole, Meta

\* Whether it is packed now or was packed before, the store that is handed out
\* is that of the days and the switches asked for.
LEMMA ShareKeeps ==
  ASSUME DataInv, ShareStore
  PROVE  DataInv'
<1>1. /\ drawn' = drawn /\ stage' = stage /\ next' = next /\ disk' = disk
      /\ loaded' = loaded /\ faults' = faults
  BY DEF ShareStore
<1>2. PICK days \in Selections, flags \in Controls :
       LET S == [k \in DOMAIN days |-> loaded[days[k]]]
           hits == {k \in DOMAIN cache : cache[k].key = StoreKey(S, flags)}
           entry == IF hits # {} THEN cache[CHOOSE k \in hits : TRUE]
                    ELSE [key |-> StoreKey(S, flags), store |-> Packed(S, flags)]
       IN /\ hits # {} \/ \A k \in DOMAIN S : Packable(S[k])
          /\ cache' = IF hits # {} THEN cache ELSE Remembered(entry)
          /\ used' = [flags |-> flags, store |-> entry.store, items |-> days]
  BY DEF ShareStore
<1> DEFINE S == [k \in DOMAIN days |-> loaded[days[k]]]
           key == StoreKey(S, flags)
           hits == {k \in DOMAIN cache : cache[k].key = key}
           new == [key |-> key, store |-> Packed(S, flags)]
           entry == IF hits # {} THEN cache[CHOOSE k \in hits : TRUE] ELSE new
<1>3. /\ hits # {} \/ \A k \in DOMAIN S : Packable(S[k])
      /\ cache' = IF hits # {} THEN cache ELSE Remembered(entry)
      /\ used' = [flags |-> flags, store |-> entry.store, items |-> days]
  BY <1>2, Zenon
<1>4. /\ days \in Seq(Item)
      /\ \A k \in DOMAIN days : days[k] \in DOMAIN loaded
      /\ \E k \in DOMAIN days : TRUE
  <2>1. PICK n \in 1 .. Cardinality(DOMAIN loaded) : days \in [1 .. n -> DOMAIN loaded]
    BY DEF Selections
  <2>2. DOMAIN loaded \subseteq Item
    BY DEF DataInv, GoodLoaded
  <2> QED
    BY <2>1, <2>2
<1>5. /\ DOMAIN S = DOMAIN days
      /\ \A k \in DOMAIN days :
           /\ S[k].item = days[k] /\ S[k].hash = Hash(days[k])
           /\ S[k].tape \in {<<>>, Tape(days[k])}
      /\ AllFit
  BY <1>4 DEF DataInv, GoodLoaded
<1>6. key = KeyOf(days, flags)
  BY <1>5 DEF StoreKey, KeyOf
<1>7. ASSUME hits = {}
      PROVE  Packed(S, flags) = StoreOf(days, flags)
  <2>1. ASSUME NEW k \in DOMAIN days
        PROVE  (IF S[k].tape # <<>> THEN S[k].tape
                ELSE Narrow(Persisted(S[k].item))) = Tape(days[k])
    <3>1. Packable(S[k])
      BY <1>3, <1>5, <1>7
    <3>2. CASE S[k].tape # <<>>
      BY <1>5, <3>2
    <3>3. CASE S[k].tape = <<>>
      <4>1. Digest(days[k], Narrow(Persisted(days[k]))) = Hash(days[k])
        BY <1>5, <3>1, <3>3 DEF Packable, Matches
      <4> QED
        BY <1>5, <3>3, <4>1 DEF Digest, Hash
    <3> QED
      BY <3>2, <3>3
  <2> HIDE DEF S
  <2> QED
    BY <1>5, <2>1 DEF Packed, StoreOf
<1> HIDE DEF S, key
<1>8. ASSUME hits = {}
      PROVE  entry = EntryOf(days, flags)
  BY <1>6, <1>7, <1>8 DEF EntryOf
<1>9. ASSUME hits # {}
      PROVE  entry.store = StoreOf(days, flags)
  <2>1. entry \in Entries /\ entry.key = key
    <3>1. PICK h \in hits : entry = cache[h]
      BY <1>9
    <3> QED
      BY <3>1 DEF DataInv
  <2> HIDE DEF entry
  <2>2. PICK days2 \in Seq(Item), flags2 \in Controls : entry = EntryOf(days2, flags2)
    BY <2>1 DEF Entries
  <2>3. entry.key = KeyOf(days2, flags2) /\ entry.store = StoreOf(days2, flags2)
    BY <2>2 DEF EntryOf
  <2>4. KeyOf(days, flags) = KeyOf(days2, flags2)
    BY <1>6, <2>1, <2>3
  <2>5. StoreOf(days, flags) = StoreOf(days2, flags2)
    BY <1>4, <2>4, KeySaysStore
  <2> QED
    BY <2>3, <2>5
<1>10. cache' \in Seq(Entries)
  <2>1. ASSUME hits = {}
        PROVE  Remembered(entry) \in Seq(Entries)
    <3>1. entry \in Entries
      BY <1>4, <1>8, <2>1 DEF Entries
    <3>2. Len(cache) >= StoreLimit => Tail(cache) \in Seq(Entries)
      BY DatasetAssumption DEF DataInv
    <3> HIDE DEF entry
    <3> QED
      BY <3>1, <3>2 DEF Remembered, DataInv
  <2> HIDE DEF hits, entry
  <2> QED
    BY <1>3, <2>1 DEF DataInv
<1>11. entry.store = StoreOf(days, flags)
  <2>1. CASE hits = {}
    BY <1>8, <2>1 DEF EntryOf
  <2> QED
    BY <1>9, <2>1
<1> HIDE DEF hits, entry
<1>12. GoodUsed'
  <2>1. used'.items = days /\ used'.store = StoreOf(days, flags) /\ used'.flags = flags
    BY <1>3, <1>11
  <2> QED
    BY <1>1, <1>4, <1>5, <2>1, SameDraw DEF GoodUsed
<1> QED
  BY <1>1, <1>10, <1>12, SameDraw DEF DataInv, GoodDisk, GoodLoaded, Whole, Meta

-----------------------------------------------------------------------------
(* Together *)

LEMMA NextKeepsInv == DataInv /\ [DataNext]_vars => DataInv'
<1> SUFFICES ASSUME DataInv, [DataNext]_vars
             PROVE  DataInv'
  OBVIOUS
<1>1. CASE UNCHANGED vars
  BY <1>1, SameDraw
     DEF vars, DataInv, GoodDisk, GoodLoaded, GoodUsed, Whole, Meta
<1>2. ASSUME Generate \/ Save \/ Kill \/ Damage
      PROVE  DataInv'
  <2>1. /\ drawn' = drawn /\ loaded' = loaded /\ cache' = cache /\ used' = used
        /\ faults' \in {faults, faults + 1}
    BY <1>2 DEF Generate, Save, Kill, Damage, readers
  <2>2. GoodDisk'
    BY <1>2, GenerateKeeps, SaveKeeps, FaultsKeep
  <2> QED
    BY <2>1, <2>2, SameDraw DEF DataInv, GoodLoaded, GoodUsed
<1> QED
  BY <1>1, <1>2, LoadKeeps, ShareKeeps DEF DataNext

\* DataInv is an invariant of the files and of every process that reads them
\* (generation.py, io.py, bridge.py:84-165).
THEOREM DatasetInvariance == DataSpec => []DataInv
BY InitHolds, NextKeepsInv, PTL DEF DataSpec

\* Whatever is damaged and whatever was packed before, a kernel runs on the
\* tapes its own days were generated with (io.py:56-95, bridge.py:84-165).
THEOREM TapesAreTheirOwn == DataSpec => []RunsOnItsOwnTapes
<1>1. DataInv => RunsOnItsOwnTapes
  <2> SUFFICES ASSUME DataInv, used # <<>>, NEW k \in DOMAIN used.items
               PROVE  used.store[k] = [tape |-> Drawn(used.items[k]), flags |-> used.flags]
    BY DEF RunsOnItsOwnTapes
  <2>1. /\ used.items[k] \in Item /\ AllFit
        /\ used.store = StoreOf(used.items, used.flags)
    BY DEF DataInv, GoodUsed
  <2>2. Tape(used.items[k]) = Drawn(used.items[k])
    BY <2>1, TapeIsDrawn
  <2> QED
    BY <2>1, <2>2 DEF StoreOf
<1> QED
  BY <1>1, DatasetInvariance, PTL

\* A manifest that can be read lists only days that load: nothing that was
\* generated is turned down while it is written, and the manifest is written
\* after all the rest (generation.py:80-163, io.py:36-118).
THEOREM ListedDaysLoad == DataSpec => []WhatIsListedLoads
<1>1. DataInv => WhatIsListedLoads
  <2> SUFFICES ASSUME DataInv
               PROVE  WhatIsListedLoads
    OBVIOUS
  <2>1. stage # "invalid" /\ (Whole(<<"manifest", 0>>) => next = Len(Files))
    BY DEF DataInv, GoodDisk
  <2>2. ASSUME Whole(<<"manifest", 0>>), faults = 0, NEW split, NEW withTapes \in BOOLEAN
        PROVE  LoadSplits(split, withTapes)
    <3>1. next = Len(Files) /\ AllFit /\ GoodDraw
      BY <2>2, NamesOfItems DEF DataInv, GoodDisk
    <3>2. \A k \in 1 .. Len(Files) : disk[Files[k]] = Content(Files[k])
      BY <2>2, <3>1 DEF DataInv, GoodDisk
    <3>3. ASSUME NEW i \in Item
          PROVE  Loadable(i, withTapes)
      <4>1. /\ disk[<<"scenario", i>>] = Content(<<"scenario", i>>)
            /\ disk[<<"tapes", i>>] = Content(<<"tapes", i>>)
        BY <3>2, FilesFields
      <4>2. /\ Whole(<<"scenario", i>>) /\ Whole(<<"tapes", i>>)
            /\ Meta(i) = Hash(i) /\ Persisted(i) = Tape(i)
        BY <4>1, ContentFields DEF Whole, Meta, Persisted
      <4>3. Narrow(Tape(i)) = Tape(i)
        BY <3>1, TapeIsDrawn, NarrowKeeps, DrawnFields DEF AllFit
      <4>4. Matches(i, Meta(i)) /\ Sound(Narrow(Persisted(i)))
        BY <3>1, <4>2, <4>3, DrawnIsSound DEF Matches, Hash
      <4> QED
        BY <4>2, <4>4 DEF Loadable
    <3> QED
      BY <2>2, <3>3 DEF LoadSplits, DaysOf
  <2> QED
    BY <2>1, <2>2 DEF WhatIsListedLoads
<1> QED
  BY <1>1, DatasetInvariance, PTL
=============================================================================
