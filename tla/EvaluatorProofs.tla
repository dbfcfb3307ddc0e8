---------------------------- MODULE EvaluatorProofs ----------------------------
(***************************************************************************)
(* Proofs about module Evaluator, for any lists of days, any settings and  *)
(* forecasters and any number of calls.  The inductive invariant EvalInv   *)
(* says that the environments of a pool, wherever it comes from, are those *)
(* its key was made from, so that a pool whose key fits runs the days of   *)
(* the call under the settings of the call.                                *)
(***************************************************************************)
EXTENDS Evaluator, TLAPS

MaybeForecaster == Forecasters \cup {None}

\* p was made for these days, settings and forecaster.
MadeFor(p, list, run, f) ==
  /\ p.key = PoolKey(list, run, f)
  /\ p.list = list
  /\ p.env = Environment(run, f)
  /\ p.size \in Nat
  /\ "closed" \in DOMAIN p
  /\ p = [k \in DOMAIN p |-> p[k]]

GoodPool(p) ==
  p # NoPool => \E list \in Lists, run \in Runs, f \in MaybeForecaster :
                  MadeFor(p, list, run, f)

\* The records of the first n days of a list.
RecordsOf(list, n, env) == [i \in 1 .. n |-> Record(list, i, env)]

GoodCall ==
  /\ DOMAIN call = {"at", "list", "run", "method", "forecaster", "saved",
                    "owned", "pool"}
  /\ call = [k \in DOMAIN call |-> call[k]]
  /\ call.list \in Lists /\ call.run \in Runs /\ call.forecaster \in MaybeForecaster
  /\ call.method \in {Learned, Heuristic}
  /\ call.owned \in BOOLEAN
  /\ call.pool # NoPool => MadeFor(call.pool, call.list, call.run, call.forecaster)
  /\ call.method = Heuristic => model = call.saved
  /\ \E n \in 0 .. Len(call.list) :
       records = RecordsOf(call.list, n, Environment(call.run, call.forecaster))

EvalInv ==
  /\ GoodPool(held)
  /\ Busy => GoodCall
  /\ RecordsWhatWasAsked

-----------------------------------------------------------------------------
(* Pools *)

\* The key of a pool names everything its environments depend on.
LEMMA KeyDetermines ==
  ASSUME NEW list, NEW run, NEW f, NEW list2, NEW run2, NEW f2,
         PoolKey(list, run, f) = PoolKey(list2, run2, f2)
  PROVE  /\ list = list2
         /\ Environment(run, f) = Environment(run2, f2)
<1>1. /\ list = list2 /\ f = f2
      /\ run.backend = run2.backend
      /\ run.invalid = run2.invalid /\ run.mask = run2.mask
      /\ run.control = run2.control /\ run.reward = run2.reward
      /\ MemoryBins(run) = MemoryBins(run2)
  BY DEF PoolKey
<1> QED
  BY <1>1 DEF Environment, OracleEnvironment, NativeEnvironment

\* A new pool is made for what it was asked for.
LEMMA PoolIsMadeFor ==
  ASSUME NEW list \in Lists, NEW run \in Runs, NEW f, NEW native
  PROVE  /\ MadeFor(Pool(native, list, run, f), list, run, f)
         /\ Pool(native, list, run, f) # NoPool
<1> DEFINE p == Pool(native, list, run, f)
<1>1. run.batch \in Nat /\ Len(list) \in Nat
  BY EvaluatorAssumption
<1>2. /\ p.key = PoolKey(list, run, f)
      /\ p.list = list
      /\ p.env = Environment(run, f)
      /\ p.size = IF run.batch < Len(list) THEN run.batch ELSE Len(list)
      /\ DOMAIN p = {"native", "key", "list", "size", "env", "closed"}
      /\ p = [k \in DOMAIN p |-> p[k]]
  BY DEF Pool
<1>3. DOMAIN NoPool = {"closed"}
  BY DEF NoPool
<1> HIDE DEF p
<1>4. MadeFor(p, list, run, f) /\ p # NoPool
  BY <1>1, <1>2, <1>3 DEF MadeFor
<1> QED
  BY <1>4 DEF p

\* A pool whose key fits was made for the call.
LEMMA MatchingPool ==
  ASSUME NEW p, GoodPool(p), p # NoPool,
         NEW list \in Lists, NEW run \in Runs, NEW f \in MaybeForecaster,
         PoolMatches(p, list, run, f)
  PROVE  MadeFor(p, list, run, f)
<1>1. PICK l \in Lists, r \in Runs, g \in MaybeForecaster : MadeFor(p, l, r, g)
  BY DEF GoodPool
<1>2. PoolKey(l, r, g) = PoolKey(list, run, f)
  BY <1>1 DEF MadeFor, PoolMatches
<1>3. l = list /\ Environment(r, g) = Environment(run, f)
  BY <1>2, KeyDetermines
<1> QED
  BY <1>1, <1>2, <1>3 DEF MadeFor

\* Closing a pool leaves its days, its key and its environments.
LEMMA ClosedPool ==
  ASSUME NEW p, NEW list, NEW run, NEW f, MadeFor(p, list, run, f), NEW b
  PROVE  MadeFor([p EXCEPT !.closed = b], list, run, f)
BY DEF MadeFor

-----------------------------------------------------------------------------
(* Records *)

LEMMA RecordsLength ==
  ASSUME NEW list, NEW n \in Nat, NEW env
  PROVE  Len(RecordsOf(list, n, env)) = n
BY DEF RecordsOf

\* A chunk of k days after n days makes n + k days.
LEMMA RecordsExtend ==
  ASSUME NEW list, NEW n \in Nat, NEW k \in Nat, NEW env
  PROVE  RecordsOf(list, n, env) \o [i \in 1 .. k |-> Record(list, n + i, env)]
           = RecordsOf(list, n + k, env)
<1> DEFINE old == RecordsOf(list, n, env)
           more == [i \in 1 .. k |-> Record(list, n + i, env)]
           S == {Record(list, i, env) : i \in 1 .. n + k}
<1>1. old \in Seq(S) /\ Len(old) = n /\ \A i \in 1 .. n : old[i] = Record(list, i, env)
  BY DEF RecordsOf
<1>2. more \in Seq(S) /\ Len(more) = k
      /\ \A i \in 1 .. k : more[i] = Record(list, n + i, env)
  OBVIOUS
<1> HIDE DEF old, more, S
<1>3. /\ old \o more \in Seq(S) /\ Len(old \o more) = n + k
      /\ \A i \in 1 .. n + k : (old \o more)[i] =
            IF i <= n THEN old[i] ELSE more[i - n]
  BY <1>1, <1>2
<1>4. \A i \in 1 .. n + k : (old \o more)[i] = Record(list, i, env)
  BY <1>1, <1>2, <1>3
<1>5. old \o more = [i \in 1 .. n + k |-> Record(list, i, env)]
  <2> DEFINE all == old \o more
  <2>1. all \in Seq(S) /\ Len(all) = n + k
    BY <1>3
  <2> HIDE DEF all
  <2>2. all = [i \in 1 .. n + k |-> all[i]]
    BY <2>1
  <2>3. \A i \in 1 .. n + k : all[i] = Record(list, i, env)
    BY <1>4 DEF all
  <2>4. all = [i \in 1 .. n + k |-> Record(list, i, env)]
    BY <2>2, <2>3
  <2> QED
    BY <2>4 DEF all
<1> QED
  BY <1>5 DEF old, more, RecordsOf

\* One more day after n days makes n + 1 days.
LEMMA RecordsAppend ==
  ASSUME NEW list, NEW n \in Nat, NEW env
  PROVE  Append(RecordsOf(list, n, env), Record(list, n + 1, env))
           = RecordsOf(list, n + 1, env)
<1> DEFINE old == RecordsOf(list, n, env)
           x == Record(list, n + 1, env)
           S == {Record(list, i, env) : i \in 1 .. n + 1}
<1>1. old \in Seq(S) /\ Len(old) = n /\ \A i \in 1 .. n : old[i] = Record(list, i, env)
  BY DEF RecordsOf
<1>2. x \in S
  OBVIOUS
<1> HIDE DEF old, S
<1>3. /\ Append(old, x) \in Seq(S) /\ Len(Append(old, x)) = n + 1
      /\ \A i \in 1 .. n + 1 : Append(old, x)[i] = Record(list, i, env)
  BY <1>1, <1>2
<1>4. Append(old, x) = [i \in 1 .. n + 1 |-> Record(list, i, env)]
  BY <1>3
<1> QED
  BY <1>4 DEF old, RecordsOf

-----------------------------------------------------------------------------
(* The actions *)

\* Before the first call there is no pool, and nothing was asked.
LEMMA InitHolds == EInit => EvalInv
<1> SUFFICES ASSUME EInit
             PROVE  EvalInv
  OBVIOUS
<1>1. call.at = "none" /\ held = NoPool
  BY DEF EInit, NoCall
<1> QED
  BY <1>1 DEF EvalInv, GoodPool, Busy, RecordsWhatWasAsked

\* Between calls only the model and the pool that is kept change.
LEMMA BetweenCalls ==
  ASSUME EvalInv, Train \/ KeepPool \/ ClosePool
  PROVE  EvalInv'
<1>1. /\ ~Busy /\ call' = call /\ records' = records
  BY DEF Train, KeepPool, ClosePool
<1>2. GoodPool(held')
  <2>1. CASE Train
    BY <2>1 DEF Train, EvalInv
  <2>2. CASE KeepPool
    <3>1. PICK list \in Lists, run \in Runs, f \in MaybeForecaster :
            held' = IF held = NoPool THEN MakePool(list, run, f)
                    ELSE Refreshed(held, list, run, f)
      BY <2>2 DEF KeepPool, MaybeForecaster
    <3>2. ASSUME NEW native, held' = Pool(native, list, run, f)
          PROVE  GoodPool(held')
      BY <3>2, PoolIsMadeFor DEF GoodPool
    <3>3. CASE held = NoPool
      BY <3>1, <3>2, <3>3 DEF MakePool
    <3>4. CASE held # NoPool
      BY <3>1, <3>2, <3>4 DEF Refreshed, EvalInv
    <3> QED
      BY <3>3, <3>4
  <2>3. CASE ClosePool
    <3>1. CASE held' = NoPool
      BY <3>1 DEF GoodPool
    <3>2. CASE held # NoPool /\ held' = [held EXCEPT !.closed = TRUE]
      <4>1. PICK list \in Lists, run \in Runs, f \in MaybeForecaster :
              MadeFor(held, list, run, f)
        BY <3>2 DEF EvalInv, GoodPool
      <4>2. MadeFor(held', list, run, f)
        BY <3>2, <4>1, ClosedPool
      <4> QED
        BY <4>2 DEF GoodPool
    <3>3. held # NoPool
      <4>1. NoPool.closed
        BY DEF NoPool
      <4> QED
        BY <2>3, <4>1 DEF ClosePool
    <3> QED
      BY <2>3, <3>1, <3>2, <3>3 DEF ClosePool
  <2> QED
    BY <2>1, <2>2, <2>3
<1> QED
  BY <1>1, <1>2 DEF EvalInv, Busy, RecordsWhatWasAsked

\* A call starts with a pool that was made for it, or with none.
LEMMA CallStartsGood ==
  ASSUME EvalInv, Call
  PROVE  EvalInv'
<1>1. held' = held /\ records' = <<>> /\ model' = model
  BY DEF Call
<1>2. PICK list \in Lists, run \in Runs, f \in MaybeForecaster,
           method \in {Learned, Heuristic}, given \in {NoPool, held} :
        LET batched == Batched(run, method, given)
            pool == ActivePool(list, run, f, given)
        IN call' = IF Refused(list, run, method, f, given)
                   THEN [at |-> "refused"]
                   ELSE [at |-> "running", list |-> list, run |-> run,
                         method |-> method, forecaster |-> f,
                         saved |-> model, owned |-> batched /\ given = NoPool,
                         pool |-> IF batched THEN pool ELSE NoPool]
  BY DEF Call, MaybeForecaster
<1>3. CASE Refused(list, run, method, f, given)
  <2>1. call'.at = "refused"
    BY <1>2, <1>3
  <2> QED
    BY <1>1, <2>1 DEF EvalInv, Busy, RecordsWhatWasAsked
<1>4. CASE ~Refused(list, run, method, f, given)
  <2> DEFINE batched == Batched(run, method, given)
             p == IF batched THEN ActivePool(list, run, f, given) ELSE NoPool
  <2>1. p # NoPool => MadeFor(p, list, run, f)
    <3>1. CASE batched /\ given = NoPool
      BY <3>1, PoolIsMadeFor DEF ActivePool, MakePool
    <3>2. CASE batched /\ given # NoPool
      <4>1. PoolMatches(given, list, run, f) /\ p = given /\ GoodPool(given)
        BY <1>4, <3>2 DEF Refused, ActivePool, EvalInv
      <4> QED
        BY <3>2, <4>1, MatchingPool
    <3> QED
      BY <3>1, <3>2
  <2> DEFINE o == batched /\ given = NoPool
  <2>2. call' = [at |-> "running", list |-> list, run |-> run,
                 method |-> method, forecaster |-> f, saved |-> model,
                 owned |-> o, pool |-> p]
    BY <1>2, <1>4, Zenon
  <2>3. o \in BOOLEAN
    BY Zenon
  <2> HIDE DEF p, o, batched
  <2>4. /\ DOMAIN call' = {"at", "list", "run", "method", "forecaster", "saved",
                           "owned", "pool"}
        /\ call' = [k \in DOMAIN call' |-> call'[k]]
        /\ call'.at = "running" /\ call'.list = list /\ call'.run = run
        /\ call'.method = method /\ call'.forecaster = f
        /\ call'.saved = model /\ call'.pool = p
    BY <2>2
  <2>5. call'.owned \in BOOLEAN
    BY <2>2, <2>3
  <2>6. records' = RecordsOf(list, 0, Environment(run, f)) /\ 0 \in 0 .. Len(list)
    BY <1>1, EvaluatorAssumption DEF RecordsOf
  <2>7. GoodCall'
    BY <1>1, <2>1, <2>4, <2>5, <2>6 DEF GoodCall
  <2> QED
    BY <1>1, <2>4, <2>7 DEF EvalInv, Busy, RecordsWhatWasAsked
<1> QED
  BY <1>3, <1>4

\* A day, or a chunk of days, is recorded after those before it, and under the
\* settings of the call: its own environment has them, and so has its pool.
LEMMA DaysKeepInv ==
  ASSUME EvalInv, RunDay \/ RunChunk
  PROVE  EvalInv'
<1>1. /\ Busy /\ GoodCall
      /\ held' = held /\ call' = call
  BY DEF EvalInv, RunDay, RunChunk
<1> DEFINE env == Environment(call.run, call.forecaster)
<1>2. PICK n \in 0 .. Len(call.list) : records = RecordsOf(call.list, n, env)
  BY <1>1 DEF GoodCall
<1>3. n \in Nat /\ Len(call.list) \in Nat /\ Len(records) = n
  <2>1. Len(call.list) \in Nat
    BY <1>1, EvaluatorAssumption DEF GoodCall
  <2> QED
    BY <1>2, <2>1, RecordsLength
<1>4. \E m \in 0 .. Len(call.list) : records' = RecordsOf(call.list, m, env)
  <2>1. CASE RunDay
    <3>1. n + 1 \in 0 .. Len(call.list)
      BY <1>3, <2>1 DEF RunDay, Left
    <3>2. records' = Append(records, Record(call.list, n + 1, env))
      BY <1>3, <2>1 DEF RunDay
    <3> QED
      BY <1>2, <1>3, <3>1, <3>2, RecordsAppend
  <2>2. CASE RunChunk
    <3> DEFINE left == Len(call.list) - n
               k == IF call.pool.size < left THEN call.pool.size ELSE left
    <3>1. MadeFor(call.pool, call.list, call.run, call.forecaster)
      BY <1>1, <2>2 DEF GoodCall, RunChunk
    <3>2. k \in Nat /\ n + k \in 0 .. Len(call.list)
      BY <1>3, <3>1 DEF MadeFor
    <3>3. records' = records \o [i \in 1 .. k |->
                        Record(call.pool.list, n + i, call.pool.env)]
      BY <1>3, <2>2 DEF RunChunk, Left
    <3> HIDE DEF k
    <3>4. records' = records \o [i \in 1 .. k |-> Record(call.list, n + i, env)]
      BY <3>1, <3>3 DEF MadeFor
    <3> QED
      BY <1>2, <1>3, <3>2, <3>4, RecordsExtend
  <2> QED
    BY <2>1, <2>2
<1>5. call.method = Heuristic => model' = model
  BY DEF RunDay, RunChunk, ModelAfter, Learned, Heuristic
<1>6. GoodCall'
  BY <1>1, <1>4, <1>5 DEF GoodCall
<1> QED
  BY <1>1, <1>6 DEF EvalInv, Busy, RecordsWhatWasAsked

\* However a call is left, the model is the one it found.
LEMMA LeaveFields ==
  ASSUME GoodCall, NEW at, Leave(at)
  PROVE  /\ call'.at = at
         /\ call'.list = call.list /\ call'.run = call.run
         /\ call'.forecaster = call.forecaster
         /\ model' = call.saved
         /\ held' = held /\ records' = records
         /\ call.owned => call'.pool.closed
<1> DEFINE b == call.pool.closed \/ call.owned
           p == [call.pool EXCEPT !.closed = b]
<1>1. call' = [call EXCEPT !.at = at, !.pool = p]
  BY DEF Leave
<1>2. "closed" \in DOMAIN call.pool
  BY DEF GoodCall, MadeFor, NoPool
<1>3. p.closed = b
  BY <1>2
<1> HIDE DEF p
<1>4. /\ call'.at = at
      /\ call'.list = call.list /\ call'.run = call.run
      /\ call'.forecaster = call.forecaster
      /\ call'.pool = p
  BY <1>1 DEF GoodCall
<1>5. call.owned => call'.pool.closed
  BY <1>3, <1>4, Zenon
<1>6. model' = call.saved /\ held' = held /\ records' = records
  BY DEF Leave, Restored, GoodCall, Learned, Heuristic
<1> QED
  BY <1>4, <1>5, <1>6

\* A call that returns has run every day.
LEMMA LeavingKeepsInv ==
  ASSUME EvalInv, Return \/ Break \/ Fault
  PROVE  EvalInv'
<1>1. Busy /\ GoodCall
  BY DEF EvalInv, Return, Break, Fault
<1>2. PICK at \in {"returned", "raised", "unsupported"} :
        Leave(at) /\ (at = "returned" => Left = 0)
  BY DEF Return, Break, Fault
<1>3. /\ call'.at = at
      /\ call'.list = call.list /\ call'.run = call.run
      /\ call'.forecaster = call.forecaster
      /\ held' = held /\ records' = records
  BY <1>1, <1>2, LeaveFields
<1>4. ASSUME at = "returned"
      PROVE  records = [i \in DOMAIN call.list |->
               Record(call.list, i, Environment(call.run, call.forecaster))]
  <2> DEFINE env == Environment(call.run, call.forecaster)
  <2>1. PICK n \in 0 .. Len(call.list) : records = RecordsOf(call.list, n, env)
    BY <1>1 DEF GoodCall
  <2>2. /\ Len(call.list) \in Nat /\ DOMAIN call.list = 1 .. Len(call.list)
    BY <1>1, EvaluatorAssumption DEF GoodCall
  <2>3. n = Len(call.list)
    BY <1>2, <1>4, <2>1, <2>2, RecordsLength DEF Left
  <2> QED
    BY <2>1, <2>2, <2>3 DEF RecordsOf
<1>5. RecordsWhatWasAsked'
  BY <1>3, <1>4 DEF RecordsWhatWasAsked
<1> QED
  BY <1>2, <1>3, <1>5 DEF EvalInv, Busy

\* Every step keeps the invariant.
LEMMA NextKeepsInv == EvalInv /\ [ENext]_vars => EvalInv'
<1> SUFFICES ASSUME EvalInv, [ENext]_vars
             PROVE  EvalInv'
  OBVIOUS
<1>1. CASE UNCHANGED vars
  BY <1>1 DEF vars, EvalInv, GoodPool, GoodCall, Busy, RecordsWhatWasAsked
<1>2. CASE ENext
  BY <1>2, BetweenCalls, CallStartsGood, DaysKeepInv, LeavingKeepsInv DEF ENext
<1> QED
  BY <1>1, <1>2

\* The invariant holds of every process that evaluates (runner.py, pool.py).
THEOREM EvalInvariance == ESpec => []EvalInv
BY InitHolds, NextKeepsInv, PTL DEF ESpec

\* A call that returns has recorded exactly the days it was given, in order,
\* under its own settings and forecaster, on whatever pool it ran
\* (runner.py:473-550, pool.py:41-103).
THEOREM EveryDayAsAsked == ESpec => []RecordsWhatWasAsked
<1>1. EvalInv => RecordsWhatWasAsked
  BY DEF EvalInv
<1> QED
  BY <1>1, EvalInvariance, PTL

\* However a call ends, the model goes on as the call found it, and only a pool
\* of the call's own is closed (the two finally clauses of runner.py:541-550).
THEOREM CallsLeaveNoTrace == ESpec => LeavesNoTrace
<1>1. ASSUME EvalInv, [ENext]_vars
      PROVE  [Busy /\ call'.at # "running" =>
                /\ model' = call.saved
                /\ call.owned => call'.pool.closed
                /\ held' = held]_vars
  <2>1. SUFFICES ASSUME Busy, call'.at # "running", ENext
                 PROVE  /\ model' = call.saved
                        /\ call.owned => call'.pool.closed
                        /\ held' = held
    BY <1>1
  <2>2. GoodCall
    BY <1>1, <2>1 DEF EvalInv
  <2>3. Return \/ Break \/ Fault
    BY <2>1 DEF ENext, Train, KeepPool, ClosePool, Call, RunDay, RunChunk, Busy
  <2>4. PICK at \in {"returned", "raised", "unsupported"} : Leave(at)
    BY <2>3 DEF Return, Break, Fault
  <2> QED
    BY <2>2, <2>4, LeaveFields
<1> QED
  BY <1>1, EvalInvariance, PTL DEF ESpec, LeavesNoTrace
=============================================================================
