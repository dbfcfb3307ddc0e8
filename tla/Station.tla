-------------------------------- MODULE Station --------------------------------
(***************************************************************************)
(* The sessions of the station service (src/bus_rl/station/service.py).    *)
(*                                                                         *)
(* Every request runs on a thread of the web server's pool.  A session is  *)
(* listed in the dictionary _simulations, guarded by _simulations_lock     *)
(* (here listLock), and has a lock of its own that guards its environment  *)
(* (here owner[i]).  Lookups read the dictionary without its lock.  One    *)
(* action is what a thread does between two points at which another one    *)
(* can run: a lock it waits for, a read another thread may make stale.     *)
(*                                                                         *)
(* Requests that are turned down before they touch the sessions (unknown   *)
(* controller, split or day, too many decisions) are left out.             *)
(***************************************************************************)
EXTENDS Integers, FiniteSets

CONSTANTS
  Thread,        \* request threads of the web server
  Id,            \* session ids, numbers here: uuid4 never repeats, so each is
                 \* used once, and which one a session gets does not matter
  None,          \* no thread, no session
  MaxSessions,   \* max_sessions
  IdleTime,      \* session_idle_s
  DayLength,     \* decisions until the day is over
  MaxDecisions,  \* max_decisions_per_call
  Requests,      \* bound: requests in all
  MaxClock       \* bound: the clock stops here

ASSUME StationAssumption ==
  /\ None \notin Thread \cup Id
  /\ Id \subseteq Nat
  /\ {MaxSessions, IdleTime, DayLength, MaxDecisions} \subseteq Nat \ {0}
  /\ {Requests, MaxClock} \subseteq Nat

VARIABLES
  clock,      \* monotonic()
  listed,     \* the ids in _simulations; their order is that of insertion
  listLock,   \* the thread that holds _simulations_lock
  session,    \* per id: has it been made, is it closed, its day, its last use
  owner,      \* owner[i]: the thread that holds the lock of session i
  told,       \* sessions whose id a client has been given
  call,       \* call[t]: what thread t is doing, for which session
  budget      \* requests that may still come

vars == <<clock, listed, listLock, session, owner, told, call, budget>>

-----------------------------------------------------------------------------

NewSession == [made |-> TRUE, closed |-> FALSE, steps |-> 0, lastUsed |-> clock]

NoSession == [made |-> FALSE, closed |-> FALSE, steps |-> 0, lastUsed |-> 0]

\* at: where the thread is; id: its session; left: decisions still to take;
\* cutoff and todo: the eviction or shutdown loop it is in.
Rest == [at |-> "rest", id |-> None, left |-> 0, cutoff |-> 0, todo |-> {}]

Init ==
  /\ clock = 0
  /\ listed = {}
  /\ listLock = None
  /\ session = [i \in Id |-> NoSession]
  /\ owner = [i \in Id |-> None]
  /\ told = {}
  /\ call = [t \in Thread |-> Rest]
  /\ budget = Requests

\* The next one of a loop over sessions: the oldest.
First(S) == CHOOSE i \in S : \A j \in S : i <= j

Later(S) == S \ {First(S)}

Finished(i) == session[i].steps = DayLength

At(t, point) == call[t].at = point

Goto(t, point) == call' = [call EXCEPT ![t].at = point]

\* The request is answered, with success or with an HTTP error.
Answer(t) == call' = [call EXCEPT ![t] = Rest]

Begin(t, request) ==
  /\ At(t, "rest")
  /\ budget > 0
  /\ budget' = budget - 1
  /\ call' = [call EXCEPT ![t] = request]
  /\ UNCHANGED <<clock, listed, listLock, session, owner, told>>

\* A session is closed under its own lock, which the thread gets, uses and
\* gives back without meeting anybody.
CloseSession(i) ==
  /\ owner[i] = None
  /\ session' = [session EXCEPT ![i].closed = TRUE]

-----------------------------------------------------------------------------
(* POST /simulations: create *)

Creating == {t \in Thread : call[t].at \in
               {"create", "evict", "drop", "dropped"}}

Unused == {i \in Id : ~session[i].made}

\* Ids are bounded: a request only comes if there is one for its session.
CreateCall(t) ==
  /\ Cardinality(Creating) < Cardinality(Unused)
  /\ Begin(t, [Rest EXCEPT !.at = "create"])

\* With the list locked: room, or else a round of eviction.
CreateEnter(t) ==
  /\ At(t, "create")
  /\ listLock = None
  /\ listLock' = t
  /\ call' = [call EXCEPT ![t].at = "evict",
                          ![t].cutoff = clock - IdleTime,
                          ![t].todo = IF Cardinality(listed) < MaxSessions THEN {}
                                      ELSE listed]
  /\ UNCHANGED <<clock, listed, session, owner, told, budget>>

IsIdle(i, cutoff) == session[i].lastUsed < cutoff

\* _evict_idle reads last_used_s of the next session, without its lock.
EvictLook(t) ==
  /\ At(t, "evict")
  /\ call[t].todo # {}
  /\ IF IsIdle(First(call[t].todo), call[t].cutoff)
     THEN Goto(t, "drop")
     ELSE call' = [call EXCEPT ![t].todo = Later(@)]
  /\ UNCHANGED <<clock, listed, listLock, session, owner, told, budget>>

EvictDrop(t) ==
  /\ At(t, "drop")
  /\ listed' = listed \ {First(call[t].todo)}
  /\ Goto(t, "dropped")
  /\ UNCHANGED <<clock, listLock, session, owner, told, budget>>

EvictClose(t) ==
  /\ At(t, "dropped")
  /\ CloseSession(First(call[t].todo))
  /\ call' = [call EXCEPT ![t].at = "evict", ![t].todo = Later(@)]
  /\ UNCHANGED <<clock, listed, listLock, owner, told, budget>>

\* Eviction is over, if there was one.
Evicted(t) == At(t, "evict") /\ call[t].todo = {}

\* Slip: the limit is not looked at again after the eviction.
HasRoomAlways == TRUE

HasRoom == Cardinality(listed) < MaxSessions

Admit(t) ==
  /\ Evicted(t)
  /\ HasRoom
  /\ Unused # {}
  /\ LET i == First(Unused)
     IN /\ session' = [session EXCEPT ![i] = NewSession]
        /\ listed' = listed \cup {i}
        /\ call' = [call EXCEPT ![t] = [Rest EXCEPT !.at = "created", !.id = i]]
  /\ listLock' = None
  /\ UNCHANGED <<clock, owner, told, budget>>

\* 503: the session limit is reached.
Refuse(t) ==
  /\ Evicted(t)
  /\ ~HasRoom
  /\ listLock' = None
  /\ Answer(t)
  /\ UNCHANGED <<clock, listed, session, owner, told, budget>>

\* The environment cannot be made: the error leaves the list as it is.
CreateFails(t) ==
  /\ Evicted(t)
  /\ HasRoom
  /\ listLock' = None
  /\ Answer(t)
  /\ UNCHANGED <<clock, listed, session, owner, told, budget>>

\* The first snapshot is taken with no lock held; then the client has the id.
CreateAnswer(t) ==
  /\ At(t, "created")
  /\ told' = told \cup {call[t].id}
  /\ Answer(t)
  /\ UNCHANGED <<clock, listed, listLock, session, owner, budget>>

-----------------------------------------------------------------------------
(* GET /simulations/{id} and POST /simulations/{id}/steps *)

\* A request for session i: n decisions, or none for a read.  The session is
\* looked up as soon as a thread has the request, and the thread keeps the
\* object: it may have left the list when its lock is free.
UseCall(t, i, n) ==
  /\ i \in listed
  /\ Begin(t, [Rest EXCEPT !.at = IF n = 0 THEN "read" ELSE "step",
                           !.id = i, !.left = n])

\* 404 for a session that is not listed.
NotFound(t, i) == i \notin listed /\ Begin(t, Rest)

\* Slip: nobody asks whether the session was closed while the thread waited.
RefusedUnlessFinished(t, i) == At(t, "step") /\ Finished(i)

\* _touch raises KeyError for a closed session, step RuntimeError for a day
\* that is over; both give the lock back.
Refused(t, i) ==
  \/ session[i].closed
  \/ At(t, "step") /\ Finished(i)

\* With the lock of the session: it is in use now.
Touch(t) ==
  /\ call[t].at \in {"read", "step"}
  /\ owner[call[t].id] = None
  /\ session' = [session EXCEPT ![call[t].id].lastUsed =
                   IF session[call[t].id].closed THEN @ ELSE clock]
  /\ IF Refused(t, call[t].id)
     THEN /\ Answer(t)
          /\ UNCHANGED owner
     ELSE /\ owner' = [owner EXCEPT ![call[t].id] = t]
          /\ Goto(t, "running")
  /\ UNCHANGED <<clock, listed, listLock, told, budget>>

\* One round of _advance: the controller decides, the environment steps.
Advance(t) ==
  /\ At(t, "running")
  /\ call[t].left > 0
  /\ session' = [session EXCEPT ![call[t].id].steps = @ + 1]
  /\ call' = [call EXCEPT ![t].left =
                IF session'[call[t].id].steps = DayLength THEN 0 ELSE @ - 1]
  /\ UNCHANGED <<clock, listed, listLock, owner, told, budget>>

\* Slip: an answered request keeps the lock of its session.
ReleaseNothing(i) == UNCHANGED owner

Release(i) == owner' = [owner EXCEPT ![i] = None]

\* The snapshot of the session, and the lock given back.
Show(t) ==
  /\ At(t, "running")
  /\ call[t].left = 0
  /\ Release(call[t].id)
  /\ Answer(t)
  /\ UNCHANGED <<clock, listed, listLock, session, told, budget>>

\* The controller or the kernel raises: the lock is given back, the decisions
\* before this one stay taken, and the client gets none of their records.
AdvanceFails(t) ==
  /\ At(t, "running")
  /\ call[t].left > 0
  /\ Release(call[t].id)
  /\ Answer(t)
  /\ UNCHANGED <<clock, listed, listLock, session, told, budget>>

-----------------------------------------------------------------------------
(* DELETE /simulations/{id}, and close at the shutdown of the application *)

DeleteCall(t, i) == Begin(t, [Rest EXCEPT !.at = "delete", !.id = i])

\* Slip: the thread that took the session off the list forgets to close it.
AfterPopForgetful(i) == "rest"

AfterPop(i) == IF i \in listed THEN "closing" ELSE "rest"

\* pop under the list's lock: one thread gets the session, the others KeyError.
Pop(t) ==
  /\ At(t, "delete")
  /\ listLock = None
  /\ listed' = listed \ {call[t].id}
  /\ IF AfterPop(call[t].id) = "rest"
     THEN Answer(t)
     ELSE call' = [call EXCEPT ![t].at = "closing", ![t].todo = {call[t].id}]
  /\ UNCHANGED <<clock, listLock, session, owner, told, budget>>

ShutdownCall(t) == Begin(t, [Rest EXCEPT !.at = "shutdown"])

TakeAll(t) ==
  /\ At(t, "shutdown")
  /\ listLock = None
  /\ listed' = {}
  /\ IF listed = {}
     THEN Answer(t)
     ELSE call' = [call EXCEPT ![t].at = "closing", ![t].todo = listed]
  /\ UNCHANGED <<clock, listLock, session, owner, told, budget>>

CloseNext(t) ==
  /\ At(t, "closing")
  /\ CloseSession(First(call[t].todo))
  /\ IF Later(call[t].todo) = {}
     THEN Answer(t)
     ELSE call' = [call EXCEPT ![t].todo = Later(@)]
  /\ UNCHANGED <<clock, listed, listLock, owner, told, budget>>

-----------------------------------------------------------------------------

\* Requests arrive as they like, for any session a client knows.
Arrive(t) ==
  \/ CreateCall(t)
  \/ \E i \in told, n \in 0 .. MaxDecisions : UseCall(t, i, n)
  \/ \E i \in told : NotFound(t, i) \/ DeleteCall(t, i)
  \/ ShutdownCall(t)

Create(t) ==
  \/ CreateEnter(t) \/ EvictLook(t) \/ EvictDrop(t) \/ EvictClose(t)
  \/ Admit(t) \/ Refuse(t) \/ CreateFails(t) \/ CreateAnswer(t)

Use(t) == Touch(t) \/ Advance(t) \/ AdvanceFails(t) \/ Show(t)

Retire(t) == Pop(t) \/ TakeAll(t) \/ CloseNext(t)

\* What thread t does on its own once it has a request.
Serve(t) == Create(t) \/ Use(t) \/ Retire(t)

TimePasses ==
  /\ clock < MaxClock
  /\ clock' = clock + 1
  /\ UNCHANGED <<listed, listLock, session, owner, told, call, budget>>

Next == TimePasses \/ \E t \in Thread : Arrive(t) \/ Serve(t)

Spec == Init /\ [][Next]_vars

\* A thread with a request is scheduled again and again, and gets a lock that
\* stays free; no request has to arrive.
FairSpec == Spec /\ \A t \in Thread : WF_vars(Serve(t))

-----------------------------------------------------------------------------
(* Properties *)

\* A request that works on a session has it for itself, and nobody closes the
\* environment under it ("waits out an in-flight step", service.py:291).
NeverRunsClosed ==
  \A t \in Thread : At(t, "running") =>
    owner[call[t].id] = t /\ ~session[call[t].id].closed

\* The threads together behave as the sessions that module Sessions promises:
\* never more than max_sessions open, and whatever requests race to delete,
\* evict or shut down, a session is closed only after it has left the list,
\* never comes back, and stays as it is once it is closed.
Status(i) ==
  IF ~session[i].made THEN "new"
  ELSE IF session[i].closed THEN "closed"
  ELSE IF i \in listed THEN "open" ELSE "removed"
Abstract ==
  INSTANCE Sessions WITH Limit <- MaxSessions,
                         status <- [i \in Id |-> Status(i)],
                         day <- [i \in Id |-> session[i].steps]
ImplementsSessions == Abstract!Spec

\* Every request is answered: the list's lock is held while waiting for the
\* lock of a session (eviction), never the other way round.
EverybodyAnswered == \A t \in Thread : call[t] # Rest ~> call[t] = Rest

\* A session that is taken off the list is closed in the end.
RemovedGetClosed ==
  \A i \in Id : session[i].made /\ i \notin listed ~> session[i].closed

\* What _evict_idle says it frees: "sessions nobody stepped or read for
\* session_idle_s" (service.py:297).
EvictedWereIdle ==
  [][\A t \in Thread : At(t, "drop") /\ ~At(t, "drop")' =>
       LET i == First(call[t].todo)
       IN owner[i] = None /\ session[i].lastUsed < clock - IdleTime]_vars
=============================================================================
