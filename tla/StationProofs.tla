----------------------------- MODULE StationProofs -----------------------------
(***************************************************************************)
(* Proofs about module Station, for any number of request threads, any set *)
(* of session ids and any limits.  The inductive invariant Inv says, point *)
(* by point, what a thread may rely on there: whose lock it holds, and     *)
(* which of the sessions it works on have left the list.                   *)
(***************************************************************************)
EXTENDS Station, WellFoundedInduction, TLAPS

Points ==
  {"rest", "create", "evict", "drop", "dropped", "created", "read", "step",
   "running", "delete", "shutdown", "closing"}

Calls == [at : Points, id : Id \cup {None}, left : Nat, cutoff : Int,
          todo : SUBSET Id]

SessionRecords == [made : BOOLEAN, closed : BOOLEAN, steps : Nat, lastUsed : Nat]

TypeOK ==
  /\ clock \in Nat
  /\ listed \in SUBSET Id
  /\ session \in [Id -> SessionRecords]
  /\ owner \in [Id -> Thread \cup {None}]
  /\ told \in SUBSET Id
  /\ call \in [Thread -> Calls]

\* A session that is listed can be used; one that is not made has no history,
\* and no day is longer than a day.
GoodSessions(S, L, known) ==
  /\ \A i \in L : S[i].made /\ ~S[i].closed
  /\ \A i \in known : S[i].made
  /\ \A i \in Id : /\ ~S[i].made => ~S[i].closed /\ S[i].steps = 0
                   /\ S[i].steps <= DayLength

\* What thread u may rely on, with the call c, when the sessions are S, the
\* list is L and the locks belong to O.
GoodCall(c, u, S, L, O) ==
  /\ c.at \in {"read", "step", "running", "created", "delete"} => c.id \in Id
  /\ c.at \in {"read", "step", "running", "created"} => S[c.id].made
  /\ c.at = "read" => c.left = 0
  /\ c.at \in {"drop", "dropped", "closing"} => c.todo # {}
  /\ \A i \in c.todo : S[i].made
  /\ c.at = "dropped" => First(c.todo) \notin L
  /\ c.at = "closing" => c.todo \cap L = {}
  /\ c.at = "running" =>
       /\ O[c.id] = u
       /\ ~S[c.id].closed
       /\ c.left > 0 => S[c.id].steps < DayLength

Inv ==
  /\ TypeOK
  /\ GoodSessions(session, listed, told)
  /\ \A u \in Thread : GoodCall(call[u], u, session, listed, owner)

-----------------------------------------------------------------------------
(* Lemmas *)

\* The loops over sessions take one of them: numbers are well ordered.
LEMMA FirstIsOneOf ==
  ASSUME NEW S \in SUBSET Id, S # {}
  PROVE  First(S) \in S
<1> DEFINE R == {p \in Nat \X Nat : p[1] < p[2]}
<1>1. IsWellFoundedOn(R, Nat)
  <2>1. R = OpToRel(<, Nat)
    BY Zenon DEF OpToRel
  <2> QED
    BY <2>1, NatLessThanWellFounded
<1>2. S \subseteq Nat
  BY StationAssumption
<1>3. PICK x \in S : \A y \in S : ~ (<<y, x>> \in R)
  <2> HIDE DEF R
  <2> QED
    BY <1>1, <1>2, WFMin
<1>4. \A y \in S : x <= y
  <2>1. SUFFICES ASSUME NEW y \in S
                 PROVE  ~ (y < x)
    BY <1>2, <1>3
  <2>2. <<y, x>> \in Nat \X Nat /\ <<y, x>>[1] = y /\ <<y, x>>[2] = x
    BY <1>2, <1>3
  <2> QED
    BY <1>3, <2>1, <2>2
<1> QED
  BY <1>4 DEF First

\* A new request and a thread at rest have the type of a call.
LEMMA RestFields ==
  /\ Rest \in Calls
  /\ Rest.at = "rest" /\ Rest.left = 0 /\ Rest.todo = {}
BY DEF Rest, Calls, Points

\* A thread at rest, and one that waits for the list with no session, rely on
\* nothing.
LEMMA NothingToRelyOn ==
  ASSUME NEW c, NEW u, NEW S, NEW L, NEW O,
         c.at \in {"rest", "create", "shutdown"}, c.todo = {}
  PROVE  GoodCall(c, u, S, L, O)
BY DEF GoodCall

\* What a thread relies on, other threads leave alone: sessions stay made and are
\* never listed again, and a session whose lock it holds is left as it is.
LEMMA OthersKeep ==
  ASSUME NEW c \in Calls, NEW u \in Thread, NEW S, NEW L, NEW O,
         NEW S2, NEW L2, NEW O2, GoodCall(c, u, S, L, O),
         \A i \in Id : S[i].made => S2[i].made,
         \A i \in L2 : i \in L \/ ~S[i].made,
         \A i \in Id : O[i] = u => /\ O2[i] = u
                                   /\ S2[i].closed = S[i].closed
                                   /\ S2[i].steps = S[i].steps
  PROVE  GoodCall(c, u, S2, L2, O2)
<1>1. c.todo \subseteq Id
  BY DEF Calls
<1>2. c.todo # {} => First(c.todo) \in c.todo
  BY <1>1, FirstIsOneOf
<1> QED
  BY <1>1, <1>2 DEF GoodCall

\* So a step of thread t keeps the invariant if it leaves the sessions in order,
\* keeps what the others rely on, and gives t something to rely on.
LEMMA StepKeepsInv ==
  ASSUME Inv, NEW t \in Thread, NEW c \in Calls,
         call' = [call EXCEPT ![t] = c],
         GoodCall(c, t, session', listed', owner'),
         clock' = clock,
         listed' \in SUBSET Id,
         session' \in [Id -> SessionRecords],
         owner' \in [Id -> Thread \cup {None}],
         told' \in SUBSET Id,
         GoodSessions(session', listed', told'),
         \A i \in Id : session[i].made => session'[i].made,
         \A i \in listed' : i \in listed \/ ~session[i].made,
         \A i \in Id : owner[i] \in Thread \ {t} =>
           /\ owner'[i] = owner[i]
           /\ session'[i].closed = session[i].closed
           /\ session'[i].steps = session[i].steps
  PROVE  Inv'
<1>1. TypeOK'
  BY DEF Inv, TypeOK
<1>2. ASSUME NEW u \in Thread
      PROVE  GoodCall(call'[u], u, session', listed', owner')
  <2>1. CASE u = t
    <3>1. call'[u] = c
      BY <2>1 DEF Inv, TypeOK
    <3> QED
      BY <2>1, <3>1
  <2>2. CASE u # t
    <3>1. call'[u] = call[u] /\ call[u] \in Calls
      BY <2>2 DEF Inv, TypeOK
    <3>2. GoodCall(call[u], u, session, listed, owner)
      BY DEF Inv
    <3>3. \A i \in Id : owner[i] = u => /\ owner'[i] = u
                                        /\ session'[i].closed = session[i].closed
                                        /\ session'[i].steps = session[i].steps
      BY <2>2
    <3> QED
      BY <3>1, <3>2, <3>3, OthersKeep
  <2> QED
    BY <2>1, <2>2
<1> QED
  BY <1>1, <1>2 DEF Inv

\* The case of a step that changes nothing but the list's lock and the call.
LEMMA OnlyTheCall ==
  ASSUME Inv, NEW t \in Thread, NEW c \in Calls,
         call' = [call EXCEPT ![t] = c],
         GoodCall(c, t, session, listed, owner),
         UNCHANGED <<clock, listed, session, owner, told>>
  PROVE  Inv'
<1>1. /\ listed' \in SUBSET Id
      /\ session' \in [Id -> SessionRecords]
      /\ owner' \in [Id -> Thread \cup {None}]
      /\ told' \in SUBSET Id
      /\ GoodSessions(session', listed', told')
      /\ GoodCall(c, t, session', listed', owner')
  BY DEF Inv, TypeOK
<1> QED
  BY <1>1, StepKeepsInv

\* In particular when the thread answers.
LEMMA AnswerKeepsInv ==
  ASSUME Inv, NEW t \in Thread, Answer(t),
         UNCHANGED <<clock, listed, session, owner, told>>
  PROVE  Inv'
<1>1. GoodCall(Rest, t, session, listed, owner)
  BY RestFields, NothingToRelyOn
<1> QED
  BY <1>1, RestFields, OnlyTheCall DEF Answer

-----------------------------------------------------------------------------
(* The actions *)

\* At the beginning nobody does anything.
LEMMA InitHolds == Init => Inv
<1> SUFFICES ASSUME Init
             PROVE  Inv
  OBVIOUS
<1>1. TypeOK
  <2>1. session \in [Id -> SessionRecords]
    BY DEF Init, NoSession, SessionRecords
  <2> QED
    BY <2>1, RestFields DEF Init, TypeOK
<1>2. GoodSessions(session, listed, told)
  BY StationAssumption DEF Init, NoSession, GoodSessions
<1>3. \A u \in Thread : GoodCall(call[u], u, session, listed, owner)
  BY RestFields, NothingToRelyOn DEF Init
<1> QED
  BY <1>1, <1>2, <1>3 DEF Inv

\* A request comes only for a session that a client has been told of.
LEMMA ArriveKeepsInv ==
  ASSUME Inv, NEW t \in Thread, Arrive(t)
  PROVE  Inv'
<1> USE RestFields
<1> DEFINE New(c) ==
      /\ c \in Calls
      /\ GoodCall(c, t, session, listed, owner)
<1>1. ASSUME NEW c, New(c), Begin(t, c)
      PROVE  Inv'
  BY <1>1, OnlyTheCall DEF Begin
<1>2. CASE CreateCall(t)
  <2> DEFINE c == [Rest EXCEPT !.at = "create"]
  <2>1. c \in Calls /\ c.at = "create" /\ c.todo = {}
    BY DEF Rest, Calls, Points
  <2>2. Begin(t, c)
    BY <1>2 DEF CreateCall
  <2> HIDE DEF c
  <2>3. New(c)
    BY <2>1, NothingToRelyOn
  <2> QED
    BY <2>2, <2>3, <1>1
<1>3. CASE ShutdownCall(t)
  <2> DEFINE c == [Rest EXCEPT !.at = "shutdown"]
  <2>1. c \in Calls /\ c.at = "shutdown" /\ c.todo = {}
    BY DEF Rest, Calls, Points
  <2>2. Begin(t, c)
    BY <1>3 DEF ShutdownCall
  <2> HIDE DEF c
  <2>3. New(c)
    BY <2>1, NothingToRelyOn
  <2> QED
    BY <2>2, <2>3, <1>1
<1>4. ASSUME NEW i \in told, DeleteCall(t, i)
      PROVE  Inv'
  <2> DEFINE c == [Rest EXCEPT !.at = "delete", !.id = i]
  <2>1. i \in Id /\ session[i].made
    BY DEF Inv, TypeOK, GoodSessions
  <2>2. c \in Calls /\ c.at = "delete" /\ c.id = i /\ c.todo = {}
    BY <2>1 DEF Rest, Calls, Points
  <2>3. New(c)
    BY <2>1, <2>2 DEF GoodCall
  <2>4. Begin(t, c)
    BY <1>4 DEF DeleteCall
  <2> QED
    BY <2>3, <2>4, <1>1
<1>5. ASSUME NEW i \in told, NotFound(t, i)
      PROVE  Inv'
  <2>1. New(Rest)
    BY NothingToRelyOn
  <2> QED
    BY <1>5, <2>1, <1>1 DEF NotFound
<1>6. ASSUME NEW i \in told, NEW n \in 0 .. MaxDecisions, UseCall(t, i, n)
      PROVE  Inv'
  <2> DEFINE c == [Rest EXCEPT !.at = IF n = 0 THEN "read" ELSE "step",
                               !.id = i, !.left = n]
  <2>1. i \in Id /\ session[i].made
    BY DEF Inv, TypeOK, GoodSessions
  <2>2. n \in Nat
    BY StationAssumption
  <2>3. /\ c \in Calls
        /\ c.at = IF n = 0 THEN "read" ELSE "step"
        /\ c.id = i /\ c.left = n /\ c.todo = {}
    BY <2>1, <2>2 DEF Rest, Calls, Points
  <2>4. New(c)
    BY <2>1, <2>3 DEF GoodCall
  <2>5. Begin(t, c)
    BY <1>6 DEF UseCall
  <2> QED
    BY <2>4, <2>5, <1>1
<1> QED
  BY <1>2, <1>3, <1>4, <1>5, <1>6 DEF Arrive

\* A call that is only somewhere else.
LEMMA GotoFields ==
  ASSUME NEW c \in Calls, NEW p \in Points, NEW d, d = [c EXCEPT !.at = p]
  PROVE  /\ d \in Calls
         /\ d.at = p /\ d.id = c.id /\ d.left = c.left /\ d.todo = c.todo
BY DEF Calls

\* Closing a session that is off the list, whose lock nobody holds, keeps every
\* session in order.
LEMMA CloseKeepsSessions ==
  ASSUME Inv, NEW i \in Id, CloseSession(i), session[i].made, i \notin listed
  PROVE  /\ session' \in [Id -> SessionRecords]
         /\ GoodSessions(session', listed, told)
         /\ \A j \in Id : /\ session'[j].made = session[j].made
                          /\ session'[j].steps = session[j].steps
                          /\ j # i => session'[j] = session[j]
         /\ session'[i].closed
         /\ owner[i] = None
<1>1. session[i] \in SessionRecords /\ session \in [Id -> SessionRecords]
  BY DEF Inv, TypeOK
<1> DEFINE r == [session[i] EXCEPT !.closed = TRUE]
<1>2. session' = [session EXCEPT ![i] = r]
  BY DEF CloseSession
<1>3. /\ r \in SessionRecords
      /\ r.made = session[i].made
      /\ r.steps = session[i].steps
      /\ r.closed
  BY <1>1 DEF SessionRecords
<1> HIDE DEF r
<1>4. /\ session' \in [Id -> SessionRecords]
      /\ \A j \in Id : j # i => session'[j] = session[j]
      /\ session'[i] = r
  BY <1>1, <1>2, <1>3
<1>5. GoodSessions(session', listed, told)
  <2>1. GoodSessions(session, listed, told) /\ listed \subseteq Id /\ told \subseteq Id
    BY DEF Inv, TypeOK
  <2> QED
    BY <2>1, <1>3, <1>4 DEF GoodSessions
<1> QED
  BY <1>3, <1>4, <1>5 DEF CloseSession

\* A thread that creates a session, with the evictions it may need.
LEMMA CreateKeepsInv ==
  ASSUME Inv, NEW t \in Thread, Create(t)
  PROVE  Inv'
<1> DEFINE c == call[t]
<1>1. /\ c \in Calls
      /\ c.todo \in SUBSET Id
      /\ call \in [Thread -> Calls]
      /\ GoodCall(c, t, session, listed, owner)
      /\ GoodSessions(session, listed, told)
      /\ listed \in SUBSET Id /\ told \in SUBSET Id
      /\ session \in [Id -> SessionRecords]
      /\ owner \in [Id -> Thread \cup {None}]
      /\ clock \in Nat
  BY DEF Inv, TypeOK, Calls
<1>2. CASE CreateEnter(t)
  <2> DEFINE S == IF Cardinality(listed) < MaxSessions THEN {} ELSE listed
             d == [c EXCEPT !.at = "evict", !.cutoff = clock - IdleTime, !.todo = S]
  <2>1. d \in Calls /\ d.at = "evict" /\ d.todo = S
    <3>1. S \in SUBSET Id /\ clock - IdleTime \in Int
      BY <1>1, StationAssumption
    <3> HIDE DEF S
    <3> QED
      BY <1>1, <3>1 DEF Calls, Points
  <2>2. GoodCall(d, t, session, listed, owner)
    BY <1>1, <2>1 DEF GoodCall, GoodSessions
  <2>3. call' = [call EXCEPT ![t] = d]
    BY <1>2 DEF CreateEnter
  <2> HIDE DEF d
  <2> QED
    BY <1>2, <2>1, <2>2, <2>3, OnlyTheCall DEF CreateEnter
<1>3. CASE EvictLook(t)
  <2>1. CASE IsIdle(First(c.todo), c.cutoff)
    <3> DEFINE d == [c EXCEPT !.at = "drop"]
    <3>1. /\ d \in Calls
          /\ d.at = "drop" /\ d.todo = c.todo
      BY <1>1, GotoFields DEF Points
    <3>2. GoodCall(d, t, session, listed, owner)
      BY <1>1, <1>3, <3>1 DEF GoodCall, EvictLook
    <3>3. call' = [call EXCEPT ![t] = d]
      BY <1>3, <2>1 DEF EvictLook, Goto
    <3> HIDE DEF d
    <3> QED
      BY <1>3, <3>1, <3>2, <3>3, OnlyTheCall DEF EvictLook
  <2>2. CASE ~IsIdle(First(c.todo), c.cutoff)
    <3> DEFINE d == [c EXCEPT !.todo = Later(@)]
    <3>1. d \in Calls /\ d.at = "evict" /\ d.todo = Later(c.todo)
      BY <1>1, <1>3 DEF Calls, Later, EvictLook, At
    <3>2. GoodCall(d, t, session, listed, owner)
      BY <1>1, <3>1 DEF GoodCall, Later
    <3>3. call' = [call EXCEPT ![t] = d]
      BY <1>3, <2>2 DEF EvictLook
    <3> HIDE DEF d
    <3> QED
      BY <1>3, <3>1, <3>2, <3>3, OnlyTheCall DEF EvictLook
  <2> QED
    BY <2>1, <2>2
<1>4. CASE EvictDrop(t)
  <2> DEFINE d == [c EXCEPT !.at = "dropped"]
  <2>1. d \in Calls /\ d.at = "dropped" /\ d.todo = c.todo
    BY <1>1, GotoFields DEF Points
  <2>2. /\ listed' = listed \ {First(c.todo)}
        /\ call' = [call EXCEPT ![t] = d]
        /\ UNCHANGED <<clock, session, owner, told>>
    BY <1>4 DEF EvictDrop, Goto
  <2>3. GoodCall(d, t, session', listed', owner')
    BY <1>1, <1>4, <2>1, <2>2 DEF GoodCall, EvictDrop, At
  <2>4. GoodSessions(session', listed', told')
    BY <1>1, <2>2 DEF GoodSessions
  <2> HIDE DEF d
  <2>5. /\ listed' \in SUBSET Id /\ listed' \subseteq listed
        /\ told' \in SUBSET Id
        /\ session' \in [Id -> SessionRecords]
        /\ owner' \in [Id -> Thread \cup {None}]
    BY <1>1, <2>2
  <2> QED
    BY <2>1, <2>2, <2>3, <2>4, <2>5, StepKeepsInv
<1>5. CASE EvictClose(t)
  <2> DEFINE d == [c EXCEPT !.at = "evict", !.todo = Later(@)]
             i == First(c.todo)
  <2>1. c.at = "dropped" /\ c.todo # {}
    BY <1>1, <1>5 DEF EvictClose, At, GoodCall
  <2>2. /\ d \in Calls
        /\ d.at = "evict" /\ d.todo = Later(c.todo)
        /\ i \in c.todo \cap Id
    <3>1. i \in c.todo \cap Id
      BY <1>1, <2>1, FirstIsOneOf
    <3>2. Later(c.todo) \in SUBSET Id
      BY <1>1 DEF Later
    <3> QED
      BY <1>1, <3>1, <3>2 DEF Calls, Points
  <2>3. session[i].made /\ i \notin listed
    BY <1>1, <2>1, <2>2 DEF GoodCall
  <2>4. /\ CloseSession(i)
        /\ call' = [call EXCEPT ![t] = d]
        /\ UNCHANGED <<clock, listed, owner, told>>
    BY <1>5 DEF EvictClose
  <2> HIDE DEF d, i
  <2>5. /\ session' \in [Id -> SessionRecords]
        /\ GoodSessions(session', listed, told)
        /\ \A j \in Id : /\ session'[j].made = session[j].made
                         /\ session'[j].steps = session[j].steps
                         /\ j # i => session'[j] = session[j]
        /\ owner[i] = None
    BY <2>2, <2>3, <2>4, CloseKeepsSessions
  <2>6. GoodCall(d, t, session', listed', owner')
    BY <1>1, <2>2, <2>4, <2>5 DEF GoodCall, Later
  <2>7. \A j \in Id : owner[j] \in Thread \ {t} =>
          session'[j].closed = session[j].closed
    BY <2>5, StationAssumption
  <2>8. /\ listed' \in SUBSET Id /\ told' \in SUBSET Id
        /\ owner' \in [Id -> Thread \cup {None}]
        /\ GoodSessions(session', listed', told')
    BY <1>1, <2>4, <2>5
  <2> QED
    BY <2>2, <2>4, <2>5, <2>6, <2>7, <2>8, StepKeepsInv
<1>6. CASE Admit(t)
  <2> DEFINE i == First(Unused)
             d == [Rest EXCEPT !.at = "created", !.id = i]
  <2>1. i \in Id /\ ~session[i].made
    <3>1. Unused \in SUBSET Id /\ Unused # {}
      BY <1>6 DEF Unused, Admit
    <3>2. i \in Unused
      BY <3>1, FirstIsOneOf
    <3> QED
      BY <3>2 DEF Unused
  <2>2. /\ call' = [call EXCEPT ![t] = d]
        /\ session' = [session EXCEPT ![i] = NewSession]
        /\ listed' = listed \cup {i}
        /\ UNCHANGED <<clock, owner, told>>
    BY <1>6 DEF Admit
  <2>3. d \in Calls /\ d.at = "created" /\ d.id = i /\ d.todo = {}
    <3>1. "created" \in Points
      BY DEF Points
    <3> HIDE DEF i
    <3> QED
      BY <2>1, <3>1, RestFields DEF Calls
  <2>4. /\ NewSession \in SessionRecords
        /\ NewSession.made /\ ~NewSession.closed /\ NewSession.steps = 0
    BY <1>1 DEF NewSession, SessionRecords
  <2> HIDE DEF d, i
  <2>5. /\ session' \in [Id -> SessionRecords]
        /\ session'[i] = NewSession
        /\ \A j \in Id : j # i => session'[j] = session[j]
    BY <1>1, <2>1, <2>2, <2>4
  <2>6. GoodCall(d, t, session', listed', owner')
    BY <2>1, <2>3, <2>4, <2>5 DEF GoodCall
  <2>7. GoodSessions(session', listed', told')
    BY <1>1, <2>1, <2>2, <2>4, <2>5 DEF GoodSessions
  <2>8. \A j \in Id : owner[j] \in Thread \ {t} =>
           /\ session'[j].closed = session[j].closed
           /\ session'[j].steps = session[j].steps
    BY <1>1, <2>1, <2>4, <2>5 DEF GoodSessions, SessionRecords
  <2>9. /\ listed' \in SUBSET Id /\ told' \in SUBSET Id
        /\ owner' \in [Id -> Thread \cup {None}]
        /\ \A j \in listed' : j \in listed \/ ~session[j].made
        /\ \A j \in Id : session[j].made => session'[j].made
        /\ \A j \in Id : owner'[j] = owner[j]
    BY <1>1, <2>1, <2>2, <2>5
  <2> QED
    BY <2>2, <2>3, <2>5, <2>6, <2>7, <2>8, <2>9, StepKeepsInv
<1>7. CASE Refuse(t) \/ CreateFails(t)
  BY <1>7, AnswerKeepsInv DEF Refuse, CreateFails
<1>8. CASE CreateAnswer(t)
  <2>1. c.at = "created" /\ c.id \in Id /\ session[c.id].made
    BY <1>1, <1>8 DEF CreateAnswer, At, GoodCall
  <2>2. /\ told' = told \cup {c.id}
        /\ call' = [call EXCEPT ![t] = Rest]
        /\ UNCHANGED <<clock, listed, session, owner>>
    BY <1>8 DEF CreateAnswer, Answer
  <2>3. GoodSessions(session', listed', told') /\ told' \in SUBSET Id
    BY <1>1, <2>1, <2>2 DEF GoodSessions
  <2>4. GoodCall(Rest, t, session', listed', owner')
    BY RestFields, NothingToRelyOn
  <2>5. /\ listed' \in SUBSET Id
        /\ session' \in [Id -> SessionRecords]
        /\ owner' \in [Id -> Thread \cup {None}]
    BY <1>1, <2>2
  <2> QED
    BY <2>2, <2>3, <2>4, <2>5, RestFields, StepKeepsInv
<1> QED
  BY <1>2, <1>3, <1>4, <1>5, <1>6, <1>7, <1>8 DEF Create

\* A request that has the lock of a session, or gets it, is the only one, and
\* finds the session open.
LEMMA UseKeepsInv ==
  ASSUME Inv, NEW t \in Thread, Use(t)
  PROVE  Inv'
<1> DEFINE c == call[t]
           i == c.id
<1>1. /\ c \in Calls
      /\ c.todo \in SUBSET Id
      /\ call \in [Thread -> Calls]
      /\ GoodCall(c, t, session, listed, owner)
      /\ GoodSessions(session, listed, told)
      /\ listed \in SUBSET Id /\ told \in SUBSET Id
      /\ session \in [Id -> SessionRecords]
      /\ owner \in [Id -> Thread \cup {None}]
      /\ clock \in Nat
  BY DEF Inv, TypeOK, Calls
<1>2. i \in Id /\ session[i].made /\ session[i] \in SessionRecords
  BY <1>1 DEF Use, Touch, Advance, AdvanceFails, Show, At, GoodCall
<1>3. /\ listed' = listed /\ told' = told /\ clock' = clock
      /\ listed' \in SUBSET Id /\ told' \in SUBSET Id
  BY <1>1 DEF Use, Touch, Advance, AdvanceFails, Show
\* A step that only changes session i, which no other thread works on, to r.
<1>4. ASSUME NEW d \in Calls, NEW r \in SessionRecords,
             call' = [call EXCEPT ![t] = d],
             session' = [session EXCEPT ![i] = r],
             r.made, r.closed = session[i].closed,
             owner[i] = t \/ r.steps = session[i].steps,
             r.steps <= DayLength,
             owner' \in [Id -> Thread \cup {None}],
             \A j \in Id : owner[j] \in Thread \ {t} => owner'[j] = owner[j],
             GoodCall(d, t, session', listed', owner')
      PROVE  Inv'
  <2>1. /\ session' \in [Id -> SessionRecords]
        /\ session'[i] = r
        /\ \A j \in Id : j # i => session'[j] = session[j]
    BY <1>1, <1>2, <1>4
  <2>2. GoodSessions(session', listed', told')
    BY <1>1, <1>2, <1>3, <1>4, <2>1 DEF GoodSessions
  <2>3. \A j \in Id : owner[j] \in Thread \ {t} =>
           /\ session'[j].closed = session[j].closed
           /\ session'[j].steps = session[j].steps
    BY <1>4, <2>1
  <2>4. \A j \in Id : session[j].made => session'[j].made
    BY <1>4, <2>1
  <2> QED
    BY <1>3, <1>4, <2>1, <2>2, <2>3, <2>4, StepKeepsInv
<1>5. CASE Touch(t)
  <2> DEFINE r == [session[i] EXCEPT !.lastUsed =
                     IF session[i].closed THEN @ ELSE clock]
  <2>1. /\ owner[i] = None
        /\ session' = [session EXCEPT ![i] = r]
    BY <1>5 DEF Touch
  <2>2. /\ r \in SessionRecords
        /\ r.made = session[i].made /\ r.closed = session[i].closed
        /\ r.steps = session[i].steps /\ r.steps <= DayLength
    BY <1>1, <1>2 DEF SessionRecords, GoodSessions
  <2> HIDE DEF r
  <2>3. CASE Refused(t, i)
    <3>1. call' = [call EXCEPT ![t] = Rest] /\ owner' = owner
      BY <1>5, <2>3 DEF Touch, Answer
    <3>2. GoodCall(Rest, t, session', listed', owner')
      BY RestFields, NothingToRelyOn
    <3> QED
      BY <1>1, <1>2, <1>4, <2>1, <2>2, <3>1, <3>2, RestFields
  <2>4. CASE ~Refused(t, i)
    <3> DEFINE d == [c EXCEPT !.at = "running"]
    <3>1. /\ owner' = [owner EXCEPT ![i] = t]
          /\ call' = [call EXCEPT ![t] = d]
      BY <1>5, <2>4 DEF Touch, Goto
    <3>2. "running" \in Points
      BY DEF Points
    <3>3. /\ d \in Calls
          /\ d.at = "running" /\ d.id = i /\ d.left = c.left /\ d.todo = c.todo
      BY <1>1, <3>2, GotoFields
    <3> HIDE DEF d
    <3>4. /\ owner' \in [Id -> Thread \cup {None}]
          /\ owner'[i] = t
          /\ \A j \in Id : j # i => owner'[j] = owner[j]
      BY <1>1, <1>2, <3>1
    <3>5. /\ session'[i] = r
          /\ \A j \in Id : j # i => session'[j] = session[j]
      BY <1>1, <1>2, <2>1
    <3>6. /\ ~session[i].closed
          /\ c.at = "read" \/ (c.at = "step" /\ session[i].steps # DayLength)
      BY <1>5, <2>4 DEF Touch, Refused, At, Finished
    <3>7. c.left > 0 => session[i].steps < DayLength
      <4>1. session[i].steps \in Nat /\ session[i].steps <= DayLength
        BY <1>1, <1>2 DEF SessionRecords, GoodSessions
      <4> QED
        BY <1>1, <3>6, <4>1, StationAssumption DEF GoodCall
    <3>8. GoodCall(d, t, session', listed', owner')
      BY <1>1, <1>2, <2>2, <3>3, <3>4, <3>5, <3>6, <3>7 DEF GoodCall
    <3>9. \A j \in Id : owner[j] \in Thread \ {t} => owner'[j] = owner[j]
      BY <2>1, <3>4, StationAssumption
    <3> QED
      BY <1>2, <1>4, <2>1, <2>2, <3>1, <3>3, <3>4, <3>8, <3>9
  <2> QED
    BY <2>3, <2>4
<1>6. CASE Advance(t)
  <2> DEFINE r == [session[i] EXCEPT !.steps = @ + 1]
             n == IF session'[i].steps = DayLength THEN 0 ELSE c.left - 1
             d == [c EXCEPT !.left = n]
  <2>1. /\ c.at = "running" /\ c.left > 0
        /\ session' = [session EXCEPT ![i] = r]
        /\ call' = [call EXCEPT ![t] = d]
        /\ owner' = owner
    BY <1>6 DEF Advance, At
  <2>2. /\ owner[i] = t /\ ~session[i].closed
        /\ session[i].steps < DayLength /\ session[i].steps \in Nat
        /\ DayLength \in Nat
    BY <1>1, <1>2, <2>1, StationAssumption DEF GoodCall, SessionRecords
  <2>3. /\ r \in SessionRecords
        /\ r.made /\ r.closed = session[i].closed
        /\ r.steps = session[i].steps + 1 /\ r.steps <= DayLength
    BY <1>2, <2>2 DEF SessionRecords
  <2>4. session'[i] = r /\ \A j \in Id : j # i => session'[j] = session[j]
    BY <1>1, <1>2, <2>1
  <2>5. n \in Nat /\ (n > 0 => session'[i].steps < DayLength)
    BY <1>1, <2>1, <2>2, <2>3, <2>4 DEF Calls
  <2> HIDE DEF r, n
  <2>6. /\ d \in Calls
        /\ d.at = "running" /\ d.id = i /\ d.left = n /\ d.todo = c.todo
    BY <1>1, <2>1, <2>5 DEF Calls
  <2> HIDE DEF d
  <2>7. GoodCall(d, t, session', listed', owner')
    BY <1>1, <1>2, <2>1, <2>2, <2>3, <2>4, <2>5, <2>6 DEF GoodCall
  <2> QED
    BY <1>1, <1>4, <2>1, <2>2, <2>3, <2>6, <2>7
<1>7. CASE AdvanceFails(t) \/ Show(t)
  <2>1. /\ c.at = "running"
        /\ owner' = [owner EXCEPT ![i] = None]
        /\ call' = [call EXCEPT ![t] = Rest]
        /\ session' = session
    BY <1>7 DEF AdvanceFails, Show, Release, Answer, At
  <2>2. owner[i] = t
    BY <1>1, <2>1 DEF GoodCall
  <2>3. /\ owner' \in [Id -> Thread \cup {None}]
        /\ \A j \in Id : owner[j] \in Thread \ {t} => owner'[j] = owner[j]
    BY <1>1, <1>2, <2>1, <2>2
  <2>4. /\ session' = [session EXCEPT ![i] = session[i]]
        /\ session[i].steps <= DayLength
    BY <1>1, <1>2, <2>1 DEF GoodSessions
  <2>5. GoodCall(Rest, t, session', listed', owner')
    BY RestFields, NothingToRelyOn
  <2> QED
    BY <1>2, <1>4, <2>1, <2>3, <2>4, <2>5, RestFields
<1> QED
  BY <1>5, <1>6, <1>7 DEF Use

\* A thread that closes sessions has them off the list before.
LEMMA RetireKeepsInv ==
  ASSUME Inv, NEW t \in Thread, Retire(t)
  PROVE  Inv'
<1> DEFINE c == call[t]
<1>1. /\ c \in Calls
      /\ c.todo \in SUBSET Id
      /\ call \in [Thread -> Calls]
      /\ GoodCall(c, t, session, listed, owner)
      /\ GoodSessions(session, listed, told)
      /\ listed \in SUBSET Id /\ told \in SUBSET Id
      /\ session \in [Id -> SessionRecords]
      /\ owner \in [Id -> Thread \cup {None}]
      /\ clock \in Nat
  BY DEF Inv, TypeOK, Calls
\* The thread takes S, at least one session, off the list.
<1>2. ASSUME NEW S \in SUBSET listed, S # {},
             listed' = listed \ S,
             call' = [call EXCEPT ![t].at = "closing", ![t].todo = S],
             UNCHANGED <<clock, session, owner, told>>
      PROVE  Inv'
  <2> DEFINE d == [c EXCEPT !.at = "closing", !.todo = S]
  <2>1. /\ call' = [call EXCEPT ![t] = d]
        /\ d \in Calls
        /\ d.at = "closing" /\ d.todo = S
    BY <1>1, <1>2 DEF Calls, Points
  <2> HIDE DEF d
  <2>2. GoodCall(d, t, session', listed', owner')
    BY <1>1, <1>2, <2>1 DEF GoodCall, GoodSessions
  <2>3. GoodSessions(session', listed', told')
    BY <1>1, <1>2 DEF GoodSessions
  <2>4. /\ listed' \in SUBSET Id /\ listed' \subseteq listed
        /\ told' \in SUBSET Id
        /\ session' \in [Id -> SessionRecords]
        /\ owner' \in [Id -> Thread \cup {None}]
    BY <1>1, <1>2
  <2> QED
    BY <1>2, <2>1, <2>2, <2>3, <2>4, StepKeepsInv
<1>3. CASE Pop(t)
  <2>1. CASE c.id \in listed
    <3>1. call' = [call EXCEPT ![t].at = "closing", ![t].todo = {c.id}]
      BY <1>3, <2>1 DEF Pop, AfterPop
    <3> QED
      BY <1>2, <1>3, <2>1, <3>1 DEF Pop
  <2>2. CASE c.id \notin listed
    <3>1. Answer(t) /\ listed' = listed
      BY <1>1, <1>3, <2>2 DEF Pop, AfterPop
    <3> QED
      BY <1>3, <3>1, AnswerKeepsInv DEF Pop
  <2> QED
    BY <2>1, <2>2
<1>4. CASE TakeAll(t)
  <2>1. CASE listed = {}
    BY <1>4, <2>1, AnswerKeepsInv DEF TakeAll
  <2>2. CASE listed # {}
    <3>1. listed' = listed \ listed
      BY <1>4 DEF TakeAll
    <3> QED
      BY <1>2, <1>4, <2>2, <3>1 DEF TakeAll
  <2> QED
    BY <2>1, <2>2
<1>5. CASE CloseNext(t)
  <2> DEFINE i == First(c.todo)
  <2>1. c.at = "closing" /\ c.todo # {}
    BY <1>1, <1>5 DEF CloseNext, At, GoodCall
  <2>2. i \in c.todo /\ i \in Id
    BY <1>1, <2>1, FirstIsOneOf
  <2>3. session[i].made /\ i \notin listed
    BY <1>1, <2>1, <2>2 DEF GoodCall
  <2>4. /\ CloseSession(i)
        /\ UNCHANGED <<clock, listed, owner, told>>
    BY <1>5 DEF CloseNext
  <2>5. PICK d \in Calls :
          /\ call' = [call EXCEPT ![t] = d]
          /\ \/ d.at = "rest" /\ d.todo = {}
             \/ d.at = "closing" /\ d.todo = Later(c.todo) /\ d.todo # {}
    <3>1. CASE Later(c.todo) = {}
      BY <1>5, <3>1, RestFields DEF CloseNext, Answer
    <3>2. CASE Later(c.todo) # {}
      <4> DEFINE d == [c EXCEPT !.todo = Later(@)]
      <4>1. call' = [call EXCEPT ![t] = d]
        BY <1>5, <3>2 DEF CloseNext
      <4>2. d \in Calls /\ d.at = "closing" /\ d.todo = Later(c.todo)
        BY <1>1, <2>1 DEF Calls, Later
      <4> QED
        BY <3>2, <4>1, <4>2
    <3> QED
      BY <3>1, <3>2
  <2> HIDE DEF i
  <2>6. /\ session' \in [Id -> SessionRecords]
        /\ GoodSessions(session', listed, told)
        /\ \A j \in Id : /\ session'[j].made = session[j].made
                         /\ session'[j].steps = session[j].steps
                         /\ j # i => session'[j] = session[j]
        /\ owner[i] = None
    BY <2>2, <2>3, <2>4, CloseKeepsSessions
  <2>7. GoodCall(d, t, session', listed', owner')
    BY <1>1, <2>1, <2>4, <2>5, <2>6 DEF GoodCall, Later
  <2>8. \A j \in Id : owner[j] \in Thread \ {t} =>
          session'[j].closed = session[j].closed
    BY <2>6, StationAssumption
  <2>9. /\ listed' \in SUBSET Id /\ told' \in SUBSET Id
        /\ owner' \in [Id -> Thread \cup {None}]
        /\ GoodSessions(session', listed', told')
    BY <1>1, <2>4, <2>6
  <2> QED
    BY <2>4, <2>5, <2>6, <2>7, <2>8, <2>9, StepKeepsInv
<1> QED
  BY <1>3, <1>4, <1>5 DEF Retire

\* Every step keeps the invariant.
LEMMA NextKeepsInv == Inv /\ [Next]_vars => Inv'
<1> SUFFICES ASSUME Inv, [Next]_vars
             PROVE  Inv'
  OBVIOUS
<1>1. CASE TimePasses
  <2>1. UNCHANGED <<listed, session, owner, told, call>> /\ clock' \in Nat
    BY <1>1 DEF TimePasses, Inv, TypeOK
  <2> QED
    BY <2>1 DEF Inv, TypeOK
<1>2. ASSUME NEW t \in Thread, Arrive(t) \/ Serve(t)
      PROVE  Inv'
  BY <1>2, ArriveKeepsInv, CreateKeepsInv, UseKeepsInv, RetireKeepsInv DEF Serve
<1>3. CASE UNCHANGED vars
  BY <1>3 DEF vars, Inv, TypeOK
<1> QED
  BY <1>1, <1>2, <1>3 DEF Next

\* The invariant holds of the station (service.py).
THEOREM Invariance == Spec => []Inv
BY InitHolds, NextKeepsInv, PTL DEF Spec

\* A request that works on a session holds its lock, and nobody closes the
\* environment under it, whatever other threads delete, evict or shut down
\* ("waits out an in-flight step", service.py:291).
THEOREM NobodyClosesARunningSession == Spec => []NeverRunsClosed
<1>1. Inv => NeverRunsClosed
  BY DEF Inv, GoodCall, NeverRunsClosed, At
<1> QED
  BY <1>1, Invariance, PTL

-----------------------------------------------------------------------------
(* The refinement: what happens to the sessions, by module Sessions *)

Statuses == [i \in Id |-> Status(i)]
Days == [i \in Id |-> session[i].steps]

\* Nothing happens to the sessions of Sessions when no session is made, closed,
\* stepped or taken off the list.
LEMMA Stutters ==
  ASSUME listed' = listed,
         \A j \in Id : /\ session'[j].made = session[j].made
                       /\ session'[j].closed = session[j].closed
                       /\ session'[j].steps = session[j].steps
  PROVE  UNCHANGED <<Statuses, Days>>
BY DEF Statuses, Days, Status

\* Open sessions are the listed ones, so the limit is that of the list.
LEMMA OpenIsListed ==
  ASSUME Inv
  PROVE  Abstract!Open = listed
BY DEF Inv, TypeOK, GoodSessions, Abstract!Open, Status

\* Taking sessions off the list, by delete, eviction or shutdown, removes them.
LEMMA Removes ==
  ASSUME Inv, listed' \subseteq listed, session' = session
  PROVE  Abstract!Next
<1> DEFINE S == listed \ listed'
<1>1. S \in SUBSET Abstract!Open
  BY OpenIsListed
<1>2. \A j \in Id : Status(j)' = IF j \in S THEN "removed" ELSE Status(j)
  BY DEF Inv, TypeOK, GoodSessions, Status
<1>3. Abstract!Remove(S)
  <2>1. Days' = Days
    BY DEF Days
  <2> QED
    BY <1>2, <2>1 DEF Abstract!Remove, Days
<1> QED
  BY <1>1, <1>3 DEF Abstract!Next

\* Closing a session that is off the list closes it, or changes nothing if it is
\* closed already.
LEMMA Closes ==
  ASSUME Inv, NEW i \in Id, CloseSession(i), session[i].made, i \notin listed,
         listed' = listed
  PROVE  Abstract!Next \/ UNCHANGED <<Statuses, Days>>
<1>1. /\ \A j \in Id : /\ session'[j].made = session[j].made
                       /\ session'[j].steps = session[j].steps
                       /\ j # i => session'[j] = session[j]
      /\ session'[i].closed
  BY CloseKeepsSessions
<1>2. CASE session[i].closed
  BY <1>1, <1>2, Stutters DEF Inv, TypeOK, SessionRecords
<1>3. CASE ~session[i].closed
  <2>1. Days' = Days
    BY <1>1 DEF Days
  <2>2. Status(i) = "removed"
    BY <1>3 DEF Status
  <2>3. \A j \in Id : Status(j)' = IF j = i THEN "closed" ELSE Status(j)
    BY <1>1 DEF Status
  <2>4. Abstract!Close(i)
    BY <2>1, <2>2, <2>3 DEF Abstract!Close, Days
  <2> QED
    BY <2>4 DEF Abstract!Next
<1> QED
  BY <1>2, <1>3

\* A new session is opened under the limit.
LEMMA AdmitOpens ==
  ASSUME Inv, NEW t \in Thread, Admit(t)
  PROVE  Abstract!Next
<1>1. PICK i \in Id : i = First(Unused) /\ ~session[i].made
  <2>1. Unused \in SUBSET Id /\ Unused # {}
    BY DEF Unused, Admit
  <2>2. First(Unused) \in Unused
    BY <2>1, FirstIsOneOf
  <2> QED
    BY <2>2 DEF Unused
<1>2. /\ session' = [session EXCEPT ![i] = NewSession]
      /\ listed' = listed \cup {i}
      /\ Cardinality(listed) < MaxSessions
  BY <1>1 DEF Admit, HasRoom
<1>3. /\ session'[i] = NewSession
      /\ \A j \in Id : j # i => session'[j] = session[j]
  BY <1>1, <1>2 DEF Inv, TypeOK
<1>4. NewSession.made /\ ~NewSession.closed /\ NewSession.steps = 0
  BY DEF NewSession
<1>5. Status(i) = "new" /\ session[i].steps = 0
  BY <1>1 DEF Status, Inv, GoodSessions
<1>6. \A j \in Id : /\ Status(j)' = IF j = i THEN "open" ELSE Status(j)
                    /\ session'[j].steps = session[j].steps
  BY <1>1, <1>2, <1>3, <1>4, <1>5 DEF Status
<1>7. Abstract!Create(i)
  <2>1. Days' = Days
    BY <1>6 DEF Days
  <2>2. /\ Statuses[i] = "new"
        /\ Statuses' = [Statuses EXCEPT ![i] = "open"]
    BY <1>1, <1>5, <1>6 DEF Statuses
  <2>3. Abstract!Cardinality(Abstract!Open) < MaxSessions
    <3>1. Abstract!Cardinality(listed) = Cardinality(listed)
      BY Zenon DEF Cardinality, Abstract!Cardinality
    <3> QED
      BY <1>2, <3>1, OpenIsListed
  <2> QED
    BY <2>1, <2>2, <2>3 DEF Abstract!Create, Statuses, Days
<1> QED
  BY <1>1, <1>7 DEF Abstract!Next

\* A decision moves on the day of a session that is not closed.
LEMMA AdvancePlays ==
  ASSUME Inv, NEW t \in Thread, Advance(t)
  PROVE  Abstract!Next
<1>1. PICK i \in Id :
      /\ i = call[t].id /\ session[i].made /\ ~session[i].closed
      /\ session[i].steps < DayLength
      /\ session[i] \in SessionRecords
  <2>1. GoodCall(call[t], t, session, listed, owner) /\ call[t].at = "running"
        /\ call[t].left > 0
    BY DEF Inv, Advance, At
  <2> QED
    BY <2>1 DEF GoodCall, Inv, TypeOK
<1> DEFINE r == [session[i] EXCEPT !.steps = @ + 1]
<1>2. session' = [session EXCEPT ![i] = r] /\ listed' = listed
  BY <1>1 DEF Advance
<1>3. /\ r.made = session[i].made /\ r.closed = session[i].closed
      /\ r.steps = session[i].steps + 1
  BY <1>1 DEF SessionRecords
<1> HIDE DEF r
<1>4. session'[i] = r /\ \A j \in Id : j # i => session'[j] = session[j]
  BY <1>1, <1>2 DEF Inv, TypeOK
<1>5. \A j \in Id : Status(j)' = Status(j)
  BY <1>2, <1>3, <1>4 DEF Status
<1>6. Statuses' = Statuses
  BY <1>5 DEF Statuses
<1>7. Status(i) \in {"open", "removed"}
  BY <1>1 DEF Status
<1>8. Days' = [Days EXCEPT ![i] = @ + 1]
  BY <1>1, <1>3, <1>4 DEF Days
<1>9. Abstract!Play(i)
  BY <1>1, <1>6, <1>7, <1>8 DEF Abstract!Play, Statuses, Days
<1> QED
  BY <1>9 DEF Abstract!Next

\* Every step of the station is one of the sessions, or none.
LEMMA NextImplements ==
  ASSUME Inv, [Next]_vars
  PROVE  Abstract!Next \/ UNCHANGED <<Statuses, Days>>
<1>1. CASE UNCHANGED <<listed, session>>
  BY <1>1, Stutters
<1>2. CASE TimePasses \/ UNCHANGED vars
  BY <1>1, <1>2 DEF TimePasses, vars
<1>3. ASSUME NEW t \in Thread, Arrive(t)
      PROVE  Abstract!Next \/ UNCHANGED <<Statuses, Days>>
  BY <1>1, <1>3 DEF Arrive, CreateCall, UseCall, NotFound, DeleteCall,
                    ShutdownCall, Begin
<1>4. ASSUME NEW t \in Thread, Create(t)
      PROVE  Abstract!Next \/ UNCHANGED <<Statuses, Days>>
  <2>1. CASE EvictDrop(t)
    <3>1. listed' \subseteq listed /\ session' = session
      BY <2>1 DEF EvictDrop
    <3> QED
      BY <3>1, Removes
  <2>2. CASE EvictClose(t)
    <3> DEFINE i == First(call[t].todo)
    <3>1. /\ GoodCall(call[t], t, session, listed, owner)
          /\ call[t].todo \in SUBSET Id
          /\ call[t].at = "dropped"
      BY <2>2 DEF Inv, TypeOK, Calls, EvictClose, At
    <3>2. i \in call[t].todo
      BY <3>1, FirstIsOneOf DEF GoodCall
    <3>3. i \in Id /\ session[i].made /\ i \notin listed
      BY <3>1, <3>2 DEF GoodCall
    <3> QED
      BY <2>2, <3>3, Closes DEF EvictClose
  <2>3. CASE Admit(t)
    BY <2>3, AdmitOpens
  <2> QED
    BY <1>1, <1>4, <2>1, <2>2, <2>3
       DEF Create, CreateEnter, EvictLook, Refuse, CreateFails, CreateAnswer
<1>5. ASSUME NEW t \in Thread, Use(t)
      PROVE  Abstract!Next \/ UNCHANGED <<Statuses, Days>>
  <2>1. CASE Touch(t)
    <3> DEFINE i == call[t].id
               r == [session[i] EXCEPT !.lastUsed =
                       IF session[i].closed THEN @ ELSE clock]
    <3>1. i \in Id /\ session[i] \in SessionRecords
      BY <2>1 DEF Inv, TypeOK, GoodCall, Touch
    <3>2. session' = [session EXCEPT ![i] = r] /\ listed' = listed
      BY <2>1 DEF Touch
    <3>3. /\ r.made = session[i].made /\ r.closed = session[i].closed
          /\ r.steps = session[i].steps
      BY <3>1 DEF SessionRecords
    <3> HIDE DEF i, r
    <3>4. session'[i] = r /\ \A j \in Id : j # i => session'[j] = session[j]
      BY <3>1, <3>2 DEF Inv, TypeOK
    <3> QED
      BY <3>2, <3>3, <3>4, Stutters
  <2>2. CASE Advance(t)
    BY <2>2, AdvancePlays
  <2> QED
    BY <1>1, <1>5, <2>1, <2>2 DEF Use, AdvanceFails, Show
<1>6. ASSUME NEW t \in Thread, Retire(t)
      PROVE  Abstract!Next \/ UNCHANGED <<Statuses, Days>>
  <2>1. CASE Pop(t) \/ TakeAll(t)
    <3>1. listed' \subseteq listed /\ session' = session
      BY <2>1 DEF Pop, TakeAll
    <3> QED
      BY <3>1, Removes
  <2>2. CASE CloseNext(t)
    <3> DEFINE i == First(call[t].todo)
    <3>1. /\ GoodCall(call[t], t, session, listed, owner)
          /\ call[t].todo \in SUBSET Id
          /\ call[t].at = "closing"
      BY <2>2 DEF Inv, TypeOK, Calls, CloseNext, At
    <3>2. i \in call[t].todo
      BY <3>1, FirstIsOneOf DEF GoodCall
    <3>3. i \in Id /\ session[i].made /\ i \notin listed
      BY <3>1, <3>2 DEF GoodCall
    <3> QED
      BY <2>2, <3>3, Closes DEF CloseNext
  <2> QED
    BY <1>6, <2>1, <2>2 DEF Retire
<1> QED
  BY <1>2, <1>3, <1>4, <1>5, <1>6 DEF Next, Serve

\* The service with its threads, locks and races is the service that Sessions
\* promises: never more than max_sessions open, no session served again once
\* it is removed, days that advance decision by decision to the horizon and
\* stand still once the session is closed.
THEOREM Refinement == Spec => ImplementsSessions
<1>1. Init => Abstract!Init
  BY DEF Init, NoSession, Abstract!Init, Status
<1>2. Inv /\ [Next]_vars => [Abstract!Next]_<<Statuses, Days>>
  BY NextImplements
<1> QED
  BY <1>1, <1>2, Invariance, PTL
     DEF Spec, ImplementsSessions, Abstract!Spec, Statuses, Days
=============================================================================
