-------------------------- MODULE WebChannelProofs --------------------------
(***************************************************************************)
(* What WebChannel promises for any number of sessions, phones, accounts   *)
(* and events, and whatever the bounds: its variables keep their types, and*)
(* no phone is ever sent, buffers or shows an event of another account.    *)
(* Then the steps of three invariants that hold under conditions on the    *)
(* constants or on the subscribes in flight (RelayProofs puts them         *)
(* together): Relaying, that what is buffered or shown after the backfill  *)
(* is what was relayed since the subscribe; InOrder, that every history is *)
(* ordered; Exact, that without a pool a transcript misses nothing.        *)
(***************************************************************************)
EXTENDS WebChannel, RecursionLemmas, TLAPS

USE RelayAssumption

\* A sequence over a set is a sequence over any larger one.
LEMMA SeqMonotone ==
    ASSUME NEW A, NEW B, A \subseteq B
    PROVE  Seq(A) \subseteq Seq(B)
OBVIOUS

\* A function on 1 .. n is a sequence.
LEMMA FunctionIsSeq ==
    ASSUME NEW S, NEW n \in Nat, NEW f \in [1 .. n -> S]
    PROVE  f \in Seq(S)
BY SeqDef

\* What is stored of a batch, or notified of it, is part of it.
LEMMA PickType ==
    ASSUME NEW E, NEW events \in Seq(E), NEW N
    PROVE  Pick(events, N) \in Seq(E)
BY SubseqAtType DEF Pick

\* The newest part of a history is a history.
LEMMA NewestType ==
    ASSUME NEW E, NEW h \in Seq(E)
    PROVE  Newest(h) \in Seq(E)
<1>1. CASE Len(h) > HistoryLimit
  <2>1. Len(h) \in Nat /\ HistoryLimit \in Nat
    OBVIOUS
  <2>2. Len(h) - HistoryLimit + 1 \in 1 .. Len(h) + 1
    BY <1>1, <2>1
  <2>3. SubSeq(h, Len(h) - HistoryLimit + 1, Len(h)) \in Seq(E)
    BY <2>1, <2>2, SubSeqProperties
  <2>4. QED BY <1>1, <2>3 DEF Newest
<1>2. CASE ~(Len(h) > HistoryLimit)
  BY <1>2 DEF Newest
<1>3. QED BY <1>1, <1>2

\* The frames of a batch carry its events one by one under one session id.
Frames(S, E) == [type : {"history", "event", "notify"}, sid : S, events : Seq(E)]

\* A batch becomes frames of one event each.
LEMMA EventFramesType ==
    ASSUME NEW S, NEW E, NEW type, NEW s \in S, NEW events \in Seq(E),
           type \in {"event", "notify"}
    PROVE  EventFrames(type, s, events) \in Seq(Frames(S, E))
<1>1. ASSUME NEW i \in DOMAIN events
      PROVE  [type |-> type, sid |-> s, events |-> <<events[i]>>] \in Frames(S, E)
  <2>1. events[i] \in E BY <1>1
  <2>2. <<events[i]>> \in Seq(E) BY <2>1
  <2>3. QED BY <2>2 DEF Frames
<1>2. DOMAIN events = 1 .. Len(events) /\ Len(events) \in Nat
  OBVIOUS
<1>3. EventFrames(type, s, events) \in [1 .. Len(events) -> Frames(S, E)]
  BY <1>1, <1>2 DEF EventFrames
<1>4. QED BY <1>2, <1>3, FunctionIsSeq

\* Reading a frame keeps a transcript a transcript.
Transcripts(E) == [backfill : Seq(E), live : Seq(E)]

\* What the browser makes of a frame is again a transcript of both parts.
LEMMA ConsumeType ==
    ASSUME NEW S, NEW E, NEW t \in Transcripts(E), NEW f \in Frames(S, E), NEW s
    PROVE  Consume(t, f, s) \in Transcripts(E)
<1>1. <<>> \in Seq(E) /\ f.events \in Seq(E) /\ t.live \in Seq(E) /\ t.backfill \in Seq(E)
  BY DEF Transcripts, Frames
<1>2. t.live \o f.events \in Seq(E)
  BY <1>1, ConcatProperties
<1>3. CASE f.sid # s
  BY <1>3 DEF Consume
<1>4. CASE f.sid = s /\ f.type = "history"
  <2>1. Consume(t, f, s) = [backfill |-> f.events, live |-> <<>>]
    BY <1>4 DEF Consume
  <2>2. QED BY <1>1, <2>1 DEF Transcripts
<1>5. CASE f.sid = s /\ f.type = "event"
  <2>1. Consume(t, f, s) = [t EXCEPT !.live = @ \o f.events]
    BY <1>5 DEF Consume
  <2>2. QED BY <1>2, <2>1 DEF Transcripts
<1>6. CASE f.sid = s /\ f.type = "notify"
  BY <1>6 DEF Consume
<1>7. QED BY <1>3, <1>4, <1>5, <1>6 DEF Frames

\* The batch a POST carries holds consecutive events of its session.
LEMMA BatchType ==
    ASSUME NEW s, NEW k \in Nat, NEW m \in Nat
    PROVE  [i \in 1 .. k |-> [sid |-> s, n |-> m + i]] \in Seq([sid : {s}, n : Nat])
<1>1. [i \in 1 .. k |-> [sid |-> s, n |-> m + i]] \in [1 .. k -> [sid : {s}, n : Nat]]
  OBVIOUS
<1>2. QED BY <1>1, FunctionIsSeq


-----------------------------------------------------------------------------
(* The type invariant.                                                     *)

\* The variables start with values of their types.
LEMMA TypeInit == Init => TypeOK
<1>1. <<>> \in Seq(Event) /\ <<>> \in Seq(Sessions) /\ <<>> \in Seq(Frame)
  OBVIOUS
<1>2. Blank \in Transcript
  BY <1>1 DEF Blank, Transcript
<1>3. QED BY <1>1, <1>2 DEF Init, TypeOK

\* The worker's steps keep the types.
LEMMA TypeWorker == TypeOK /\ WorkerStep => TypeOK'
<1> SUFFICES ASSUME TypeOK, NEW s \in Sessions,
                    \/ \E k \in 1 .. MaxBatch : Relay(s, k)
                    \/ \E batch \in posts[s] : Persist(s, batch) \/ PersistFails(s, batch)
             PROVE  TypeOK'
  BY DEF WorkerStep
<1>1. ASSUME NEW k \in 1 .. MaxBatch, Relay(s, k) PROVE TypeOK'
  <2> DEFINE batch == [i \in 1 .. k |-> [sid |-> s, n |-> relayed[s] + i]]
  <2>1. k \in Nat /\ relayed[s] \in Nat
    BY DEF TypeOK
  <2>2. batch \in Seq(Event)
    <3>1. [sid : {s}, n : Nat] \subseteq Event BY DEF Event
    <3>2. batch \in Seq([sid : {s}, n : Nat]) BY <2>1, BatchType
    <3> HIDE DEF batch
    <3>3. QED BY <3>1, <3>2, SeqMonotone
  <2>3. /\ relayed' = [relayed EXCEPT ![s] = @ + k]
        /\ posts' = [posts EXCEPT ![s] = @ \cup {batch}]
        /\ pending' = [p \in Phones |->
              IF Watches(p, s) /\ pending[p] # Null
              THEN pending[p] \o batch ELSE pending[p]]
        /\ down' = [p \in Phones |->
              IF Watches(p, s) /\ pending[p] = Null
              THEN down[p] \o EventFrames("event", s, batch)
              ELSE IF Overhears(p, s)
              THEN down[p] \o EventFrames("notify", s, Pick(batch, Notes))
              ELSE down[p]]
        /\ UNCHANGED <<db, online, subscribed, handlers, since, up, open, shown>>
    BY <1>1 DEF Relay
  <2> HIDE DEF batch
  <2>4. relayed' \in [Sessions -> Nat]
    BY <2>1, <2>3 DEF TypeOK
  <2>5. posts' \in [Sessions -> SUBSET Seq(Event)]
    BY <2>2, <2>3 DEF TypeOK
  <2>6. pending' \in [Phones -> Seq(Event) \cup {Null}]
    <3>1. ASSUME NEW p \in Phones, pending[p] # Null
          PROVE  pending[p] \o batch \in Seq(Event)
      <4>1. pending[p] \in Seq(Event) BY <3>1 DEF TypeOK
      <4>2. QED BY <4>1, <2>2, ConcatProperties
    <3>2. QED BY <3>1, <2>3 DEF TypeOK
  <2>7. down' \in [Phones -> Seq(Frame)]
    <3>1. Frame = Frames(Sessions, Event) BY DEF Frame, Frames
    <3>2. EventFrames("event", s, batch) \in Seq(Frame)
      BY <2>2, <3>1, EventFramesType
    <3>3. EventFrames("notify", s, Pick(batch, Notes)) \in Seq(Frame)
      BY <2>2, <3>1, PickType, EventFramesType
    <3>4. ASSUME NEW p \in Phones, NEW q \in Seq(Frame)
          PROVE  down[p] \o q \in Seq(Frame)
      BY ConcatProperties DEF TypeOK
    <3>5. QED BY <2>3, <3>2, <3>3, <3>4 DEF TypeOK
  <2>8. QED BY <2>3, <2>4, <2>5, <2>6, <2>7 DEF TypeOK
<1>2. ASSUME NEW batch \in posts[s], Persist(s, batch) PROVE TypeOK'
  <2>1. batch \in Seq(Event) /\ db[s] \in Seq(Event)
    BY <1>2 DEF TypeOK
  <2>2. db[s] \o Pick(batch, Stored) \in Seq(Event)
    BY <2>1, PickType, ConcatProperties
  <2>3. Newest(db[s] \o Pick(batch, Stored)) \in Seq(Event)
    BY <2>2, NewestType
  <2>4. db' \in [Sessions -> Seq(Event)]
    BY <1>2, <2>2, <2>3 DEF TypeOK, Persist
  <2>5. posts' \in [Sessions -> SUBSET Seq(Event)]
    BY <1>2 DEF TypeOK, Persist
  <2>6. QED BY <1>2, <2>4, <2>5 DEF TypeOK, Persist, sockVars
<1>3. ASSUME NEW batch \in posts[s], PersistFails(s, batch) PROVE TypeOK'
  BY <1>3 DEF TypeOK, PersistFails, sockVars
<1>4. QED BY <1>1, <1>2, <1>3

\* The steps of the subscribe handlers keep the types.
LEMMA TypeSubscribe ==
    ASSUME TypeOK, NEW p \in Phones, SubscribeStep(p)
    PROVE  TypeOK'
<1>1. ASSUME HandleSubscribe(p) PROVE TypeOK'
  <2> DEFINE s == Head(up[p])
  <2>1. up[p] \in Seq(Sessions) /\ up[p] # <<>>
    BY <1>1 DEF TypeOK, HandleSubscribe, Buffering
  <2>2. s \in Sessions /\ Tail(up[p]) \in Seq(Sessions)
    BY <2>1, HeadTailProperties
  <2>3. up' \in [Phones -> Seq(Sessions)]
    BY <1>1, <2>2 DEF TypeOK, HandleSubscribe, Buffering
  <2>4. /\ handlers' \in [Phones -> [Slots -> Handler \cup {Null}]]
        /\ subscribed' \in [Phones -> Sessions \cup {Null}]
        /\ pending' \in [Phones -> Seq(Event) \cup {Null}]
    <3>1. CASE ~Owns(p, s)
      BY <1>1, <3>1 DEF TypeOK, HandleSubscribe, Buffering
    <3>2. CASE Owns(p, s)
      <4>1. PICK h \in Slots : handlers' = [handlers EXCEPT ![p][h] =
                                              [sid |-> s, snapshot |-> Null]]
        BY <1>1, <3>2 DEF HandleSubscribe, Buffering
      <4>2. [sid |-> s, snapshot |-> Null] \in Handler
        BY <2>2 DEF Handler
      <4>3. handlers' \in [Phones -> [Slots -> Handler \cup {Null}]]
        BY <4>1, <4>2 DEF TypeOK
      <4>4. subscribed' = [subscribed EXCEPT ![p] = s] /\ pending' = [pending EXCEPT ![p] = <<>>]
        BY <1>1, <3>2 DEF HandleSubscribe, Buffering
      <4>5. <<>> \in Seq(Event) OBVIOUS
      <4>6. QED BY <2>2, <4>3, <4>4, <4>5 DEF TypeOK
    <3>3. QED BY <3>1, <3>2
  <2>5. since' \in [Phones -> Nat]
    BY <1>1, <2>2 DEF TypeOK, HandleSubscribe
  <2>6. UNCHANGED <<relayed, posts, db, online, down, open, shown>>
    BY <1>1 DEF HandleSubscribe, serverVars
  <2>7. QED BY <2>3, <2>4, <2>5, <2>6 DEF TypeOK
<1>2. ASSUME NEW h \in Slots, QueryRuns(p, h) PROVE TypeOK'
  <2>1. handlers[p][h] \in Handler
    BY <1>2 DEF TypeOK, QueryRuns, Awaiting
  <2>2. Newest(db[handlers[p][h].sid]) \in Seq(Event)
    BY <2>1, NewestType DEF TypeOK, Handler
  <2>3. [handlers[p][h] EXCEPT !.snapshot = Newest(db[handlers[p][h].sid])] \in Handler
    BY <2>1, <2>2 DEF Handler
  <2>4. handlers' \in [Phones -> [Slots -> Handler \cup {Null}]]
    BY <1>2, <2>3 DEF TypeOK, QueryRuns
  <2>5. QED BY <1>2, <2>4 DEF TypeOK, QueryRuns, serverVars
<1>3. ASSUME NEW h \in Slots, QueryFails(p, h) PROVE TypeOK'
  <2>1. handlers' \in [Phones -> [Slots -> Handler \cup {Null}]]
    BY <1>3 DEF TypeOK, QueryFails
  <2>2. QED BY <1>3, <2>1 DEF TypeOK, QueryFails, serverVars
<1>4. ASSUME NEW h \in Slots, FinishSubscribe(p, h) PROVE TypeOK'
  <2> DEFINE s == handlers[p][h].sid
             b == handlers[p][h].snapshot
  <2>1. s \in Sessions /\ b \in Seq(Event)
    BY <1>4 DEF TypeOK, FinishSubscribe, Released, Answered, Handler
  <2>2. Frame = Frames(Sessions, Event) BY DEF Frame, Frames
  <2>3. Drained(p, s) \in Seq(Frame)
    <3>1. CASE pending[p] = Null BY <3>1 DEF Drained
    <3>2. CASE pending[p] # Null
      <4>1. pending[p] \in Seq(Event) BY <3>2 DEF TypeOK
      <4>2. EventFrames("event", s, pending[p]) \in Seq(Frame)
        BY <2>1, <2>2, <4>1, EventFramesType
      <4>3. QED BY <3>2, <4>2 DEF Drained
    <3>3. QED BY <3>1, <3>2
  <2>4. <<HistoryFrame(s, b)>> \in Seq(Frame)
    BY <2>1 DEF HistoryFrame, Frame
  <2>5. down[p] \o <<HistoryFrame(s, b)>> \o Drained(p, s) \in Seq(Frame)
    <3>1. down[p] \in Seq(Frame) BY DEF TypeOK
    <3>2. down[p] \o <<HistoryFrame(s, b)>> \in Seq(Frame)
      BY <2>4, <3>1, ConcatProperties
    <3>3. QED BY <2>3, <3>2, ConcatProperties
  <2>6. down' \in [Phones -> Seq(Frame)]
    <3>1. down' = [down EXCEPT ![p] =
                     @ \o <<HistoryFrame(s, b)>> \o Drained(p, s)]
      BY <1>4 DEF FinishSubscribe, Released
    <3>2. QED BY <2>5, <3>1 DEF TypeOK
  <2>7. /\ handlers' \in [Phones -> [Slots -> Handler \cup {Null}]]
        /\ pending' \in [Phones -> Seq(Event) \cup {Null}]
    BY <1>4 DEF TypeOK, FinishSubscribe, Released
  <2>8. QED BY <1>4, <2>6, <2>7 DEF TypeOK, FinishSubscribe, Released, serverVars
<1>5. QED BY <1>1, <1>2, <1>3, <1>4 DEF SubscribeStep

\* The steps of the browser keep the types.
LEMMA TypeBrowser ==
    ASSUME TypeOK, NEW p \in Phones, BrowserStep(p)
    PROVE  TypeOK'
<1>0. /\ <<>> \in Seq(Event) /\ <<>> \in Seq(Sessions) /\ <<>> \in Seq(Frame)
      /\ Blank \in Transcript
  BY DEF Blank, Transcript
<1>1. ASSUME Connect(p) PROVE TypeOK'
  <2>1. up' \in [Phones -> Seq(Sessions)]
    BY <1>0, <1>1 DEF TypeOK, Connect
  <2>2. online' \in [Phones -> BOOLEAN]
    BY <1>1 DEF TypeOK, Connect
  <2>3. QED BY <1>1, <2>1, <2>2 DEF TypeOK, Connect, serverVars
<1>2. ASSUME Disconnect(p) PROVE TypeOK'
  <2>1. /\ handlers' \in [Phones -> [Slots -> Handler \cup {Null}]]
        /\ pending' \in [Phones -> Seq(Event) \cup {Null}]
        /\ subscribed' \in [Phones -> Sessions \cup {Null}]
        /\ online' \in [Phones -> BOOLEAN]
    BY <1>2 DEF TypeOK, Disconnect
  <2>2. up' \in [Phones -> Seq(Sessions)] /\ down' \in [Phones -> Seq(Frame)]
    BY <1>0, <1>2 DEF TypeOK, Disconnect
  <2>3. QED BY <1>2, <2>1, <2>2 DEF TypeOK, Disconnect, serverVars
<1>3. ASSUME NEW s \in Sessions, OpenSession(p, s) PROVE TypeOK'
  <2>1. Append(up[p], s) \in Seq(Sessions)
    BY DEF TypeOK
  <2>2. up' \in [Phones -> Seq(Sessions)]
    BY <1>3, <2>1 DEF TypeOK, OpenSession
  <2>3. /\ open' \in [Phones -> Sessions \cup {Null}]
        /\ shown' \in [Phones -> Transcript]
    BY <1>0, <1>3 DEF TypeOK, OpenSession
  <2>4. QED BY <1>3, <2>2, <2>3 DEF TypeOK, OpenSession, serverVars, sockVars
<1>4. ASSUME CloseSession(p) PROVE TypeOK'
  <2>1. /\ open' \in [Phones -> Sessions \cup {Null}]
        /\ shown' \in [Phones -> Transcript]
    BY <1>0, <1>4 DEF TypeOK, CloseSession
  <2>2. QED BY <1>4, <2>1 DEF TypeOK, CloseSession, serverVars, sockVars
<1>5. ASSUME Deliver(p) PROVE TypeOK'
  <2>1. down[p] \in Seq(Frame) /\ down[p] # <<>>
    BY <1>5 DEF TypeOK, Deliver
  <2>2. Head(down[p]) \in Frame /\ Tail(down[p]) \in Seq(Frame)
    BY <2>1, HeadTailProperties
  <2>3. Frame = Frames(Sessions, Event) /\ Transcript = Transcripts(Event)
    BY DEF Frame, Frames, Transcript, Transcripts
  <2>4. Consume(shown[p], Head(down[p]), open[p]) \in Transcript
    BY <2>2, <2>3, ConsumeType DEF TypeOK
  <2>5. down' \in [Phones -> Seq(Frame)] /\ shown' \in [Phones -> Transcript]
    BY <1>5, <2>2, <2>4 DEF TypeOK, Deliver
  <2>6. QED BY <1>5, <2>5 DEF TypeOK, Deliver, serverVars, sockVars
<1>6. QED BY <1>1, <1>2, <1>3, <1>4, <1>5 DEF BrowserStep

\* Every step keeps the types, and so does a stutter.
LEMMA TypeStep == TypeOK /\ [Next]_vars => TypeOK'
<1>1. TypeOK /\ UNCHANGED vars => TypeOK'
  BY DEF TypeOK, vars, serverVars, sockVars
<1>2. QED BY <1>1, TypeWorker, TypeSubscribe, TypeBrowser DEF Next

\* The relay's variables keep their types for ever.
THEOREM TypeCorrect == Spec => []TypeOK
BY TypeInit, TypeStep, PTL DEF Spec

-----------------------------------------------------------------------------
(* Accounts stay apart.  Isolation is not inductive: a Persist could bring *)
(* another session's events into db[s], and a handler or a batch could     *)
(* carry foreign events before they reach a phone.  The invariant adds     *)
(* that every stored or posted event is filed under its own session, and   *)
(* states the rest as membership in sets built from a phone's own sessions.*)

Mine(p) == {s \in Sessions : Owns(p, s)}
Visible(p) == [sid : Mine(p), n : Nat]
EventsOf(s) == [sid : {s}, n : Nat]
OwnHandler(p) == [sid : Mine(p), snapshot : Seq(Visible(p)) \cup {Null}]

Filed == \A s \in Sessions : /\ db[s] \in Seq(EventsOf(s))
                             /\ posts[s] \subseteq Seq(EventsOf(s))

PhoneOwned(p) ==
    /\ subscribed[p] \in Mine(p) \cup {Null}
    /\ pending[p] \in Seq(Visible(p)) \cup {Null}
    /\ handlers[p] \in [Slots -> OwnHandler(p) \cup {Null}]
    /\ down[p] \in Seq(Frames(Mine(p), Visible(p)))
    /\ shown[p] \in Transcripts(Visible(p))

Owned == \A p \in Phones : PhoneOwned(p)

IInv == TypeOK /\ Filed /\ Owned

\* An own session's events are visible.
LEMMA OwnEventsVisible ==
    ASSUME NEW p \in Phones, NEW s \in Mine(p), NEW q \in Seq(EventsOf(s))
    PROVE  q \in Seq(Visible(p))
<1>1. EventsOf(s) \subseteq Visible(p)
  BY DEF EventsOf, Visible
<1>2. QED BY <1>1, SeqMonotone

\* Nothing is stored, sent or shown at the start.
LEMMA OwnedInit == Init => Filed /\ Owned
<1> SUFFICES ASSUME Init PROVE Filed /\ Owned
  OBVIOUS
<1>1. Filed BY DEF Init, Filed
<1>2. ASSUME NEW p \in Phones PROVE PhoneOwned(p)
  <2>1. Blank \in Transcripts(Visible(p)) BY DEF Blank, Transcripts
  <2>2. QED BY <2>1 DEF Init, PhoneOwned
<1>3. QED BY <1>1, <1>2 DEF Owned

\* The worker's steps file every event under its session and fan it out to
\* phones of its owner only.
LEMMA OwnedWorker == IInv /\ WorkerStep => Filed' /\ Owned'
<1> SUFFICES ASSUME IInv, NEW s \in Sessions,
                    \/ \E k \in 1 .. MaxBatch : Relay(s, k)
                    \/ \E batch \in posts[s] : Persist(s, batch) \/ PersistFails(s, batch)
             PROVE  Filed' /\ Owned'
  BY DEF WorkerStep
<1>1. ASSUME NEW k \in 1 .. MaxBatch, Relay(s, k) PROVE Filed' /\ Owned'
  <2> DEFINE batch == [i \in 1 .. k |-> [sid |-> s, n |-> relayed[s] + i]]
  <2>1. batch \in Seq(EventsOf(s))
    <3>1. k \in Nat /\ relayed[s] \in Nat BY DEF IInv, TypeOK
    <3>2. QED BY <3>1, BatchType DEF EventsOf
  <2>2. /\ posts' = [posts EXCEPT ![s] = @ \cup {batch}]
        /\ pending' = [p \in Phones |->
              IF Watches(p, s) /\ pending[p] # Null
              THEN pending[p] \o batch ELSE pending[p]]
        /\ down' = [p \in Phones |->
              IF Watches(p, s) /\ pending[p] = Null
              THEN down[p] \o EventFrames("event", s, batch)
              ELSE IF Overhears(p, s)
              THEN down[p] \o EventFrames("notify", s, Pick(batch, Notes))
              ELSE down[p]]
        /\ UNCHANGED <<db, online, subscribed, handlers, up, open, shown>>
    BY <1>1 DEF Relay
  <2> HIDE DEF batch
  <2>3. Filed'
    BY <2>1, <2>2 DEF IInv, TypeOK, Filed
  <2>4. ASSUME NEW p \in Phones PROVE PhoneOwned(p)'
    <3>0. PhoneOwned(p) BY DEF IInv, Owned
    <3>1. CASE ~Owns(p, s)
      <4>1. pending'[p] = pending[p] /\ down'[p] = down[p]
        BY <2>2, <3>1 DEF Watches, Overhears
      <4>2. QED BY <2>2, <3>0, <4>1 DEF PhoneOwned, OwnHandler, Mine, Visible, Owns
    <3>2. CASE Owns(p, s)
      <4>1. s \in Mine(p) /\ batch \in Seq(Visible(p))
        BY <2>1, <3>2, OwnEventsVisible DEF Mine
      <4>2. pending'[p] \in Seq(Visible(p)) \cup {Null}
        <5>1. ASSUME pending[p] # Null PROVE pending[p] \o batch \in Seq(Visible(p))
          <6>1. pending[p] \in Seq(Visible(p)) BY <3>0, <5>1 DEF PhoneOwned
          <6>2. QED BY <4>1, <6>1, ConcatProperties
        <5>2. pending'[p] = IF Watches(p, s) /\ pending[p] # Null
                            THEN pending[p] \o batch ELSE pending[p]
          BY <2>2
        <5>3. QED BY <3>0, <5>1, <5>2 DEF PhoneOwned
      <4>3. down'[p] \in Seq(Frames(Mine(p), Visible(p)))
        <5>1. EventFrames("event", s, batch) \in Seq(Frames(Mine(p), Visible(p)))
          BY <4>1, EventFramesType
        <5>2. EventFrames("notify", s, Pick(batch, Notes)) \in Seq(Frames(Mine(p), Visible(p)))
          BY <4>1, PickType, EventFramesType
        <5>3. ASSUME NEW q \in Seq(Frames(Mine(p), Visible(p)))
              PROVE  down[p] \o q \in Seq(Frames(Mine(p), Visible(p)))
          BY <3>0, ConcatProperties DEF PhoneOwned
        <5>4. down[p] \in Seq(Frames(Mine(p), Visible(p))) BY <3>0 DEF PhoneOwned
        <5>5. QED BY <2>2, <5>1, <5>2, <5>3, <5>4
      <4>4. QED BY <2>2, <3>0, <4>2, <4>3
                DEF PhoneOwned, OwnHandler, Mine, Visible, Owns
    <3>3. QED BY <3>1, <3>2
  <2>5. QED BY <2>3, <2>4 DEF Owned
<1>2. ASSUME NEW batch \in posts[s], Persist(s, batch) PROVE Filed' /\ Owned'
  <2>1. batch \in Seq(EventsOf(s)) /\ db[s] \in Seq(EventsOf(s))
    BY <1>2 DEF IInv, Filed
  <2>2. db[s] \o Pick(batch, Stored) \in Seq(EventsOf(s))
    BY <2>1, PickType, ConcatProperties
  <2>3. Newest(db[s] \o Pick(batch, Stored)) \in Seq(EventsOf(s))
    BY <2>2, NewestType
  <2>4. Filed'
    BY <1>2, <2>2, <2>3 DEF IInv, TypeOK, Filed, Persist
  <2>5. Owned'
    BY <1>2 DEF IInv, Owned, PhoneOwned, Persist, sockVars
  <2>6. QED BY <2>4, <2>5
<1>3. ASSUME NEW batch \in posts[s], PersistFails(s, batch) PROVE Filed' /\ Owned'
  <2>1. Filed' BY <1>3 DEF IInv, TypeOK, Filed, PersistFails
  <2>2. Owned' BY <1>3 DEF IInv, Owned, PhoneOwned, PersistFails, sockVars
  <2>3. QED BY <2>1, <2>2
<1>4. QED BY <1>1, <1>2, <1>3

\* A step of one phone leaves the others alone.
LEMMA OtherPhones ==
    ASSUME Owned, NEW p \in Phones, PhoneOwned(p)',
           \A q \in Phones \ {p} :
              /\ subscribed'[q] = subscribed[q] /\ pending'[q] = pending[q]
              /\ handlers'[q] = handlers[q] /\ down'[q] = down[q] /\ shown'[q] = shown[q]
    PROVE  Owned'
<1>1. ASSUME NEW q \in Phones \ {p} PROVE PhoneOwned(q)'
  BY DEF Owned, PhoneOwned, OwnHandler, Mine, Visible, Owns
<1>2. QED BY <1>1 DEF Owned

\* The steps of the subscribe handlers read and send a phone's own events only.
LEMMA OwnedSubscribe ==
    ASSUME IInv, NEW p \in Phones, SubscribeStep(p)
    PROVE  Filed' /\ Owned'
<1>0. PhoneOwned(p) /\ Owned /\ Filed /\ TypeOK
  BY DEF IInv, Owned
<1>1. ASSUME HandleSubscribe(p) PROVE Filed' /\ Owned'
  <2> DEFINE s == Head(up[p])
  <2>1. s \in Sessions
    BY <1>0, <1>1, HeadTailProperties DEF TypeOK, HandleSubscribe, Buffering
  <2>2. Filed' BY <1>0, <1>1 DEF Filed, HandleSubscribe, Buffering, serverVars
  <2>3. CASE ~Owns(p, s)
    BY <1>0, <1>1, <2>2, <2>3 DEF Owned, PhoneOwned, HandleSubscribe, Buffering
  <2>4. CASE Owns(p, s)
    <3>1. PICK h \in Slots : handlers' = [handlers EXCEPT ![p][h] =
                                            [sid |-> s, snapshot |-> Null]]
      BY <1>1, <2>4 DEF HandleSubscribe, Buffering
    <3>2. /\ subscribed' = [subscribed EXCEPT ![p] = s]
          /\ pending' = [pending EXCEPT ![p] = <<>>]
          /\ UNCHANGED <<down, shown>>
      BY <1>1, <2>4 DEF HandleSubscribe, Buffering
    <3>3. s \in Mine(p) BY <2>1, <2>4 DEF Mine
    <3>4. [sid |-> s, snapshot |-> Null] \in OwnHandler(p)
      BY <3>3 DEF OwnHandler
    <3>5. handlers'[p] \in [Slots -> OwnHandler(p) \cup {Null}]
      BY <1>0, <3>1, <3>4 DEF TypeOK, PhoneOwned
    <3>6. /\ subscribed'[p] \in Mine(p) \cup {Null}
          /\ pending'[p] \in Seq(Visible(p)) \cup {Null}
          /\ down'[p] \in Seq(Frames(Mine(p), Visible(p)))
          /\ shown'[p] \in Transcripts(Visible(p))
      BY <1>0, <3>2, <3>3 DEF TypeOK, PhoneOwned
    <3>7. PhoneOwned(p)'
      BY <3>5, <3>6 DEF PhoneOwned, OwnHandler, Mine, Visible, Owns
    <3>8. Owned'
      BY <1>0, <3>1, <3>2, <3>7, OtherPhones DEF TypeOK
    <3>9. QED BY <2>2, <3>8
  <2>5. QED BY <2>3, <2>4
<1>2. ASSUME NEW h \in Slots, QueryRuns(p, h) PROVE Filed' /\ Owned'
  <2> DEFINE s == handlers[p][h].sid
  <2>1. handlers[p][h] \in OwnHandler(p)
    BY <1>0, <1>2 DEF PhoneOwned, QueryRuns, Awaiting
  <2>2. s \in Mine(p) /\ s \in Sessions BY <2>1 DEF OwnHandler, Mine
  <2>3. Newest(db[s]) \in Seq(Visible(p))
    BY <1>0, <2>2, NewestType, OwnEventsVisible DEF Filed
  <2>4. [handlers[p][h] EXCEPT !.snapshot = Newest(db[s])] \in OwnHandler(p)
    BY <2>1, <2>3 DEF OwnHandler
  <2>5. handlers' = [handlers EXCEPT ![p][h] =
                       [handlers[p][h] EXCEPT !.snapshot = Newest(db[s])]]
    BY <1>0, <1>2 DEF TypeOK, QueryRuns
  <2>6. handlers'[p] \in [Slots -> OwnHandler(p) \cup {Null}]
    BY <1>0, <2>4, <2>5 DEF TypeOK, PhoneOwned
  <2>7. UNCHANGED <<posts, db, subscribed, pending, down, shown>>
    BY <1>2 DEF QueryRuns, serverVars
  <2>8. PhoneOwned(p)'
    BY <1>0, <2>6, <2>7 DEF PhoneOwned, OwnHandler, Mine, Visible, Owns
  <2>9. Owned' BY <1>0, <2>5, <2>7, <2>8, OtherPhones DEF TypeOK
  <2>10. QED BY <1>0, <2>7, <2>9 DEF Filed
<1>3. ASSUME NEW h \in Slots, QueryFails(p, h) PROVE Filed' /\ Owned'
  <2>1. /\ handlers' = [handlers EXCEPT ![p][h] = Null]
        /\ UNCHANGED <<posts, db, subscribed, pending, down, shown>>
    BY <1>3 DEF QueryFails, serverVars
  <2>2. PhoneOwned(p)'
    BY <1>0, <2>1 DEF TypeOK, PhoneOwned, OwnHandler, Mine, Visible, Owns
  <2>3. Owned' BY <1>0, <2>1, <2>2, OtherPhones DEF TypeOK
  <2>4. QED BY <1>0, <2>1, <2>3 DEF Filed
<1>4. ASSUME NEW h \in Slots, FinishSubscribe(p, h) PROVE Filed' /\ Owned'
  <2> DEFINE s == handlers[p][h].sid
             b == handlers[p][h].snapshot
             F == Frames(Mine(p), Visible(p))
  <2>1. s \in Mine(p) /\ b \in Seq(Visible(p))
    BY <1>0, <1>4 DEF PhoneOwned, FinishSubscribe, Released, Answered, OwnHandler
  <2>2. Drained(p, s) \in Seq(F)
    <3>1. CASE pending[p] = Null BY <3>1 DEF Drained
    <3>2. CASE pending[p] # Null
      <4>1. pending[p] \in Seq(Visible(p)) BY <1>0, <3>2 DEF PhoneOwned
      <4>2. EventFrames("event", s, pending[p]) \in Seq(F)
        BY <2>1, <4>1, EventFramesType
      <4>3. QED BY <3>2, <4>2 DEF Drained
    <3>3. QED BY <3>1, <3>2
  <2>3. <<HistoryFrame(s, b)>> \in Seq(F)
    BY <2>1 DEF HistoryFrame, Frames
  <2>4. down[p] \o <<HistoryFrame(s, b)>> \o Drained(p, s) \in Seq(F)
    <3>1. down[p] \in Seq(F) BY <1>0 DEF PhoneOwned
    <3>2. down[p] \o <<HistoryFrame(s, b)>> \in Seq(F)
      BY <2>3, <3>1, ConcatProperties
    <3>3. QED BY <2>2, <3>2, ConcatProperties
  <2>5. down' = [down EXCEPT ![p] = @ \o <<HistoryFrame(s, b)>> \o Drained(p, s)]
    BY <1>4 DEF FinishSubscribe, Released
  <2>6. down'[p] \in Seq(F) BY <1>0, <2>4, <2>5 DEF TypeOK
  <2>7. /\ handlers' = [handlers EXCEPT ![p][h] = Null]
        /\ pending' = [pending EXCEPT ![p] = Null]
        /\ UNCHANGED <<posts, db, subscribed, shown>>
    BY <1>4 DEF FinishSubscribe, Released, serverVars
  <2>8. PhoneOwned(p)'
    BY <1>0, <2>6, <2>7 DEF TypeOK, PhoneOwned, OwnHandler, Mine, Visible, Owns
  <2>9. Owned' BY <1>0, <2>5, <2>7, <2>8, OtherPhones DEF TypeOK
  <2>10. QED BY <1>0, <2>7, <2>9 DEF Filed
<1>5. QED BY <1>1, <1>2, <1>3, <1>4 DEF SubscribeStep

\* The browser shows what it is sent and asks for what it likes.
LEMMA OwnedBrowser ==
    ASSUME IInv, NEW p \in Phones, BrowserStep(p)
    PROVE  Filed' /\ Owned'
<1>0. PhoneOwned(p) /\ Owned /\ Filed /\ TypeOK /\ Blank \in Transcripts(Visible(p))
  BY DEF IInv, Owned, Blank, Transcripts
<1>1. ASSUME Connect(p) PROVE Filed' /\ Owned'
  <2>1. UNCHANGED <<posts, db, subscribed, pending, handlers, down, shown>>
    BY <1>1 DEF Connect, serverVars
  <2>2. QED BY <1>0, <2>1 DEF Filed, Owned, PhoneOwned, OwnHandler, Mine, Visible, Owns
<1>2. ASSUME Disconnect(p) PROVE Filed' /\ Owned'
  <2>1. /\ subscribed' = [subscribed EXCEPT ![p] = Null]
        /\ pending' = [pending EXCEPT ![p] = Null]
        /\ handlers' = [handlers EXCEPT ![p] = [h \in Slots |-> Null]]
        /\ down' = [down EXCEPT ![p] = <<>>]
        /\ UNCHANGED <<posts, db, shown>>
    BY <1>2 DEF Disconnect, serverVars
  <2>2. PhoneOwned(p)'
    <3>1. /\ subscribed'[p] = Null /\ pending'[p] = Null
          /\ handlers'[p] = [h \in Slots |-> Null]
          /\ down'[p] = <<>> /\ shown'[p] = shown[p]
      BY <1>0, <2>1 DEF TypeOK
    <3>2. QED BY <1>0, <3>1 DEF PhoneOwned, OwnHandler, Mine, Visible, Owns
  <2>3. Owned' BY <1>0, <2>1, <2>2, OtherPhones DEF TypeOK
  <2>4. QED BY <1>0, <2>1, <2>3 DEF Filed
<1>3. ASSUME NEW s \in Sessions, OpenSession(p, s) PROVE Filed' /\ Owned'
  <2>1. /\ shown' = [shown EXCEPT ![p] = Blank]
        /\ UNCHANGED <<posts, db, subscribed, pending, handlers, down>>
    BY <1>3 DEF OpenSession, serverVars, sockVars
  <2>2. PhoneOwned(p)'
    BY <1>0, <2>1 DEF TypeOK, PhoneOwned, OwnHandler, Mine, Visible, Owns
  <2>3. Owned' BY <1>0, <2>1, <2>2, OtherPhones DEF TypeOK
  <2>4. QED BY <1>0, <2>1, <2>3 DEF Filed
<1>4. ASSUME CloseSession(p) PROVE Filed' /\ Owned'
  <2>1. /\ shown' = [shown EXCEPT ![p] = Blank]
        /\ UNCHANGED <<posts, db, subscribed, pending, handlers, down>>
    BY <1>4 DEF CloseSession, serverVars, sockVars
  <2>2. PhoneOwned(p)'
    BY <1>0, <2>1 DEF TypeOK, PhoneOwned, OwnHandler, Mine, Visible, Owns
  <2>3. Owned' BY <1>0, <2>1, <2>2, OtherPhones DEF TypeOK
  <2>4. QED BY <1>0, <2>1, <2>3 DEF Filed
<1>5. ASSUME Deliver(p) PROVE Filed' /\ Owned'
  <2> DEFINE f == Head(down[p])
  <2>1. /\ shown' = [shown EXCEPT ![p] = Consume(@, f, open[p])]
        /\ down' = [down EXCEPT ![p] = Tail(@)]
        /\ down[p] # <<>>
        /\ UNCHANGED <<posts, db, subscribed, pending, handlers>>
    BY <1>5 DEF Deliver, serverVars, sockVars
  <2>2. down[p] \in Seq(Frames(Mine(p), Visible(p))) /\ shown[p] \in Transcripts(Visible(p))
    BY <1>0 DEF PhoneOwned
  <2>3. f \in Frames(Mine(p), Visible(p)) /\ Tail(down[p]) \in Seq(Frames(Mine(p), Visible(p)))
    BY <2>1, <2>2, HeadTailProperties
  <2>4. Consume(shown[p], f, open[p]) \in Transcripts(Visible(p))
    BY <2>2, <2>3, ConsumeType
  <2>5. PhoneOwned(p)'
    BY <1>0, <2>1, <2>3, <2>4 DEF TypeOK, PhoneOwned, OwnHandler, Mine, Visible, Owns
  <2>6. Owned' BY <1>0, <2>1, <2>5, OtherPhones DEF TypeOK
  <2>7. QED BY <1>0, <2>1, <2>6 DEF Filed
<1>6. QED BY <1>1, <1>2, <1>3, <1>4, <1>5 DEF BrowserStep

\* The strengthened invariant is inductive.
LEMMA OwnedStep == IInv /\ [Next]_vars => IInv'
<1>1. IInv /\ UNCHANGED vars => Filed' /\ Owned'
  BY DEF IInv, Filed, Owned, PhoneOwned, OwnHandler, Mine, Visible, Owns,
         vars, serverVars, sockVars
<1>2. IInv /\ [Next]_vars => Filed' /\ Owned'
  BY <1>1, OwnedWorker, OwnedSubscribe, OwnedBrowser DEF Next
<1>3. QED BY <1>2, TypeStep DEF IInv

\* It is at least as strong as the property the runs check.
LEMMA OwnedImpliesIsolation == IInv => Isolation
<1> SUFFICES ASSUME IInv, NEW p \in Phones
             PROVE  /\ subscribed[p] # Null => Owns(p, subscribed[p])
                    /\ pending[p] # Null => OwnEvents(p, pending[p])
                    /\ \A h \in Slots : Answered(p, h) => OwnEvents(p, handlers[p][h].snapshot)
                    /\ \A i \in DOMAIN down[p] : /\ Owns(p, down[p][i].sid)
                                                 /\ OwnEvents(p, down[p][i].events)
                    /\ OwnEvents(p, shown[p].backfill) /\ OwnEvents(p, shown[p].live)
  BY DEF Isolation
<1>1. PhoneOwned(p) BY DEF IInv, Owned
<1>2. ASSUME NEW q \in Seq(Visible(p)) PROVE OwnEvents(p, q)
  <2>1. ASSUME NEW i \in DOMAIN q PROVE Owns(p, q[i].sid)
    <3>1. q[i] \in Visible(p) BY <2>1
    <3>2. QED BY <3>1 DEF Visible, Mine
  <2>2. QED BY <2>1 DEF OwnEvents
<1>3. subscribed[p] # Null => Owns(p, subscribed[p])
  BY <1>1 DEF PhoneOwned, Mine
<1>4. pending[p] # Null => OwnEvents(p, pending[p])
  BY <1>1, <1>2 DEF PhoneOwned
<1>5. ASSUME NEW h \in Slots, Answered(p, h)
      PROVE  OwnEvents(p, handlers[p][h].snapshot)
  BY <1>1, <1>2, <1>5 DEF PhoneOwned, OwnHandler, Answered
<1>6. ASSUME NEW i \in DOMAIN down[p]
      PROVE  Owns(p, down[p][i].sid) /\ OwnEvents(p, down[p][i].events)
  <2>1. down[p][i] \in Frames(Mine(p), Visible(p))
    BY <1>1 DEF PhoneOwned
  <2>2. QED BY <1>2, <2>1 DEF Frames, Mine
<1>7. OwnEvents(p, shown[p].backfill) /\ OwnEvents(p, shown[p].live)
  BY <1>1, <1>2 DEF PhoneOwned, Transcripts
<1>8. QED BY <1>3, <1>4, <1>5, <1>6, <1>7

\* No phone is ever sent, buffers or shows an event of another account.
THEOREM AccountsIsolated == Spec => []Isolation
<1>1. Init => IInv BY TypeInit, OwnedInit DEF IInv
<1>2. QED BY <1>1, OwnedStep, OwnedImpliesIsolation, PTL DEF Spec

-----------------------------------------------------------------------------
(* What a browser shows once it has read some frames.                      *)

HIDE RelayAssumption

\* The transcripts shown on the way, frame by frame.
Showing(f, t, frames, s) ==
    /\ f[0] = t
    /\ \A i \in 1 .. Len(frames) : f[i] = Consume(f[i - 1], frames[i], s)

\* There is such a sequence of transcripts.
LEMMA ReadingSteps ==
    ASSUME NEW S, NEW E, NEW t \in Transcripts(E), NEW frames \in Seq(Frames(S, E)), NEW s
    PROVE  \E f \in [0 .. Len(frames) -> Transcripts(E)] :
              Showing(f, t, frames, s) /\ Reading(t, frames, s) = f[Len(frames)]
<1> DEFINE IsShows(f, L) == f = [i \in 0 .. L |-> IF i = 0 THEN t ELSE Consume(f[i - 1], frames[i], s)]
<1>1. PICK L \in Nat : L = Len(frames)
  OBVIOUS
<1>2. \A i \in 1 .. L : frames[i] \in Frames(S, E)
  BY <1>1
<1>3. \E f : IsShows(f, L)
  <2> DEFINE T == Transcripts(E)
             g == [x \in (1 .. L) \X T |-> Consume(x[2], frames[x[1]], s)]
  <2>1. g \in [(1 .. L) \X T -> T]
    <3>1. ASSUME NEW x \in (1 .. L) \X T PROVE Consume(x[2], frames[x[1]], s) \in T
      <4>1. x[1] \in 1 .. L /\ x[2] \in T BY <3>1
      <4>2. frames[x[1]] \in Frames(S, E) BY <1>2, <4>1
      <4> HIDE DEF T
      <4>3. QED BY <4>1, <4>2, ConsumeType DEF T
    <3> HIDE DEF T
    <3>2. QED BY <3>1
  <2>2. ASSUME NEW i \in 1 .. L, NEW q \in T PROVE g[<<i, q>>] = Consume(q, frames[i], s)
    <3> HIDE DEF T
    <3>1. <<i, q>> \in (1 .. L) \X T OBVIOUS
    <3>2. QED BY <3>1
  <2> HIDE DEF T, g
  <2>3. PICK f : Recursion(f, T, L, t, g)
    <3>1. t \in T BY DEF T
    <3>2. QED BY <1>1, <2>1, <3>1, PrimitiveRecursion
  <2>4. ASSUME NEW i \in 1 .. L PROVE f[i] = Consume(f[i - 1], frames[i], s)
    <3>1. i - 1 \in 0 .. L BY <1>1
    <3>2. f[i - 1] \in T BY <3>1, <2>3 DEF Recursion
    <3>3. QED BY <2>2, <2>3, <3>2 DEF Recursion
  <2>5. ASSUME NEW i \in 0 .. L
        PROVE  f[i] = IF i = 0 THEN t ELSE Consume(f[i - 1], frames[i], s)
    <3>1. CASE i = 0 BY <2>3, <3>1 DEF Recursion
    <3>2. CASE i # 0
      <4>1. i \in 1 .. L BY <1>1, <3>2
      <4>2. QED BY <2>4, <4>1, <3>2
    <3>3. QED BY <3>1, <3>2
  <2>6. f = [i \in 0 .. L |-> f[i]]
    BY <2>3 DEF Recursion
  <2>7. QED BY <2>5, <2>6
<1> DEFINE shows == CHOOSE f : IsShows(f, L)
<1>4. IsShows(shows, L)
  <2> HIDE DEF IsShows
  <2>1. QED BY <1>3
<1>5. Reading(t, frames, s) = shows[L]
  BY <1>1 DEF Reading
<1> HIDE DEF shows
<1>6. ASSUME NEW i \in 0 .. L
      PROVE  shows[i] = IF i = 0 THEN t ELSE Consume(shows[i - 1], frames[i], s)
  BY <1>4, Zenon
<1>7. shows = [i \in 0 .. L |-> shows[i]]
  BY <1>4
<1> HIDE DEF IsShows
<1>8. shows[0] = t
  BY <1>1, <1>6
<1>9. \A i \in 1 .. L : shows[i] = Consume(shows[i - 1], frames[i], s)
  BY <1>1, <1>6
<1> DEFINE Good == {i \in 0 .. L : shows[i] \in Transcripts(E)}
<1>10. \A i \in 1 .. L : i - 1 \in Good => i \in Good
  <2>1. ASSUME NEW i \in 1 .. L, shows[i - 1] \in Transcripts(E) PROVE shows[i] \in Transcripts(E)
    BY <1>2, <1>9, <2>1, ConsumeType
  <2>2. QED BY <1>1, <2>1
<1>11. 0 \in Good
  BY <1>1, <1>8
<1>12. 0 .. L \subseteq Good
  <2> HIDE DEF Good
  <2>1. QED BY <1>1, <1>10, <1>11, UpTo
<1>13. shows \in [0 .. L -> Transcripts(E)]
  BY <1>7, <1>12
<1>14. Showing(shows, t, frames, s)
  BY <1>1, <1>8, <1>9 DEF Showing
<1>15. QED BY <1>1, <1>5, <1>13, <1>14

\* ... and no other.
LEMMA ReadingIs ==
    ASSUME NEW S, NEW E, NEW t \in Transcripts(E), NEW frames \in Seq(Frames(S, E)), NEW s,
           NEW f, Showing(f, t, frames, s)
    PROVE  Reading(t, frames, s) = f[Len(frames)]
<1>1. PICK h \in [0 .. Len(frames) -> Transcripts(E)] :
         Showing(h, t, frames, s) /\ Reading(t, frames, s) = h[Len(frames)]
  BY ReadingSteps
<1>2. PICK L \in Nat : L = Len(frames)
  OBVIOUS
<1> DEFINE Same == {i \in 0 .. L : f[i] = h[i]}
<1>3. 0 \in Same
  BY <1>1, <1>2 DEF Showing
<1>4. \A i \in 1 .. L : i - 1 \in Same => i \in Same
  BY <1>1, <1>2 DEF Showing
<1>5. 0 .. L \subseteq Same
  <2> HIDE DEF Same
  <2>1. QED BY <1>2, <1>3, <1>4, UpTo
<1>6. L \in Same
  BY <1>2, <1>5
<1>7. QED BY <1>1, <1>2, <1>6

\* Reading keeps a transcript a transcript.
LEMMA ReadingType ==
    ASSUME NEW S, NEW E, NEW t \in Transcripts(E), NEW frames \in Seq(Frames(S, E)), NEW s
    PROVE  Reading(t, frames, s) \in Transcripts(E)
<1>1. PICK f \in [0 .. Len(frames) -> Transcripts(E)] : Reading(t, frames, s) = f[Len(frames)]
  BY ReadingSteps
<1>2. Len(frames) \in 0 .. Len(frames)
  OBVIOUS
<1>3. QED BY <1>1, <1>2

\* Frames are read one after the other.
LEMMA ReadingConcat ==
    ASSUME NEW S, NEW E, NEW t \in Transcripts(E), NEW fs \in Seq(Frames(S, E)),
           NEW gs \in Seq(Frames(S, E)), NEW s
    PROVE  Reading(t, fs \o gs, s) = Reading(Reading(t, fs, s), gs, s)
<1>1. PICK m \in Nat, n \in Nat : m = Len(fs) /\ n = Len(gs)
  OBVIOUS
<1>2. PICK hs : hs = fs \o gs
  OBVIOUS
<1>3. /\ hs \in Seq(Frames(S, E)) /\ Len(hs) = m + n
      /\ \A i \in 1 .. m : hs[i] = fs[i]
      /\ \A i \in 1 .. n : hs[m + i] = gs[i]
  BY <1>1, <1>2
<1>4. PICK f \in [0 .. m + n -> Transcripts(E)] :
         Showing(f, t, hs, s) /\ Reading(t, hs, s) = f[m + n]
  <2>1. \E f \in [0 .. Len(hs) -> Transcripts(E)] :
           Showing(f, t, hs, s) /\ Reading(t, hs, s) = f[Len(hs)]
    <3>1. hs \in Seq(Frames(S, E))
      BY <1>3
    <3>2. QED BY ONLY <3>1, ReadingSteps, t \in Transcripts(E)
  <2>2. QED BY <1>3, <2>1
<1>5. Reading(t, fs, s) = f[m]
  <2>1. Showing(f, t, fs, s)
    BY <1>1, <1>3, <1>4 DEF Showing
  <2>2. QED BY <1>1, <2>1, ReadingIs
<1> DEFINE g == [i \in 0 .. n |-> f[m + i]]
<1>6. Showing(g, f[m], gs, s)
  <2>1. g[0] = f[m]
    BY <1>1
  <2>2. ASSUME NEW i \in 1 .. n PROVE g[i] = Consume(g[i - 1], gs[i], s)
    <3>1. m + i \in 1 .. m + n /\ m + i - 1 = m + (i - 1) /\ i - 1 \in 0 .. n /\ i \in 0 .. n
      BY <1>1
    <3>2. f[m + i] = Consume(f[m + i - 1], hs[m + i], s)
      BY <1>3, <1>4, <3>1 DEF Showing
    <3>3. QED BY <1>3, <3>1, <3>2
  <2>3. QED BY <1>1, <2>1, <2>2 DEF Showing
<1>7. f[m] \in Transcripts(E) /\ g[n] = f[m + n]
  BY <1>1, <1>4
<1> HIDE DEF g
<1>8. Reading(f[m], gs, s) = g[n]
  BY <1>1, <1>6, <1>7, ReadingIs
<1>9. QED BY <1>2, <1>4, <1>5, <1>7, <1>8

\* One frame, the first, the last.
LEMMA ReadingOne ==
    ASSUME NEW S, NEW E, NEW t \in Transcripts(E), NEW f \in Frames(S, E), NEW s
    PROVE  Reading(t, <<f>>, s) = Consume(t, f, s)
<1> DEFINE g == [i \in 0 .. 1 |-> IF i = 0 THEN t ELSE Consume(t, f, s)]
<1>1. PICK fs : fs = <<f>>
  OBVIOUS
<1>2. fs \in Seq(Frames(S, E)) /\ Len(fs) = 1 /\ fs[1] = f
  BY <1>1
<1>3. g[0] = t /\ g[1] = Consume(t, f, s)
  OBVIOUS
<1> HIDE DEF g
<1>4. Showing(g, t, fs, s)
  BY <1>2, <1>3 DEF Showing
<1>5. Reading(t, fs, s) = g[1]
  <2>1. fs \in Seq(Frames(S, E))
    BY <1>2
  <2>2. Reading(t, fs, s) = g[Len(fs)]
    BY ONLY <1>4, <2>1, ReadingIs, t \in Transcripts(E)
  <2>3. QED BY <1>2, <2>2
<1>6. QED BY <1>1, <1>3, <1>5

\* A browser that has read everything shows what it shows.
LEMMA ReadingNone ==
    ASSUME NEW E, NEW t \in Transcripts(E), NEW s
    PROVE  Reading(t, <<>>, s) = t
<1> DEFINE g == [i \in 0 .. 0 |-> t]
<1>1. PICK fs : fs = <<>>
  OBVIOUS
<1>2. fs \in Seq(Frames({}, E)) /\ Len(fs) = 0
  BY <1>1
<1>3. g[0] = t
  OBVIOUS
<1> HIDE DEF g
<1>4. Showing(g, t, fs, s)
  BY <1>2, <1>3 DEF Showing
<1>5. Reading(t, fs, s) = g[0]
  <2>1. fs \in Seq(Frames({}, E))
    BY <1>2
  <2>2. Reading(t, fs, s) = g[Len(fs)]
    BY ONLY <1>4, <2>1, ReadingIs, t \in Transcripts(E)
  <2>3. QED BY <1>2, <2>2
<1>6. QED BY <1>1, <1>3, <1>5

\* The first frame is read before the others (onmessage, one frame at a time).
LEMMA ReadingFirst ==
    ASSUME NEW S, NEW E, NEW t \in Transcripts(E), NEW fs \in Seq(Frames(S, E)), fs # <<>>, NEW s
    PROVE  Reading(t, fs, s) = Reading(Consume(t, Head(fs), s), Tail(fs), s)
<1>1. PICK f, gs, one : f = Head(fs) /\ gs = Tail(fs) /\ one = <<f>>
  OBVIOUS
<1>2. f \in Frames(S, E) /\ gs \in Seq(Frames(S, E)) /\ one \in Seq(Frames(S, E))
  BY <1>1
<1>3. fs = one \o gs
  BY <1>1
<1>4. Reading(t, one, s) = Consume(t, f, s)
  BY <1>1, <1>2, ReadingOne
<1>5. Reading(t, one \o gs, s) = Reading(Reading(t, one, s), gs, s)
  BY <1>2, ReadingConcat
<1>6. QED BY <1>1, <1>3, <1>4, <1>5

\* Live events are shown after the others, in their order.
LEMMA ReadingEvents ==
    ASSUME NEW S, NEW E, NEW s \in S, NEW t \in Transcripts(E), NEW events \in Seq(E)
    PROVE  /\ Reading(t, EventFrames("event", s, events), s).backfill = t.backfill
           /\ Reading(t, EventFrames("event", s, events), s).live = t.live \o events
<1>0. PICK n \in Nat : n = Len(events)
  OBVIOUS
<1>1. PICK frames : frames = EventFrames("event", s, events) /\ n = Len(events)
  BY <1>0
<1>2. /\ frames \in Seq(Frames(S, E)) /\ Len(frames) = n
      /\ \A i \in 1 .. n : frames[i] = [type |-> "event", sid |-> s, events |-> <<events[i]>>]
  <2>1. frames \in Seq(Frames(S, E))
    BY <1>1, EventFramesType
  <2>2. QED BY <1>1, <2>1 DEF EventFrames
<1>3. t.live \in Seq(E) /\ t.backfill \in Seq(E)
  BY DEF Transcripts
<1> DEFINE f == [i \in 0 .. n |-> [backfill |-> t.backfill, live |-> t.live \o SubSeq(events, 1, i)]]
<1>4. f[0] = t
  <2>1. SubSeq(events, 1, 0) = <<>> /\ t.live \o <<>> = t.live
    BY <1>3
  <2>2. QED BY <1>1, <2>1 DEF Transcripts
<1>5. ASSUME NEW i \in 1 .. n PROVE f[i] = Consume(f[i - 1], frames[i], s)
  <2>1. i - 1 \in 0 .. n /\ i \in 0 .. n
    BY <1>1
  <2>2. SubSeq(events, 1, i) = SubSeq(events, 1, i - 1) \o <<events[i]>>
    BY <1>1, <2>1, SubSeqRecursiveSecond
  <2>3. SubSeq(events, 1, i - 1) \in Seq(E) /\ <<events[i]>> \in Seq(E)
    BY <1>1, <2>1
  <2>4. t.live \o SubSeq(events, 1, i) = (t.live \o SubSeq(events, 1, i - 1)) \o <<events[i]>>
    <3>1. PICK a, b, c : a = t.live /\ b = SubSeq(events, 1, i - 1) /\ c = <<events[i]>>
      OBVIOUS
    <3>2. (a \o b) \o c = a \o (b \o c)
      <4>1. a \in Seq(E) /\ b \in Seq(E) /\ c \in Seq(E)
        BY <1>3, <2>3, <3>1
      <4>2. QED BY ONLY <4>1, ConcatAssociative
    <3>3. QED BY <2>2, <3>1, <3>2
  <2>5. Consume(f[i - 1], frames[i], s) = [f[i - 1] EXCEPT !.live = @ \o <<events[i]>>]
    <3>1. frames[i].type = "event" /\ frames[i].sid = s /\ frames[i].events = <<events[i]>>
      BY <1>2
    <3> HIDE DEF f
    <3>2. QED BY <3>1 DEF Consume
  <2>6. f[i - 1] = [backfill |-> t.backfill, live |-> t.live \o SubSeq(events, 1, i - 1)]
    BY <2>1
  <2>7. f[i] = [backfill |-> t.backfill, live |-> t.live \o SubSeq(events, 1, i)]
    BY <2>1
  <2> HIDE DEF f
  <2>8. PICK a, b : a = t.live \o SubSeq(events, 1, i - 1) /\ b = <<events[i]>>
    OBVIOUS
  <2>9. [f[i - 1] EXCEPT !.live = @ \o b] = [backfill |-> t.backfill, live |-> a \o b]
    <3>1. PICK r : r = f[i - 1]
      OBVIOUS
    <3>2. r = [backfill |-> t.backfill, live |-> a]
      BY <2>6, <2>8, <3>1
    <3>3. PICK l : l = a \o b
      OBVIOUS
    <3>4. r.live = a /\ [r EXCEPT !.live = l] = [backfill |-> t.backfill, live |-> l]
      BY ONLY <3>2
    <3>5. QED BY <3>1, <3>3, <3>4
  <2>10. QED BY <2>4, <2>5, <2>7, <2>8, <2>9
<1>6. f[n].backfill = t.backfill /\ f[n].live = t.live \o events
  <2>1. SubSeq(events, 1, n) = events
    BY <1>1, SubSeqFull
  <2>2. n \in 0 .. n
    BY <1>1
  <2>3. QED BY <2>1, <2>2
<1> HIDE DEF f
<1>7. Showing(f, t, frames, s)
  BY <1>2, <1>4, <1>5 DEF Showing
<1>8. Reading(t, frames, s) = f[n]
  <2>1. Reading(t, frames, s) = f[Len(frames)]
    <3>1. frames \in Seq(Frames(S, E))
      BY <1>2
    <3>2. QED BY ONLY <1>7, <3>1, ReadingIs, t \in Transcripts(E)
  <2>2. QED BY <1>2, <2>1
<1>9. QED BY <1>1, <1>6, <1>8

\* Notifications, and events of a session that is not looked at, show nothing.
LEMMA ReadingOther ==
    ASSUME NEW S, NEW E, NEW x \in S, NEW s, NEW t \in Transcripts(E), NEW events \in Seq(E),
           NEW type \in {"event", "notify"}, type = "notify" \/ x # s
    PROVE  Reading(t, EventFrames(type, x, events), s) = t
<1>0. PICK n \in Nat : n = Len(events)
  OBVIOUS
<1>1. PICK frames : frames = EventFrames(type, x, events) /\ n = Len(events)
  BY <1>0
<1>2. /\ frames \in Seq(Frames(S, E)) /\ Len(frames) = n
      /\ \A i \in 1 .. n : frames[i].type = type /\ frames[i].sid = x
  <2>1. frames \in Seq(Frames(S, E))
    BY <1>1, EventFramesType
  <2>2. QED BY <1>1, <2>1 DEF EventFrames
<1> DEFINE f == [i \in 0 .. n |-> t]
<1>3. f[0] = t /\ f[n] = t
  BY <1>1
<1>4. ASSUME NEW i \in 1 .. n PROVE f[i] = Consume(f[i - 1], frames[i], s)
  <2>1. f[i] = t /\ f[i - 1] = t
    BY <1>1
  <2>2. Consume(t, frames[i], s) = t
    BY <1>2 DEF Consume
  <2>3. QED BY <2>1, <2>2
<1> HIDE DEF f
<1>5. Showing(f, t, frames, s)
  BY <1>2, <1>3, <1>4 DEF Showing
<1>6. Reading(t, frames, s) = f[n]
  <2>1. Reading(t, frames, s) = f[Len(frames)]
    <3>1. frames \in Seq(Frames(S, E))
      BY <1>2
    <3>2. QED BY ONLY <1>5, <3>1, ReadingIs, t \in Transcripts(E)
  <2>2. QED BY <1>2, <2>1
<1>7. QED BY <1>1, <1>3, <1>6

\* What is shown as backfill is what was shown, or what a history frame of the
\* session carries.
LEMMA ReadingBackfill ==
    ASSUME NEW S, NEW E, NEW t \in Transcripts(E), NEW frames \in Seq(Frames(S, E)), NEW s,
           NEW B, t.backfill \in B,
           \A i \in DOMAIN frames : frames[i].type = "history" /\ frames[i].sid = s => frames[i].events \in B
    PROVE  Reading(t, frames, s).backfill \in B
<1>1. PICK f \in [0 .. Len(frames) -> Transcripts(E)] :
         Showing(f, t, frames, s) /\ Reading(t, frames, s) = f[Len(frames)]
  BY ReadingSteps
<1>2. PICK n \in Nat : n = Len(frames) /\ DOMAIN frames = 1 .. n
  OBVIOUS
<1> DEFINE Good == {i \in 0 .. n : f[i].backfill \in B}
<1>3. 0 \in Good
  BY <1>1, <1>2 DEF Showing
<1>4. \A i \in 1 .. n : i - 1 \in Good => i \in Good
  <2>1. ASSUME NEW i \in 1 .. n, f[i - 1].backfill \in B PROVE f[i].backfill \in B
    <3>1. f[i] = Consume(f[i - 1], frames[i], s)
      BY <1>1, <1>2 DEF Showing
    <3>2. f[i - 1] \in Transcripts(E)
      <4>1. i - 1 \in 0 .. Len(frames)
        BY <1>2
      <4>2. QED BY <4>1
    <3>3. CASE frames[i].sid # s \/ frames[i].type = "notify"
      BY <2>1, <3>1, <3>3 DEF Consume
    <3>4. CASE frames[i].sid = s /\ frames[i].type = "history"
      <4>1. f[i] = [backfill |-> frames[i].events, live |-> <<>>]
        BY <3>1, <3>4 DEF Consume
      <4>2. frames[i].events \in B
        BY <1>2, <3>4
      <4>3. QED BY <4>1, <4>2
    <3>5. CASE frames[i].sid = s /\ frames[i].type \notin {"history", "notify"}
      <4>1. f[i] = [f[i - 1] EXCEPT !.live = @ \o frames[i].events]
        BY <3>1, <3>5 DEF Consume
      <4>2. f[i].backfill = f[i - 1].backfill
        BY <3>2, <4>1 DEF Transcripts
      <4>3. QED BY <2>1, <4>2
    <3>6. QED BY <3>3, <3>4, <3>5
  <2>2. QED BY <1>2, <2>1
<1>5. 0 .. n \subseteq Good
  <2> HIDE DEF Good
  <2>1. QED BY <1>2, <1>3, <1>4, UpTo
<1>6. n \in Good
  BY <1>2, <1>5
<1>7. QED BY <1>1, <1>2, <1>6

-----------------------------------------------------------------------------
(* What a phone is sent while one backfill is under way at a time.         *)

\* A socket has one subscribe handler that awaits its query, at most.
OneHandler ==
    \A p \in Phones, h, g \in Slots :
        handlers[p][h] # Null /\ handlers[p][g] # Null => h = g

\* A socket that is gone has nothing; the session a browser shows is the one it
\* subscribed to last; what a handler answers is the session that is watched,
\* one of the socket's own account.
Socket(p) ==
    /\ ~online[p] => up[p] = <<>> /\ subscribed[p] = Null /\ \A h \in Slots : handlers[p][h] = Null
    /\ up[p] # <<>> => open[p] \in {Null, up[p][Len(up[p])]}
    /\ \A h \in Slots : handlers[p][h] # Null =>
          pending[p] # Null /\ handlers[p][h].sid = subscribed[p]
    /\ subscribed[p] # Null => Owns(p, subscribed[p]) /\ since[p] <= relayed[subscribed[p]]
Sockets == \A p \in Phones : Socket(p)

\* What is held back, or will be shown after the backfill.
Live(p) == IF pending[p] # Null THEN pending[p] ELSE Received(p).live
Contiguous(p) == Follows(p) => Live(p) = Latest(open[p], relayed[open[p]] - since[p])

Relaying == TypeOK /\ OneHandler /\ Sockets /\ \A p \in Phones : Contiguous(p)

\* The transcripts and frames of TypeOK are those of the lemmas on Reading.
LEMMA ReceivedTypes ==
    ASSUME TypeOK, NEW p \in Phones
    PROVE  /\ shown[p] \in Transcripts(Event) /\ down[p] \in Seq(Frames(Sessions, Event))
           /\ Received(p) \in Transcripts(Event)
           /\ pending[p] # Null => pending[p] \in Seq(Event)
           /\ up[p] \in Seq(Sessions) /\ open[p] \in Sessions \cup {Null}
           /\ subscribed[p] \in Sessions \cup {Null} /\ since[p] \in Nat
<1>1. shown[p] \in Transcripts(Event) /\ down[p] \in Seq(Frames(Sessions, Event))
  BY DEF TypeOK, Transcripts, Transcript, Frames, Frame
<1>2. Received(p) \in Transcripts(Event)
  BY <1>1, ReadingType DEF Received
<1>3. QED BY <1>1, <1>2 DEF TypeOK

\* A function on 1 .. n is a sequence of length n.
LEMMA FunctionLen ==
    ASSUME NEW S, NEW n \in Nat, NEW f \in [1 .. n -> S]
    PROVE  f \in Seq(S) /\ Len(f) = n
<1>1. f \in Seq(S)
  BY FunctionIsSeq
<1>2. DOMAIN f = 1 .. n /\ DOMAIN f = 1 .. Len(f) /\ Len(f) \in Nat
  BY <1>1
<1>3. QED BY <1>1, <1>2

\* A sequence that goes on as two others is their concatenation.
LEMMA ConcatIs ==
    ASSUME NEW S, NEW a \in Seq(S), NEW b \in Seq(S), NEW c \in Seq(S),
           Len(c) = Len(a) + Len(b), \A i \in 1 .. Len(a) : c[i] = a[i],
           \A i \in 1 .. Len(b) : c[Len(a) + i] = b[i]
    PROVE  a \o b = c
<1>1. PICK d : d = a \o b
  OBVIOUS
<1>2. d \in Seq(S) /\ Len(d) = Len(a) + Len(b)
      /\ \A i \in 1 .. Len(a) + Len(b) : d[i] = IF i <= Len(a) THEN a[i] ELSE b[i - Len(a)]
  BY <1>1, ConcatProperties
<1>3. PICK m \in Nat : m = Len(a)
  OBVIOUS
<1>4. PICK n \in Nat : n = Len(b)
  OBVIOUS
<1>5. ASSUME NEW i \in 1 .. m + n PROVE d[i] = c[i]
  <2>1. CASE i <= m
    BY <1>2, <1>3, <1>4, <2>1
  <2>2. CASE i > m
    <3>1. PICK j \in 1 .. n : j = i - m
      <4>1. i - m \in 1 .. n
        BY ONLY i \in 1 .. m + n, m \in Nat, n \in Nat, i > m, <2>2
      <4>2. QED BY <4>1
    <3>2. d[i] = b[j]
      BY <1>2, <1>3, <1>4, <2>2, <3>1
    <3>3. c[m + j] = b[j] /\ m + j = i
      BY <1>3, <1>4, <3>1
    <3>4. QED BY <3>2, <3>3
  <2>3. QED BY <1>3, <1>4, <2>1, <2>2
<1>6. d = c
  BY <1>2, <1>3, <1>4, <1>5, SeqEqual
<1>7. QED BY <1>1, <1>6

\* What follows the last events relayed is a batch that is relayed.
LEMMA LatestGrows ==
    ASSUME NEW s \in Sessions, relayed[s] \in Nat, NEW k \in Nat, NEW n \in Nat, n <= relayed[s],
           relayed'[s] = relayed[s] + k
    PROVE  /\ Latest(s, n) \in Seq(Event)
           /\ Latest(s, n)  \o [i \in 1 .. k |-> [sid |-> s, n |-> relayed[s] + i]]
                = Latest(s, n + k)'
<1>1. PICK r \in Nat : r = relayed[s]
  OBVIOUS
<1>2. PICK a : a = [i \in 1 .. n |-> [sid |-> s, n |-> r - n + i]]
  OBVIOUS
<1>3. PICK b : b = [i \in 1 .. k |-> [sid |-> s, n |-> r + i]]
  OBVIOUS
<1>4. PICK m \in Nat : m = n + k
  OBVIOUS
<1>5. PICK c : c = [i \in 1 .. m |-> [sid |-> s, n |-> r + k - m + i]]
  OBVIOUS
<1>6. a = Latest(s, n) /\ c = Latest(s, n + k)'
  BY <1>1, <1>2, <1>4, <1>5 DEF Latest
<1>7. a \in [1 .. n -> Event]
  BY <1>1, <1>2 DEF Event
<1>8. b \in [1 .. k -> Event]
  BY <1>1, <1>3 DEF Event
<1>9. c \in [1 .. m -> Event]
  <2>1. ASSUME NEW i \in 1 .. m PROVE r + k - m + i \in Nat
    BY <1>1, <1>4
  <2>2. QED BY <1>5, <2>1 DEF Event
<1>10. a \in Seq(Event) /\ Len(a) = n /\ b \in Seq(Event) /\ Len(b) = k /\ c \in Seq(Event) /\ Len(c) = m
  BY <1>7, <1>8, <1>9, FunctionLen
<1>11. \A i \in 1 .. n : c[i] = a[i]
  BY <1>1, <1>2, <1>4, <1>5
<1>12. \A i \in 1 .. k : c[n + i] = b[i]
  <2>1. ASSUME NEW i \in 1 .. k PROVE c[n + i] = b[i]
    <3>1. PICK j \in 1 .. m : j = n + i
      BY <1>4
    <3>2. r + k - m + j = r + i
      BY <1>1, <1>4, <3>1
    <3>3. c[j] = [sid |-> s, n |-> r + i]
      BY <1>5, <3>2
    <3>4. QED BY <1>3, <3>1, <3>3
  <2>2. QED BY <2>1
<1>13. a \o b = c
  <2>1. Len(c) = Len(a) + Len(b)
    BY <1>4, <1>10
  <2>2. \A i \in 1 .. Len(a) : c[i] = a[i]
    BY <1>10, <1>11
  <2>3. \A i \in 1 .. Len(b) : c[Len(a) + i] = b[i]
    BY <1>10, <1>12
  <2>4. QED BY ONLY <1>10, <2>1, <2>2, <2>3, ConcatIs
<1>14. QED BY <1>1, <1>3, <1>6, <1>10, <1>13

\* Another phone's step: nothing of this phone changes but what is relayed to all.
LEMMA ContiguousSame ==
    ASSUME Relaying, NEW p \in Phones,
           UNCHANGED <<relayed, online[p], subscribed[p], pending[p], handlers[p], since[p],
                       up[p], down[p], open[p], shown[p]>>
    PROVE  Socket(p)' /\ Contiguous(p)'
BY DEF Relaying, Sockets, Socket, Contiguous, Live, Received, Follows, Latest, Owns

\* The worker's batch reaches every phone that follows its session, once.
LEMMA RelayContiguous ==
    ASSUME Relaying, TypeOK', NEW s \in Sessions, NEW k \in 1 .. MaxBatch, Relay(s, k)
    PROVE  Sockets' /\ OneHandler' /\ \A p \in Phones : Contiguous(p)'
<1>1. PICK batch : batch = [i \in 1 .. k |-> [sid |-> s, n |-> relayed[s] + i]]
  OBVIOUS
<1>2. /\ relayed' = [relayed EXCEPT ![s] = @ + k]
      /\ pending' = [p \in Phones |->
            IF Watches(p, s) /\ pending[p] # Null THEN pending[p] \o batch ELSE pending[p]]
      /\ down' = [p \in Phones |->
            IF Watches(p, s) /\ pending[p] = Null THEN down[p] \o EventFrames("event", s, batch)
            ELSE IF Overhears(p, s) THEN down[p] \o EventFrames("notify", s, Pick(batch, Notes))
            ELSE down[p]]
      /\ UNCHANGED <<db, online, subscribed, handlers, since, up, open, shown>>
  BY <1>1 DEF Relay
<1>3. k \in Nat /\ relayed \in [Sessions -> Nat] /\ relayed[s] \in Nat
  BY DEF Relaying, TypeOK
<1>4. batch \in Seq(Event)
  <2>1. [i \in 1 .. k |-> [sid |-> s, n |-> relayed[s] + i]] \in [1 .. k -> Event]
    BY <1>3 DEF Event
  <2>2. QED BY <1>1, <1>3, <2>1, FunctionIsSeq
<1>5. relayed'[s] = relayed[s] + k /\ \A x \in Sessions : relayed'[x] \in Nat /\ relayed'[x] >= relayed[x]
                                                       /\ (x # s => relayed'[x] = relayed[x])
  BY <1>2, <1>3
<1>6. ASSUME NEW p \in Phones PROVE Socket(p)' /\ (pending[p] # Null <=> pending'[p] # Null)
  <2>1. pending[p] # Null => pending'[p] # Null
    <3>1. ASSUME pending[p] # Null PROVE pending'[p] \in Seq(Event)
      <4>1. pending[p] \in Seq(Event) /\ pending[p] \o batch \in Seq(Event)
        BY <1>4, <3>1, ReceivedTypes, ConcatProperties DEF Relaying
      <4>2. QED BY <1>2, <4>1
    <3>2. QED BY <3>1, NullAssumption
  <2>2. pending[p] = Null => pending'[p] = Null
    BY <1>2
  <2>3. subscribed[p] # Null => since[p] <= relayed'[subscribed[p]]
    <3>1. ASSUME subscribed[p] # Null PROVE since[p] <= relayed'[subscribed[p]]
      <4>1. subscribed[p] \in Sessions /\ since[p] \in Nat /\ since[p] <= relayed[subscribed[p]]
        BY <3>1, ReceivedTypes DEF Relaying, Sockets, Socket
      <4>2. QED BY <1>3, <1>5, <4>1
    <3>2. QED BY <3>1
  <2>4. Socket(p)
    BY DEF Relaying, Sockets
  <2>5. QED BY <1>2, <2>1, <2>2, <2>3, <2>4 DEF Socket, Owns
<1>7. ASSUME NEW p \in Phones, Follows(p)' PROVE Live(p)' = Latest(open[p], relayed[open[p]] - since[p])'
  <2>1. Follows(p) /\ open[p] \in Sessions /\ open[p] = subscribed[p] /\ online[p] /\ Owns(p, open[p])
        /\ since[p] \in Nat /\ since[p] <= relayed[open[p]]
    BY <1>2, <1>7, ReceivedTypes DEF Follows, Relaying, Sockets, Socket
  <2>2. Live(p) = Latest(open[p], relayed[open[p]] - since[p])
    BY <2>1 DEF Relaying, Contiguous
  <2>3. /\ shown[p] \in Transcripts(Event) /\ down[p] \in Seq(Frames(Sessions, Event))
        /\ Received(p) \in Transcripts(Event) /\ Received(p) = Reading(shown[p], down[p], open[p])
        /\ Received(p)' = Reading(shown[p], down'[p], open[p])
    BY <1>2, ReceivedTypes DEF Relaying, Received
  <2>4. PICK n \in Nat : n = relayed[open[p]] - since[p]
    BY <1>3, <2>1
  <2>5. n <= relayed[open[p]]
    BY <1>3, <2>1, <2>4
  <2>6. CASE open[p] = s
    <3>1. Watches(p, s)
      BY <2>1, <2>6 DEF Watches
    <3>2. Live(p) \o batch = Latest(s, n + k)' /\ relayed'[s] - since[p] = n + k
      <4>1. Live(p) = Latest(s, n)
        BY <2>2, <2>4, <2>6
      <4>2. Latest(s, n) \o [i \in 1 .. k |-> [sid |-> s, n |-> relayed[s] + i]] = Latest(s, n + k)'
        <5>1. n <= relayed[s] /\ relayed'[s] = relayed[s] + k
          BY <1>5, <2>5, <2>6
        <5>2. QED BY ONLY <1>3, <5>1, s \in Sessions, n \in Nat, LatestGrows
      <4>3. relayed'[s] - since[p] = n + k
        <5>1. PICK r \in Nat, m \in Nat : r = relayed[s] /\ m = since[p]
          BY <1>3, <2>1
        <5>2. QED BY <1>3, <1>5, <2>4, <2>6, <5>1
      <4>4. QED BY <1>1, <4>1, <4>2, <4>3
    <3>3. CASE pending[p] # Null
      <4>1. pending'[p] = pending[p] \o batch
        BY <1>2, <3>1, <3>3
      <4>2. Live(p)' = Live(p) \o batch
        BY <1>6, <3>3, <4>1 DEF Live
      <4>3. QED BY <1>2, <2>6, <3>2, <4>2
    <3>4. CASE pending[p] = Null
      <4>1. pending'[p] = Null /\ down'[p] = down[p] \o EventFrames("event", s, batch)
        BY <1>2, <3>1, <3>4
      <4>2. EventFrames("event", s, batch) \in Seq(Frames(Sessions, Event))
        BY <1>4, EventFramesType
      <4>3. Received(p)' = Reading(Received(p), EventFrames("event", s, batch), s)
        BY <2>3, <2>6, <4>1, <4>2, ReadingConcat
      <4>4. Received(p)'.live = Received(p).live \o batch
        <5>1. PICK t \in Transcripts(Event) : t = Received(p)
          BY <2>3
        <5>2. Reading(t, EventFrames("event", s, batch), s).live = t.live \o batch
          BY <1>4, ReadingEvents
        <5>3. QED BY <4>3, <5>1, <5>2
      <4>5. Live(p)' = Live(p) \o batch
        BY <3>4, <4>1, <4>4 DEF Live
      <4>6. QED BY <1>2, <2>6, <3>2, <4>5
    <3>5. QED BY <3>3, <3>4
  <2>7. CASE open[p] # s
    <3>1. ~Watches(p, s)
      BY <2>1, <2>7 DEF Watches
    <3>2. pending'[p] = pending[p]
      BY <1>2, <3>1
    <3>3. Received(p)' = Received(p)
      <4>1. CASE Overhears(p, s)
        <5>1. PICK q : q = Pick(batch, Notes)
          OBVIOUS
        <5>2. q \in Seq(Event)
          BY <1>4, <5>1, PickType
        <5>3. EventFrames("notify", s, q) \in Seq(Frames(Sessions, Event))
          BY <5>2, EventFramesType
        <5>4. down'[p] = down[p] \o EventFrames("notify", s, q)
          BY <1>2, <3>1, <4>1, <5>1
        <5>5. Received(p)' = Reading(Received(p), EventFrames("notify", s, q), open[p])
          BY <2>3, <5>3, <5>4, ReadingConcat
        <5>6. Reading(Received(p), EventFrames("notify", s, q), open[p]) = Received(p)
          BY <2>3, <5>2, ReadingOther
        <5>7. QED BY <5>5, <5>6
      <4>2. CASE ~Overhears(p, s)
        BY <1>2, <2>3, <3>1, <4>2
      <4>3. QED BY <4>1, <4>2
    <3>4. relayed'[open[p]] = relayed[open[p]]
      BY <1>5, <2>1, <2>7
    <3>5. Latest(open[p], relayed[open[p]] - since[p])' = Latest(open[p], relayed[open[p]] - since[p])
      BY <1>2, <3>4 DEF Latest
    <3>6. QED BY <2>2, <3>2, <3>3, <3>5 DEF Live
  <2>8. QED BY <2>6, <2>7
<1>8. OneHandler'
  BY <1>2 DEF Relaying, OneHandler
<1>9. QED BY <1>6, <1>7, <1>8 DEF Sockets, Contiguous

\* Every phone but p is as it was, and nothing was relayed.
OthersSame(p) ==
    /\ UNCHANGED relayed
    /\ \A q \in Phones \ {p} :
          UNCHANGED <<online[q], subscribed[q], pending[q], handlers[q], since[q],
                      up[q], down[q], open[q], shown[q]>>

\* A step of one phone's socket keeps the invariant if it does for that phone.
LEMMA OnePhone ==
    ASSUME Relaying, TypeOK', OneHandler', NEW p \in Phones, OthersSame(p), Socket(p)', Contiguous(p)'
    PROVE  Relaying'
<1>1. \A q \in Phones : Socket(q)' /\ Contiguous(q)'
  BY ContiguousSame DEF OthersSame
<1>2. QED BY <1>1 DEF Relaying, Sockets

\* A subscribe is handled: the buffer is empty, and nothing was relayed since.
LEMMA HandleSubscribeKeeps ==
    ASSUME Relaying, TypeOK', OneHandler', NEW p \in Phones, HandleSubscribe(p)
    PROVE  Relaying'
<1>1. /\ online[p] /\ up[p] # <<>> /\ up' = [up EXCEPT ![p] = Tail(@)]
      /\ UNCHANGED <<relayed, online, down, open, shown>>
  BY DEF HandleSubscribe, serverVars
<1>2. PICK s : s = Head(up[p])
  OBVIOUS
<1>3. /\ up[p] \in Seq(Sessions) /\ s \in Sessions /\ up'[p] = Tail(up[p]) /\ up'[p] \in Seq(Sessions)
      /\ up'[p] # <<>> => up'[p][Len(up'[p])] = up[p][Len(up[p])]
      /\ up'[p] = <<>> => s = up[p][Len(up[p])]
  <2>1. PICK q : q = up[p]
    OBVIOUS
  <2>2. q \in Seq(Sessions) /\ q # <<>>
    BY <1>1, <2>1 DEF Relaying, TypeOK
  <2>3. PICK r : r = Tail(q)
    OBVIOUS
  <2>4. Head(q) \in Sessions /\ r \in Seq(Sessions) /\ Len(r) = Len(q) - 1 /\ \A i \in 1 .. Len(r) : r[i] = q[i + 1]
    BY <2>2, <2>3, HeadTailProperties
  <2>5. Head(q) = q[1] /\ Len(q) \in Nat \ {0}
    BY <2>2
  <2>6. r # <<>> => r[Len(r)] = q[Len(q)]
    <3>1. ASSUME r # <<>> PROVE r[Len(r)] = q[Len(q)]
      <4>1. Len(r) \in 1 .. Len(r) /\ Len(r) + 1 = Len(q)
        BY <2>4, <2>5, <3>1
      <4>2. QED BY <2>4, <4>1
    <3>2. QED BY <3>1
  <2>7. r = <<>> => Head(q) = q[Len(q)]
    <3>1. ASSUME r = <<>> PROVE Len(q) = 1
      BY <2>4, <2>5, <3>1
    <3>2. QED BY <2>5, <3>1
  <2>8. up'[p] = r
    BY <1>1, <2>1, <2>3 DEF Relaying, TypeOK
  <2>9. QED BY <1>2, <2>1, <2>2, <2>4, <2>6, <2>7, <2>8
<1>4. Socket(p) /\ up[p] # <<>> /\ open[p] \in {Null, up[p][Len(up[p])]}
  BY <1>1 DEF Relaying, Sockets, Socket
<1>5. CASE ~Owns(p, s)
  <2>1. UNCHANGED <<handlers, subscribed, pending, since>>
    BY <1>2, <1>5 DEF HandleSubscribe
  <2>2. OthersSame(p)
    BY <1>1, <2>1 DEF OthersSame, Relaying, TypeOK
  <2>3. Socket(p)'
    BY <1>1, <1>3, <1>4, <2>1 DEF Socket, Owns
  <2>4. ~Follows(p)'
    <3>1. ASSUME Follows(p)' PROVE FALSE
      <4>1. open[p] = s /\ subscribed[p] = s /\ subscribed[p] # Null
        BY <1>1, <1>3, <1>4, <2>1, <3>1 DEF Follows
      <4>2. QED BY <1>4, <1>5, <4>1 DEF Socket
    <3>2. QED BY <3>1
  <2>5. QED BY <2>2, <2>3, <2>4, OnePhone DEF Contiguous
<1>6. CASE Owns(p, s)
  <2>1. PICK h \in Slots :
          /\ handlers[p][h] = Null
          /\ handlers' = [handlers EXCEPT ![p][h] = [sid |-> s, snapshot |-> Null]]
          /\ subscribed' = [subscribed EXCEPT ![p] = s]
          /\ pending' = [pending EXCEPT ![p] = <<>>]
          /\ since' = [since EXCEPT ![p] = relayed[s]]
    BY <1>2, <1>6 DEF HandleSubscribe, Buffering
  <2>2. [sid |-> s, snapshot |-> Null] \in Handler /\ [sid |-> s, snapshot |-> Null] # Null /\ <<>> # Null
    <3>1. [sid |-> s, snapshot |-> Null] \in Handler
      BY <1>3 DEF Handler
    <3>2. <<>> \in Seq(Event)
      OBVIOUS
    <3>3. QED BY <3>1, <3>2, NullAssumption
  <2>3. /\ handlers'[p][h] = [sid |-> s, snapshot |-> Null]
        /\ \A g \in Slots : g # h => handlers'[p][g] = Null
        /\ subscribed'[p] = s /\ pending'[p] = <<>> /\ since'[p] = relayed[s]
    <3>1. /\ handlers'[p] = [handlers[p] EXCEPT ![h] = [sid |-> s, snapshot |-> Null]]
          /\ subscribed'[p] = s /\ pending'[p] = <<>> /\ since'[p] = relayed[s]
      BY <2>1 DEF Relaying, TypeOK
    <3>2. handlers'[p][h] = [sid |-> s, snapshot |-> Null]
      BY <3>1 DEF Relaying, TypeOK
    <3>3. QED BY <2>2, <3>1, <3>2 DEF OneHandler
  <2>4. OthersSame(p)
    BY <1>1, <2>1 DEF OthersSame, Relaying, TypeOK
  <2>5. relayed[s] \in Nat /\ relayed' = relayed /\ s # Null
    BY <1>1, <1>3, RelayAssumption DEF Relaying, TypeOK
  <2>6. Socket(p)'
    <3>1. \A g \in Slots : handlers'[p][g] # Null => pending'[p] # Null /\ handlers'[p][g].sid = subscribed'[p]
      BY <2>2, <2>3
    <3>2. Owns(p, subscribed'[p]) /\ since'[p] <= relayed'[subscribed'[p]]
      BY <1>6, <2>3, <2>5
    <3>3. up'[p] # <<>> => open'[p] \in {Null, up'[p][Len(up'[p])]}
      BY <1>1, <1>3, <1>4
    <3>4. online'[p]
      BY <1>1
    <3>5. QED BY <3>1, <3>2, <3>3, <3>4 DEF Socket, Owns
  <2>7. Contiguous(p)'
    <3>1. ASSUME Follows(p)' PROVE Live(p)' = Latest(open[p], relayed[open[p]] - since[p])'
      <4>1. open'[p] = s
        BY <2>3, <3>1 DEF Follows
      <4>2. relayed'[open'[p]] - since'[p] = 0
        BY <2>3, <2>5, <4>1
      <4>3. Latest(open[p], 0)' = <<>>
        BY DEF Latest
      <4>4. Live(p)' = <<>>
        BY <2>2, <2>3 DEF Live
      <4>5. QED BY <4>2, <4>3, <4>4
    <3>2. QED BY <3>1 DEF Contiguous
  <2>8. QED BY <2>4, <2>6, <2>7, OnePhone
<1>7. QED BY <1>5, <1>6

\* The query of a handler is answered or rejected.
LEMMA QueryKeeps ==
    ASSUME Relaying, TypeOK', NEW p \in Phones, NEW h \in Slots, QueryRuns(p, h) \/ QueryFails(p, h)
    PROVE  Relaying'
<1>1. handlers[p][h] # Null /\ handlers[p][h] \in Handler
  BY DEF QueryRuns, QueryFails, Awaiting, Relaying, TypeOK
<1>2. UNCHANGED <<relayed, online, subscribed, pending, since, up, down, open, shown>>
  BY DEF QueryRuns, QueryFails, serverVars
<1>3. /\ \A q \in Phones \ {p} : handlers'[q] = handlers[q]
      /\ \A g \in Slots : g # h => handlers'[p][g] = handlers[p][g]
      /\ handlers'[p][h] # Null => handlers'[p][h].sid = handlers[p][h].sid
  <2>1. CASE QueryRuns(p, h)
    <3>1. PICK b : handlers' = [handlers EXCEPT ![p][h].snapshot = b]
      BY <2>1 DEF QueryRuns
    <3>2. handlers' = [handlers EXCEPT ![p] = [handlers[p] EXCEPT ![h] = [handlers[p][h] EXCEPT !.snapshot = b]]]
      BY <3>1
    <3>3. PICK r : r = [handlers[p][h] EXCEPT !.snapshot = b]
      OBVIOUS
    <3>4. r.sid = handlers[p][h].sid
      BY <1>1, <3>3 DEF Handler
    <3>5. QED BY <3>2, <3>3, <3>4 DEF Relaying, TypeOK
  <2>2. CASE QueryFails(p, h)
    <3>1. handlers' = [handlers EXCEPT ![p] = [handlers[p] EXCEPT ![h] = Null]]
      BY <2>2 DEF QueryFails
    <3>2. QED BY <3>1 DEF Relaying, TypeOK
  <2>3. QED BY <2>1, <2>2
<1>4. OneHandler'
  <2>1. \A q \in Phones, g \in Slots : handlers'[q][g] # Null => handlers[q][g] # Null
    BY <1>1, <1>3
  <2>2. QED BY <2>1 DEF Relaying, OneHandler
<1>5. OthersSame(p)
  BY <1>2, <1>3 DEF OthersSame
<1>6. Socket(p)'
  <2>1. Socket(p)
    BY DEF Relaying, Sockets
  <2>2. \A g \in Slots : handlers'[p][g] # Null => handlers[p][g] # Null /\ handlers'[p][g].sid = handlers[p][g].sid
    BY <1>1, <1>3
  <2>3. QED BY <1>2, <2>1, <2>2 DEF Socket, Owns
<1>7. Contiguous(p)'
  BY <1>2 DEF Relaying, Contiguous, Follows, Live, Received, Latest
<1>8. QED BY <1>4, <1>5, <1>6, <1>7, OnePhone

\* The handler ends: the history, then what was held back.
LEMMA FinishSubscribeKeeps ==
    ASSUME Relaying, TypeOK', NEW p \in Phones, NEW h \in Slots, FinishSubscribe(p, h)
    PROVE  Relaying'
<1>1. /\ handlers[p][h] # Null /\ handlers[p][h].snapshot # Null
      /\ pending' = [pending EXCEPT ![p] = Null]
      /\ handlers' = [handlers EXCEPT ![p] = [handlers[p] EXCEPT ![h] = Null]]
      /\ UNCHANGED <<relayed, online, subscribed, since, up, open, shown>>
  BY DEF FinishSubscribe, Answered, Released, serverVars
<1>2. PICK s, b : s = handlers[p][h].sid /\ b = handlers[p][h].snapshot
  OBVIOUS
<1>3. s \in Sessions /\ b \in Seq(Event)
  BY <1>1, <1>2 DEF Relaying, TypeOK, Handler
<1>4. down' = [down EXCEPT ![p] = @ \o <<HistoryFrame(s, b)>> \o Drained(p, s)]
  BY <1>2 DEF FinishSubscribe
<1>5. Socket(p) /\ pending[p] # Null /\ subscribed[p] = s /\ pending[p] \in Seq(Event)
  BY <1>1, <1>2, ReceivedTypes DEF Relaying, Sockets, Socket
<1>6. /\ \A q \in Phones \ {p} : handlers'[q] = handlers[q] /\ pending'[q] = pending[q] /\ down'[q] = down[q]
      /\ \A g \in Slots : handlers'[p][g] = Null /\ pending'[p] = Null
      /\ down'[p] = down[p] \o <<HistoryFrame(s, b)>> \o EventFrames("event", s, pending[p])
  <2>1. \A g \in Slots \ {h} : handlers[p][g] = Null
    BY <1>1 DEF Relaying, OneHandler
  <2>2. Drained(p, s) = EventFrames("event", s, pending[p])
    BY <1>5 DEF Drained
  <2>3. \A g \in Slots : handlers'[p][g] = Null /\ pending'[p] = Null
    BY <1>1, <2>1 DEF Relaying, TypeOK
  <2>4. down'[p] = down[p] \o <<HistoryFrame(s, b)>> \o EventFrames("event", s, pending[p])
    BY <1>4, <2>2 DEF Relaying, TypeOK
  <2>5. \A q \in Phones \ {p} : handlers'[q] = handlers[q] /\ pending'[q] = pending[q] /\ down'[q] = down[q]
    <3>1. \A q \in Phones \ {p} : handlers'[q] = handlers[q] /\ pending'[q] = pending[q]
      BY <1>1 DEF Relaying, TypeOK
    <3>2. \A q \in Phones \ {p} : down'[q] = down[q]
      BY <1>4 DEF Relaying, TypeOK
    <3>3. QED BY <3>1, <3>2
  <2>6. QED BY <2>3, <2>4, <2>5
<1>7. OneHandler'
  BY <1>6 DEF Relaying, OneHandler
<1>8. OthersSame(p)
  BY <1>1, <1>6 DEF OthersSame
<1>9. Socket(p)'
  BY <1>1, <1>5, <1>6 DEF Socket, Owns
<1>10. Contiguous(p)'
  <2>1. ASSUME Follows(p)' PROVE Live(p)' = Latest(open[p], relayed[open[p]] - since[p])'
    <3>1. Follows(p) /\ open[p] = s
      BY <1>1, <1>5, <2>1 DEF Follows
    <3>2. pending[p] = Latest(open[p], relayed[open[p]] - since[p])
      BY <1>5, <3>1 DEF Relaying, Contiguous, Live
    <3>3. PICK one, rest : one = <<HistoryFrame(s, b)>> /\ rest = EventFrames("event", s, pending[p])
      OBVIOUS
    <3>4. HistoryFrame(s, b) \in Frames(Sessions, Event)
      BY <1>3 DEF HistoryFrame, Frames
    <3>5. one \in Seq(Frames(Sessions, Event)) /\ rest \in Seq(Frames(Sessions, Event))
      BY <1>3, <1>5, <3>3, <3>4, EventFramesType
    <3>6. PICK t \in Transcripts(Event) : t = Received(p)
      BY ReceivedTypes DEF Relaying
    <3>7. PICK ds \in Seq(Frames(Sessions, Event)) : ds = down[p]
      BY ReceivedTypes DEF Relaying
    <3>8. ds \o one \in Seq(Frames(Sessions, Event))
      BY <3>5, ConcatProperties
    <3>9. shown[p] \in Transcripts(Event)
      BY ReceivedTypes DEF Relaying
    <3>10. Reading(shown[p], ds \o one \o rest, s) = Reading(Reading(shown[p], ds \o one, s), rest, s)
      <4>1. PICK x : x = ds \o one
        OBVIOUS
      <4>2. x \in Seq(Frames(Sessions, Event))
        BY <3>8, <4>1
      <4>3. Reading(shown[p], x \o rest, s) = Reading(Reading(shown[p], x, s), rest, s)
        BY ONLY <3>5, <4>2, <3>9, ReadingConcat
      <4>4. QED BY <4>1, <4>3
    <3>11. Reading(shown[p], ds \o one, s) = Reading(Reading(shown[p], ds, s), one, s)
      BY ONLY <3>5, <3>9, ds \in Seq(Frames(Sessions, Event)), ReadingConcat
    <3>12. t = Reading(shown[p], ds, s)
      BY <3>1, <3>6, <3>7 DEF Received
    <3>13. Received(p)' = Reading(shown[p], ds \o one \o rest, s)
      BY <1>1, <1>6, <3>1, <3>3, <3>7 DEF Received
    <3>14. PICK u : u = Consume(t, HistoryFrame(s, b), s)
      OBVIOUS
    <3>15. Reading(t, one, s) = u
      BY <3>3, <3>4, <3>14, ReadingOne
    <3>16. u = [backfill |-> b, live |-> <<>>]
      BY <3>14 DEF Consume, HistoryFrame
    <3>17. u \in Transcripts(Event) /\ u.live = <<>>
      BY <1>3, <3>16 DEF Transcripts
    <3>18. Reading(u, rest, s).live = u.live \o pending[p]
      <4>1. PICK e : e = pending[p]
        OBVIOUS
      <4>2. e \in Seq(Event) /\ s \in Sessions /\ u \in Transcripts(Event)
        BY <1>3, <1>5, <3>17, <4>1
      <4>3. Reading(u, EventFrames("event", s, e), s).live = u.live \o e
        BY ONLY <4>2, ReadingEvents
      <4>4. QED BY <3>3, <4>1, <4>3
    <3>19. Received(p)'.live = pending[p]
      <4>1. <<>> \o pending[p] = pending[p]
        BY <1>5
      <4>2. QED BY <3>10, <3>11, <3>12, <3>13, <3>15, <3>17, <3>18, <4>1
    <3>20. Live(p)' = pending[p]
      <4>1. pending'[p] = Null
        BY <1>1 DEF Relaying, TypeOK
      <4>2. QED BY <3>19, <4>1 DEF Live
    <3>21. QED BY <1>1, <3>2, <3>20 DEF Latest
  <2>2. QED BY <2>1 DEF Contiguous
<1>11. QED BY <1>7, <1>8, <1>9, <1>10, OnePhone

\* The upgrade: a session that is shown is subscribed to again.
LEMMA ConnectKeeps ==
    ASSUME Relaying, TypeOK', NEW p \in Phones, Connect(p)
    PROVE  Relaying'
<1>1. /\ ~online[p] /\ online' = [online EXCEPT ![p] = TRUE]
      /\ up' = [up EXCEPT ![p] = IF open[p] = Null THEN <<>> ELSE <<open[p]>>]
      /\ UNCHANGED <<relayed, subscribed, pending, handlers, since, down, open, shown>>
  BY DEF Connect, serverVars
<1>2. subscribed[p] = Null /\ \A h \in Slots : handlers[p][h] = Null
  BY <1>1 DEF Relaying, Sockets, Socket
<1>3. online'[p] /\ up'[p] = IF open[p] = Null THEN <<>> ELSE <<open[p]>>
  BY <1>1 DEF Relaying, TypeOK
<1>4. up'[p] # <<>> => up'[p][Len(up'[p])] = open[p]
  BY <1>3
<1>5. Socket(p)'
  BY <1>1, <1>2, <1>3, <1>4 DEF Socket
<1>6. ~Follows(p)'
  BY <1>1, <1>2 DEF Follows
<1>7. OthersSame(p)
  BY <1>1 DEF OthersSame, Relaying, TypeOK
<1>8. OneHandler'
  BY <1>1 DEF Relaying, OneHandler
<1>9. QED BY <1>5, <1>6, <1>7, <1>8, OnePhone DEF Contiguous

\* The socket dies.
LEMMA DisconnectKeeps ==
    ASSUME Relaying, TypeOK', NEW p \in Phones, Disconnect(p)
    PROVE  Relaying'
<1>1. /\ online' = [online EXCEPT ![p] = FALSE]
      /\ subscribed' = [subscribed EXCEPT ![p] = Null]
      /\ pending' = [pending EXCEPT ![p] = Null]
      /\ handlers' = [handlers EXCEPT ![p] = [h \in Slots |-> Null]]
      /\ up' = [up EXCEPT ![p] = <<>>] /\ down' = [down EXCEPT ![p] = <<>>]
      /\ since' = [since EXCEPT ![p] = 0]
      /\ UNCHANGED <<relayed, open, shown>>
  BY DEF Disconnect, serverVars
<1>2. /\ ~online'[p] /\ subscribed'[p] = Null /\ up'[p] = <<>>
      /\ \A h \in Slots : handlers'[p][h] = Null
      /\ \A q \in Phones \ {p} : handlers'[q] = handlers[q]
  BY <1>1 DEF Relaying, TypeOK
<1>3. Socket(p)'
  BY <1>2 DEF Socket
<1>4. ~Follows(p)'
  BY <1>2 DEF Follows
<1>5. OthersSame(p)
  BY <1>1 DEF OthersSame, Relaying, TypeOK
<1>6. OneHandler'
  BY <1>2 DEF Relaying, OneHandler
<1>7. QED BY <1>3, <1>4, <1>5, <1>6, OnePhone DEF Contiguous

\* The user opens a session, or goes back to the list.
LEMMA OpenSessionKeeps ==
    ASSUME Relaying, TypeOK', NEW p \in Phones, NEW s \in Sessions, OpenSession(p, s)
    PROVE  Relaying'
<1>1. /\ open[p] # s /\ open' = [open EXCEPT ![p] = s] /\ shown' = [shown EXCEPT ![p] = Blank]
      /\ up' = [up EXCEPT ![p] = IF online[p] THEN Append(@, s) ELSE @]
      /\ UNCHANGED <<relayed, online, subscribed, pending, handlers, since, down>>
  BY DEF OpenSession, serverVars, sockVars
<1>2. open'[p] = s /\ up[p] \in Seq(Sessions) /\ up'[p] = IF online[p] THEN Append(up[p], s) ELSE up[p]
  BY <1>1 DEF Relaying, TypeOK
<1>3. Socket(p)
  BY DEF Relaying, Sockets
<1>4. online[p] => up'[p] # <<>> /\ up'[p][Len(up'[p])] = s
  BY <1>2
<1>5. ~online[p] => up'[p] = <<>>
  BY <1>2, <1>3 DEF Socket
<1>6. Socket(p)'
  BY <1>1, <1>2, <1>3, <1>4, <1>5 DEF Socket, Owns
<1>7. ~Follows(p)'
  BY <1>1, <1>4 DEF Follows
<1>8. OthersSame(p)
  BY <1>1 DEF OthersSame, Relaying, TypeOK
<1>9. OneHandler'
  BY <1>1 DEF Relaying, OneHandler
<1>10. QED BY <1>6, <1>7, <1>8, <1>9, OnePhone DEF Contiguous

\* Back to the list: nothing is shown any more.
LEMMA CloseSessionKeeps ==
    ASSUME Relaying, TypeOK', NEW p \in Phones, CloseSession(p)
    PROVE  Relaying'
<1>1. /\ open' = [open EXCEPT ![p] = Null] /\ shown' = [shown EXCEPT ![p] = Blank]
      /\ UNCHANGED <<relayed, online, subscribed, pending, handlers, since, up, down>>
  BY DEF CloseSession, serverVars, sockVars
<1>2. open'[p] = Null
  BY <1>1 DEF Relaying, TypeOK
<1>3. Socket(p)'
  BY <1>1, <1>2 DEF Relaying, Sockets, Socket, Owns
<1>4. ~Follows(p)'
  BY <1>2 DEF Follows
<1>5. OthersSame(p)
  BY <1>1 DEF OthersSame, Relaying, TypeOK
<1>6. OneHandler'
  BY <1>1 DEF Relaying, OneHandler
<1>7. QED BY <1>3, <1>4, <1>5, <1>6, OnePhone DEF Contiguous

\* The browser reads a frame: it will show what it would have shown.
LEMMA DeliverReceived ==
    ASSUME TypeOK, NEW p \in Phones, Deliver(p)
    PROVE  Received(p)' = Received(p)
<1>1. /\ down[p] # <<>> /\ open' = open
      /\ shown' = [shown EXCEPT ![p] = Consume(@, Head(down[p]), open[p])]
      /\ down' = [down EXCEPT ![p] = Tail(@)]
  BY DEF Deliver
<1>2. shown'[p] = Consume(shown[p], Head(down[p]), open[p]) /\ down'[p] = Tail(down[p])
  BY <1>1 DEF TypeOK
<1>3. PICK t, ds : t = shown[p] /\ ds = down[p]
  OBVIOUS
<1>4. t \in Transcripts(Event) /\ ds \in Seq(Frames(Sessions, Event)) /\ ds # <<>>
  BY <1>1, <1>3, ReceivedTypes
<1>5. \A s : Reading(t, ds, s) = Reading(Consume(t, Head(ds), s), Tail(ds), s)
  BY ONLY <1>4, ReadingFirst
<1>6. QED BY <1>1, <1>2, <1>3, <1>5 DEF Received

\* ... so reading a frame keeps the invariant.
LEMMA DeliverKeeps ==
    ASSUME Relaying, TypeOK', NEW p \in Phones, Deliver(p)
    PROVE  Relaying'
<1>1. /\ shown' = [shown EXCEPT ![p] = Consume(@, Head(down[p]), open[p])]
      /\ down' = [down EXCEPT ![p] = Tail(@)]
      /\ UNCHANGED <<relayed, online, subscribed, pending, handlers, since, up, open>>
  BY DEF Deliver, serverVars, sockVars
<1>2. Received(p)' = Received(p)
  BY DeliverReceived DEF Relaying
<1>3. Socket(p)' /\ OneHandler'
  BY <1>1 DEF Relaying, Sockets, Socket, Owns, OneHandler
<1>4. Contiguous(p)'
  BY <1>1, <1>2 DEF Relaying, Contiguous, Follows, Live, Latest
<1>5. OthersSame(p)
  BY <1>1 DEF OthersSame, Relaying, TypeOK
<1>6. QED BY <1>3, <1>4, <1>5, OnePhone

\* A POST that is answered, or rejected, sends nothing.
LEMMA PersistKeeps ==
    ASSUME Relaying, TypeOK', NEW s \in Sessions, NEW batch \in posts[s],
           Persist(s, batch) \/ PersistFails(s, batch)
    PROVE  Relaying'
<1>1. UNCHANGED <<relayed, online, subscribed, pending, handlers, since, up, down, open, shown>>
  BY DEF Persist, PersistFails, sockVars
<1>2. QED BY <1>1 DEF Relaying, OneHandler, Sockets, Socket, Owns, Contiguous, Follows, Live, Received, Latest

\* No phone is connected at first.
LEMMA RelayingInit == Init => Relaying
<1> SUFFICES ASSUME Init PROVE Relaying
  OBVIOUS
<1>1. /\ \A p \in Phones : /\ ~online[p] /\ subscribed[p] = Null /\ up[p] = <<>>
                           /\ \A h \in Slots : handlers[p][h] = Null
  BY DEF Init
<1>2. QED BY <1>1, TypeInit DEF Relaying, OneHandler, Sockets, Socket, Contiguous, Follows

\* Every step keeps the invariant, if it starts no second handler of a socket.
LEMMA RelayingStep == Relaying /\ [Next]_vars /\ OneHandler' => Relaying'
<1> SUFFICES ASSUME Relaying, [Next]_vars, OneHandler' PROVE Relaying'
  OBVIOUS
<1>1. TypeOK'
  BY TypeStep DEF Relaying
<1>2. CASE UNCHANGED vars
  BY <1>2 DEF Relaying, TypeOK, OneHandler, Sockets, Socket, Owns, Contiguous, Follows, Live, Received,
              Latest, vars, serverVars, sockVars
<1>3. CASE WorkerStep
  <2>1. PICK s \in Sessions : \/ \E k \in 1 .. MaxBatch : Relay(s, k)
                              \/ \E batch \in posts[s] : Persist(s, batch) \/ PersistFails(s, batch)
    BY <1>3 DEF WorkerStep
  <2>2. CASE \E k \in 1 .. MaxBatch : Relay(s, k)
    BY <1>1, <2>2, RelayContiguous DEF Relaying
  <2>3. CASE \E batch \in posts[s] : Persist(s, batch) \/ PersistFails(s, batch)
    BY <1>1, <2>3, PersistKeeps
  <2>4. QED BY <2>1, <2>2, <2>3
<1>4. ASSUME NEW p \in Phones, SubscribeStep(p) PROVE Relaying'
  BY <1>1, <1>4, HandleSubscribeKeeps, QueryKeeps, FinishSubscribeKeeps DEF SubscribeStep
<1>5. ASSUME NEW p \in Phones, BrowserStep(p) PROVE Relaying'
  BY <1>1, <1>5, ConnectKeeps, DisconnectKeeps, OpenSessionKeeps, CloseSessionKeeps, DeliverKeeps
     DEF BrowserStep
<1>6. QED BY <1>2, <1>3, <1>4, <1>5 DEF Next

\* What the invariant says of what is held back.
LEMMA RelayingImplies == Relaying => BufferedDuringBackfill /\ LiveContiguous
BY DEF Relaying, Sockets, Socket, BufferedDuringBackfill, Contiguous, LiveContiguous, Live

-----------------------------------------------------------------------------
(* Events are held back only while a backfill is under way.                *)

\* The handler that holds events back is there until it lets them go, unless a
\* query is rejected.
LEMMA HeldStep ==
    ~QueryMayFail /\ TypeOK /\ HeldOnlyDuringBackfill /\ [Next]_vars => HeldOnlyDuringBackfill'
<1> SUFFICES ASSUME ~QueryMayFail, TypeOK, HeldOnlyDuringBackfill, [Next]_vars
             PROVE  HeldOnlyDuringBackfill'
  OBVIOUS
<1>0. TypeOK'
  BY TypeStep
<1> USE DEF HeldOnlyDuringBackfill, InFlight
<1>1. ASSUME NEW s \in Sessions, NEW k \in 1 .. MaxBatch, Relay(s, k) PROVE HeldOnlyDuringBackfill'
  BY <1>1 DEF Relay
<1>2. ASSUME NEW s \in Sessions, NEW batch \in posts[s], Persist(s, batch) \/ PersistFails(s, batch)
      PROVE  HeldOnlyDuringBackfill'
  BY <1>2 DEF Persist, PersistFails, sockVars
<1>3. ASSUME NEW p \in Phones, HandleSubscribe(p) PROVE HeldOnlyDuringBackfill'
  <2>1. PICK s : s = Head(up[p])
    OBVIOUS
  <2>2. CASE Owns(p, s)
    <3>1. PICK h \in Slots : /\ handlers' = [handlers EXCEPT ![p][h] = [sid |-> s, snapshot |-> Null]]
                             /\ pending' = [pending EXCEPT ![p] = <<>>]
      BY <1>3, <2>1, <2>2 DEF HandleSubscribe, Buffering
    <3>2. up[p] \in Seq(Sessions) /\ up[p] # <<>>
      BY <1>3 DEF HandleSubscribe, TypeOK
    <3>3. s \in Sessions
      BY <2>1, <3>2
    <3>4. [sid |-> s, snapshot |-> Null] # Null
      BY <3>3, NullAssumption DEF Handler
    <3>5. handlers'[p][h] # Null
      BY <3>1, <3>4 DEF TypeOK
    <3>6. \A q \in Phones \ {p} : pending'[q] = pending[q] /\ handlers'[q] = handlers[q]
      BY <3>1 DEF TypeOK
    <3>7. QED BY <3>5, <3>6
  <2>3. CASE ~Owns(p, s)
    BY <1>3, <2>1, <2>3 DEF HandleSubscribe
  <2>4. QED BY <2>2, <2>3
<1>4. ASSUME NEW p \in Phones, NEW h \in Slots, QueryRuns(p, h) PROVE HeldOnlyDuringBackfill'
  <2>1. handlers[p][h] \in Handler /\ handlers[p][h] # Null
    BY <1>4 DEF QueryRuns, Awaiting, TypeOK
  <2>2. PICK b : b = Newest(db[handlers[p][h].sid])
    OBVIOUS
  <2>3. b \in Seq(Event)
    BY <2>1, <2>2, NewestType DEF TypeOK, Handler
  <2>4. PICK r : r = [handlers[p][h] EXCEPT !.snapshot = b]
    OBVIOUS
  <2>5. r # Null
    BY <2>1, <2>3, <2>4, NullAssumption DEF Handler
  <2>6. handlers' = [handlers EXCEPT ![p] = [handlers[p] EXCEPT ![h] = r]] /\ pending' = pending
    BY <1>4, <2>2, <2>4 DEF QueryRuns
  <2>7. \A q \in Phones, g \in Slots : handlers[q][g] # Null => handlers'[q][g] # Null
    BY <2>5, <2>6 DEF TypeOK
  <2>8. QED BY <2>6, <2>7
<1>5. ASSUME NEW p \in Phones, NEW h \in Slots, QueryFails(p, h) PROVE FALSE
  BY <1>5 DEF QueryFails
<1>6. ASSUME NEW p \in Phones, NEW h \in Slots, FinishSubscribe(p, h) PROVE HeldOnlyDuringBackfill'
  <2>1. pending'[p] = Null
    BY <1>6 DEF FinishSubscribe, Released, TypeOK
  <2>2. \A q \in Phones \ {p} : pending'[q] = pending[q] /\ handlers'[q] = handlers[q]
    BY <1>6 DEF FinishSubscribe, Released, TypeOK
  <2>3. QED BY <2>1, <2>2
<1>7. ASSUME NEW p \in Phones, BrowserStep(p) PROVE HeldOnlyDuringBackfill'
  <2>1. CASE Disconnect(p)
    <3>1. pending'[p] = Null
      BY <2>1 DEF Disconnect, TypeOK
    <3>2. \A q \in Phones \ {p} : pending'[q] = pending[q] /\ handlers'[q] = handlers[q]
      BY <2>1 DEF Disconnect, TypeOK
    <3>3. QED BY <3>1, <3>2
  <2>2. CASE ~Disconnect(p)
    <3>1. UNCHANGED <<pending, handlers>>
      BY <1>7, <2>2 DEF BrowserStep, Connect, OpenSession, CloseSession, Deliver, sockVars
    <3>2. QED BY <3>1
  <2>3. QED BY <2>1, <2>2
<1>8. CASE UNCHANGED vars
  BY <1>8 DEF vars, sockVars
<1>9. QED BY <1>1, <1>2, <1>3, <1>4, <1>5, <1>6, <1>7, <1>8 DEF Next, WorkerStep, SubscribeStep

\* Nothing is held back at first.
LEMMA HeldInit == Init => HeldOnlyDuringBackfill
BY DEF Init, HeldOnlyDuringBackfill

\* Nothing but another answer takes the buffer from a backfill, and nothing but a
\* rejected query leaves one behind.
LEMMA HoldsBackStep == TypeOK /\ [Next]_vars => HoldsBack
<1> SUFFICES ASSUME TypeOK, [Next]_vars, NEW p \in Phones
             PROVE  /\ ~Racing(p) /\ Racing(p)' => \E h \in Slots : Answered(p, h) /\ handlers'[p][h] = Null
                    /\ ~Stuck(p) /\ Stuck(p)' => \E h \in Slots : Awaiting(p, h) /\ handlers'[p][h] = Null
  BY DEF HoldsBack
<1> USE DEF Racing, Stuck, InFlight
<1>1. ASSUME /\ pending'[p] = Null <=> pending[p] = Null
             /\ handlers'[p] = handlers[p] /\ subscribed'[p] = subscribed[p]
      PROVE  (Racing(p)' => Racing(p)) /\ (Stuck(p)' => Stuck(p))
  BY <1>1
<1>2. ASSUME NEW s \in Sessions, NEW k \in 1 .. MaxBatch, Relay(s, k)
      PROVE  (Racing(p)' => Racing(p)) /\ (Stuck(p)' => Stuck(p))
  <2>1. PICK batch : /\ batch = [i \in 1 .. k |-> [sid |-> s, n |-> relayed[s] + i]]
                     /\ pending' = [q \in Phones |-> IF Watches(q, s) /\ pending[q] # Null
                                                     THEN pending[q] \o batch ELSE pending[q]]
                     /\ UNCHANGED <<handlers, subscribed>>
    BY <1>2 DEF Relay
  <2>2. batch \in Seq(Event)
    <3>1. batch \in Seq([sid : {s}, n : Nat])
      BY <2>1, BatchType DEF TypeOK
    <3>2. [sid : {s}, n : Nat] \subseteq Event
      BY DEF Event
    <3>3. QED BY <3>1, <3>2, SeqMonotone
  <2>3. ASSUME pending[p] # Null PROVE pending[p] \o batch # Null
    <3>1. pending[p] \in Seq(Event)
      BY <2>3 DEF TypeOK
    <3>2. pending[p] \o batch \in Seq(Event)
      BY <2>2, <3>1, ConcatProperties
    <3>3. QED BY <3>2, NullAssumption
  <2>4. pending'[p] = Null <=> pending[p] = Null
    BY <2>1, <2>3
  <2>5. QED BY <1>1, <2>1, <2>4
<1>3. ASSUME NEW s \in Sessions, NEW batch \in posts[s], Persist(s, batch) \/ PersistFails(s, batch)
      PROVE  (Racing(p)' => Racing(p)) /\ (Stuck(p)' => Stuck(p))
  BY <1>1, <1>3 DEF Persist, PersistFails, sockVars
<1>4. ASSUME NEW q \in Phones, HandleSubscribe(q)
      PROVE  (Racing(p)' => Racing(p)) /\ (Stuck(p)' => Stuck(p))
  <2>1. PICK s : s = Head(up[q])
    OBVIOUS
  <2>2. CASE Owns(q, s)
    <3>1. PICK h \in Slots : /\ handlers' = [handlers EXCEPT ![q][h] = [sid |-> s, snapshot |-> Null]]
                             /\ pending' = [pending EXCEPT ![q] = <<>>]
                             /\ subscribed' = [subscribed EXCEPT ![q] = s]
      BY <1>4, <2>1, <2>2 DEF HandleSubscribe, Buffering
    <3>2. up[q] \in Seq(Sessions) /\ up[q] # <<>>
      BY <1>4 DEF HandleSubscribe, TypeOK
    <3>3. s \in Sessions
      BY <2>1, <3>2
    <3>4. [sid |-> s, snapshot |-> Null] # Null /\ <<>> # Null
      <4>1. [sid |-> s, snapshot |-> Null] # Null
        BY <3>3, NullAssumption DEF Handler
      <4>2. <<>> \in Seq(Event)
        OBVIOUS
      <4>3. QED BY <4>1, <4>2, NullAssumption
    <3>5. CASE p = q
      <4>1. handlers'[p][h] # Null /\ pending'[p] # Null
        BY <3>1, <3>4, <3>5 DEF TypeOK
      <4>2. QED BY <4>1
    <3>6. CASE p # q
      <4>1. pending'[p] = pending[p] /\ handlers'[p] = handlers[p] /\ subscribed'[p] = subscribed[p]
        BY <3>1, <3>6 DEF TypeOK
      <4>2. QED BY <1>1, <4>1
    <3>7. QED BY <3>5, <3>6
  <2>3. CASE ~Owns(q, s)
    BY <1>1, <1>4, <2>1, <2>3 DEF HandleSubscribe
  <2>4. QED BY <2>2, <2>3
<1>5. ASSUME NEW q \in Phones, NEW h \in Slots, QueryRuns(q, h)
      PROVE  (Racing(p)' => Racing(p)) /\ (Stuck(p)' => Stuck(p))
  <2>1. handlers[q][h] \in Handler /\ handlers[q][h] # Null
    BY <1>5 DEF QueryRuns, Awaiting, TypeOK
  <2>2. PICK b : b = Newest(db[handlers[q][h].sid])
    OBVIOUS
  <2>3. b \in Seq(Event)
    BY <2>1, <2>2, NewestType DEF TypeOK, Handler
  <2>4. PICK r : r = [handlers[q][h] EXCEPT !.snapshot = b]
    OBVIOUS
  <2>5. r # Null /\ r.sid = handlers[q][h].sid
    BY <2>1, <2>3, <2>4, NullAssumption DEF Handler
  <2>6. /\ handlers' = [handlers EXCEPT ![q] = [handlers[q] EXCEPT ![h] = r]]
        /\ pending' = pending /\ subscribed' = subscribed
    BY <1>5, <2>2, <2>4 DEF QueryRuns
  <2>7. \A g \in Slots : /\ handlers'[p][g] # Null <=> handlers[p][g] # Null
                         /\ handlers[p][g] # Null => handlers'[p][g].sid = handlers[p][g].sid
    BY <2>1, <2>5, <2>6 DEF TypeOK
  <2>8. QED BY <2>6, <2>7
<1>6. ASSUME NEW q \in Phones, NEW h \in Slots, QueryFails(q, h)
      PROVE  /\ Racing(p)' => Racing(p)
             /\ Stuck(p)' => Stuck(p) \/ (Awaiting(p, h) /\ handlers'[p][h] = Null)
  <2>1. /\ Awaiting(q, h) /\ handlers' = [handlers EXCEPT ![q][h] = Null]
        /\ UNCHANGED <<pending, subscribed>>
    BY <1>6 DEF QueryFails
  <2>2. CASE p = q
    <3>1. handlers'[p][h] = Null /\ \A g \in Slots \ {h} : handlers'[p][g] = handlers[p][g]
      BY <2>1, <2>2 DEF TypeOK
    <3>2. QED BY <2>1, <2>2, <3>1
  <2>3. CASE p # q
    <3>1. handlers'[p] = handlers[p]
      BY <2>1, <2>3 DEF TypeOK
    <3>2. QED BY <1>1, <2>1, <3>1
  <2>4. QED BY <2>2, <2>3
<1>7. ASSUME NEW q \in Phones, NEW h \in Slots, FinishSubscribe(q, h)
      PROVE  /\ Racing(p)' => Racing(p) \/ (Answered(p, h) /\ handlers'[p][h] = Null)
             /\ Stuck(p)' => Stuck(p)
  <2>1. /\ Answered(q, h) /\ handlers' = [handlers EXCEPT ![q][h] = Null]
        /\ pending' = [pending EXCEPT ![q] = Null] /\ subscribed' = subscribed
    BY <1>7 DEF FinishSubscribe, Released
  <2>2. CASE p = q
    <3>1. handlers'[p][h] = Null /\ pending'[p] = Null
      BY <2>1, <2>2 DEF TypeOK
    <3>2. QED BY <2>1, <2>2, <3>1
  <2>3. CASE p # q
    <3>1. handlers'[p] = handlers[p] /\ pending'[p] = pending[p]
      BY <2>1, <2>3 DEF TypeOK
    <3>2. QED BY <1>1, <2>1, <3>1
  <2>4. QED BY <2>2, <2>3
<1>8. ASSUME NEW q \in Phones, BrowserStep(q)
      PROVE  (Racing(p)' => Racing(p)) /\ (Stuck(p)' => Stuck(p))
  <2>1. CASE Disconnect(q) /\ p = q
    <3>1. pending'[p] = Null /\ \A h \in Slots : handlers'[p][h] = Null
      BY <2>1 DEF Disconnect, TypeOK
    <3>2. QED BY <3>1
  <2>2. CASE Disconnect(q) /\ p # q
    <3>1. pending'[p] = pending[p] /\ handlers'[p] = handlers[p] /\ subscribed'[p] = subscribed[p]
      BY <2>2 DEF Disconnect, TypeOK
    <3>2. QED BY <1>1, <3>1
  <2>3. CASE ~Disconnect(q)
    <3>1. UNCHANGED <<pending, handlers, subscribed>>
      BY <1>8, <2>3 DEF BrowserStep, Connect, OpenSession, CloseSession, Deliver, sockVars
    <3>2. QED BY <1>1, <3>1
  <2>4. QED BY <2>1, <2>2, <2>3
<1>9. CASE UNCHANGED vars
  BY <1>1, <1>9 DEF vars, sockVars
<1>10. ASSUME NEW q \in Phones, NEW h \in Slots,
              QueryRuns(q, h) \/ QueryFails(q, h) \/ FinishSubscribe(q, h)
       PROVE  /\ Racing(p)' => Racing(p) \/ (Answered(p, h) /\ handlers'[p][h] = Null)
              /\ Stuck(p)' => Stuck(p) \/ (Awaiting(p, h) /\ handlers'[p][h] = Null)
  BY <1>5, <1>6, <1>7, <1>10
<1> HIDE DEF Racing, Stuck, InFlight
<1>11. QED BY <1>2, <1>3, <1>4, <1>8, <1>9, <1>10 DEF Next, WorkerStep, SubscribeStep

-----------------------------------------------------------------------------
(* A backfill is in order.                                                 *)

\* Events of session s in the order it emitted them.
Chronicle(s) ==
    {b \in Seq(Event) : /\ \A i \in DOMAIN b : b[i].sid = s
                        /\ \A i, j \in DOMAIN b : i < j => b[i].n < b[j].n}
\* ... without deltas: what a backfill of s may be.
Backfills(s) == {b \in Chronicle(s) : \A i \in DOMAIN b : b[i].n \in Stored}

\* A worker awaits the answer of its POST: a batch under way comes after what
\* the database has, and is the only one.
Storing(s) ==
    /\ db[s] \in Backfills(s)
    /\ \A i \in DOMAIN db[s] : db[s][i].n <= relayed[s]
    /\ \A batch \in posts[s] :
          /\ batch \in Chronicle(s)
          /\ \A j \in DOMAIN batch : batch[j].n <= relayed[s]
          /\ \A i \in DOMAIN db[s], j \in DOMAIN batch : db[s][i].n < batch[j].n
    /\ \A b, c \in posts[s] : b = c

\* History frames carry backfills of their session.
OrderedFrames == {f \in Frames(Sessions, Event) : f.type = "history" => f.events \in Backfills(f.sid)}

Backfilled(p) ==
    /\ \A h \in Slots : Answered(p, h) => handlers[p][h].snapshot \in Backfills(handlers[p][h].sid)
    /\ down[p] \in Seq(OrderedFrames)
    /\ open[p] # Null => shown[p].backfill \in Backfills(open[p])
InOrder == TypeOK /\ (\A s \in Sessions : Storing(s)) /\ \A p \in Phones : Backfilled(p)

\* An empty backfill is in order.
LEMMA EmptyInOrder == \A s : <<>> \in Backfills(s) /\ <<>> \in Chronicle(s)
<1>1. <<>> \in Seq(Event) /\ DOMAIN <<>> = {}
  OBVIOUS
<1>2. QED BY <1>1 DEF Backfills, Chronicle

\* The newest events of a history are in order.
LEMMA NewestInOrder ==
    ASSUME NEW s, NEW b \in Backfills(s)
    PROVE  /\ Newest(b) \in Backfills(s)
           /\ \A i \in DOMAIN Newest(b) : \E j \in DOMAIN b : Newest(b)[i] = b[j]
<1>1. b \in Seq(Event)
  BY DEF Backfills, Chronicle
<1>2. CASE Len(b) > HistoryLimit
  <2>1. PICK n \in Nat : n = Len(b)
    BY <1>1
  <2>0. HistoryLimit \in Nat \ {0}
    BY RelayAssumption
  <2>2. PICK k \in Nat : k = n - HistoryLimit
    <3>1. n - HistoryLimit \in Nat
      BY <1>2, <2>0, <2>1
    <3>2. QED BY <3>1
  <2>3. PICK c : c = SubSeq(b, k + 1, n)
    OBVIOUS
  <2>4. Newest(b) = c
    BY <1>2, <2>1, <2>2, <2>3 DEF Newest
  <2>5. k + 1 \in 1 .. n + 1 /\ n \in 0 .. Len(b) /\ n - k = HistoryLimit
    BY <1>2, <2>0, <2>1, <2>2
  <2>6. c \in Seq(Event) /\ Len(c) = HistoryLimit /\ \A i \in 1 .. HistoryLimit : c[i] = b[k + i] /\ k + i \in DOMAIN b
    BY <1>1, <2>1, <2>2, <2>3, <2>0, <2>5, SubSeqProperties
  <2>7. DOMAIN c = 1 .. HistoryLimit /\ \A i, j \in 1 .. HistoryLimit : i < j => k + i < k + j
    BY <2>0, <2>2, <2>6
  <2>8. c \in Backfills(s)
    BY <2>6, <2>7 DEF Backfills, Chronicle
  <2>9. QED BY <2>4, <2>6, <2>7, <2>8
<1>3. CASE ~(Len(b) > HistoryLimit)
  BY <1>3 DEF Newest
<1>4. QED BY <1>2, <1>3

\* What appendEvents keeps of a batch is in order.
LEMMA PickInOrder ==
    ASSUME NEW s, NEW b \in Chronicle(s)
    PROVE  /\ Pick(b, Stored) \in Backfills(s)
           /\ \A i \in DOMAIN Pick(b, Stored) : \E j \in DOMAIN b : Pick(b, Stored)[i] = b[j]
<1> DEFINE I == {i \in DOMAIN b : b[i].n \in Stored}
           R == {r \in Event \X Event : r[1].n < r[2].n}
<1>1. PICK q : q = SubseqAt(b, I)
  OBVIOUS
<1>2. q = Pick(b, Stored)
  BY <1>1 DEF Pick
<1>3. b \in Seq(Event) /\ (\A i \in DOMAIN b : b[i] \in Event /\ b[i].sid = s)
      /\ \A i, j \in DOMAIN b : i < j => b[i].n < b[j].n
  BY DEF Chronicle
<1>4. \A i, j \in DOMAIN b : i < j => <<b[i], b[j]>> \in R
  BY <1>3
<1> HIDE DEF R
<1>5. q \in Seq(Event) /\ \A j \in DOMAIN q : \E i \in DOMAIN b : i \in I /\ q[j] = b[i]
  <2> HIDE DEF I
  <2>1. b \in Seq(Event)
    BY <1>3
  <2>2. QED BY ONLY <1>1, <2>1, SubseqAtContents
<1>6. \A i, j \in DOMAIN q : i < j => <<q[i], q[j]>> \in R
  <2> HIDE DEF I
  <2>1. b \in Seq(Event)
    BY <1>3
  <2>2. QED BY ONLY <1>1, <1>4, <2>1, SubseqAtOrder
<1>7. \A i, j \in DOMAIN q : i < j => q[i].n < q[j].n
  BY <1>6 DEF R
<1>8. \A i \in DOMAIN q : q[i].sid = s /\ q[i].n \in Stored
  BY <1>3, <1>5
<1>9. q \in Backfills(s)
  BY <1>5, <1>7, <1>8 DEF Backfills, Chronicle
<1>10. QED BY <1>2, <1>5, <1>9

\* A batch after what is stored keeps the order.
LEMMA ConcatInOrder ==
    ASSUME NEW s, NEW a \in Backfills(s), NEW b \in Backfills(s),
           \A i \in DOMAIN a, j \in DOMAIN b : a[i].n < b[j].n
    PROVE  /\ a \o b \in Backfills(s)
           /\ \A i \in DOMAIN (a \o b) : \/ \E j \in DOMAIN a : (a \o b)[i] = a[j]
                                         \/ \E j \in DOMAIN b : (a \o b)[i] = b[j]
<1>1. PICK m \in Nat : m = Len(a)
  BY DEF Backfills, Chronicle
<1>2. PICK n \in Nat : n = Len(b)
  BY DEF Backfills, Chronicle
<1>3. PICK c : c = a \o b
  OBVIOUS
<1>4. /\ a \in Seq(Event) /\ b \in Seq(Event) /\ c \in Seq(Event)
      /\ DOMAIN a = 1 .. m /\ DOMAIN b = 1 .. n /\ DOMAIN c = 1 .. m + n
      /\ \A i \in 1 .. m : c[i] = a[i]
      /\ \A i \in 1 .. n : c[m + i] = b[i]
  BY <1>1, <1>2, <1>3 DEF Backfills, Chronicle
<1>5. \A i \in 1 .. m + n : i \in 1 .. m \/ \E j \in 1 .. n : i = m + j
  <2>1. ASSUME NEW i \in 1 .. m + n, i \notin 1 .. m PROVE \E j \in 1 .. n : i = m + j
    <3>1. i - m \in 1 .. n /\ i = m + (i - m)
      BY <2>1
    <3>2. QED BY <3>1
  <2>2. QED BY <2>1
<1>10. \A i \in DOMAIN c : (\E j \in DOMAIN a : c[i] = a[j]) \/ \E j \in DOMAIN b : c[i] = b[j]
  <2>1. ASSUME NEW i \in DOMAIN c
        PROVE  (\E j \in DOMAIN a : c[i] = a[j]) \/ \E j \in DOMAIN b : c[i] = b[j]
    <3>1. CASE i \in 1 .. m
      BY <1>4, <3>1
    <3>2. CASE i \notin 1 .. m
      <4>1. PICK j \in 1 .. n : i = m + j
        BY <1>4, <1>5, <3>2
      <4>2. QED BY <1>4, <4>1
    <3>3. QED BY <3>1, <3>2
  <2>2. QED BY <2>1
<1>6. \A i \in DOMAIN c : c[i].sid = s /\ c[i].n \in Stored
  BY <1>10 DEF Backfills, Chronicle
<1>7. ASSUME NEW i \in DOMAIN c, NEW j \in DOMAIN c, i < j PROVE c[i].n < c[j].n
  <2>1. CASE i \in 1 .. m /\ j \in 1 .. m
    BY <1>4, <1>7, <2>1 DEF Backfills, Chronicle
  <2>2. CASE i \in 1 .. m /\ j \notin 1 .. m
    <3>1. PICK k \in 1 .. n : j = m + k
      BY <1>4, <1>5, <2>2
    <3>2. QED BY <1>4, <2>2, <3>1
  <2>3. CASE i \notin 1 .. m
    <3>1. PICK k \in 1 .. n : i = m + k
      BY <1>4, <1>5, <2>3
    <3>2. j \notin 1 .. m
      BY <1>7, <3>1
    <3>3. PICK l \in 1 .. n : j = m + l
      BY <1>4, <1>5, <3>2
    <3>4. k < l
      BY <1>7, <3>1, <3>3
    <3>5. b[k].n < b[l].n
      BY <1>4, <3>4 DEF Backfills, Chronicle
    <3>6. QED BY <1>4, <3>1, <3>3, <3>5
  <2>4. QED BY <2>1, <2>2, <2>3
<1>8. c \in Backfills(s)
  BY <1>4, <1>6, <1>7 DEF Backfills, Chronicle
<1>9. QED BY <1>3, <1>8, <1>10

\* What a phone is sent next is in order, if each part of it is.
LEMMA BackfilledNext ==
    ASSUME NEW p \in Phones,
           \A h \in Slots : handlers'[p][h] # Null /\ handlers'[p][h].snapshot # Null =>
              handlers'[p][h].snapshot \in Backfills(handlers'[p][h].sid),
           down'[p] \in Seq(OrderedFrames),
           open'[p] # Null => shown'[p].backfill \in Backfills(open'[p])
    PROVE  Backfilled(p)'
<1>1. (\A h \in Slots : Answered(p, h) => handlers[p][h].snapshot \in Backfills(handlers[p][h].sid))'
  BY DEF Answered, Backfills, Chronicle
<1>2. (down[p] \in Seq(OrderedFrames))'
  BY DEF OrderedFrames, Backfills, Chronicle
<1>3. (open[p] # Null => shown[p].backfill \in Backfills(open[p]))'
  BY DEF Backfills, Chronicle
<1>4. QED BY <1>1, <1>2, <1>3 DEF Backfilled

\* Frames of events and notifications are no history frames.
LEMMA EventFramesOrdered ==
    ASSUME NEW s \in Sessions, NEW events \in Seq(Event), NEW type \in {"event", "notify"}
    PROVE  EventFrames(type, s, events) \in Seq(OrderedFrames)
<1>1. PICK n \in Nat : n = Len(events)
  OBVIOUS
<1>2. PICK frames : frames = EventFrames(type, s, events)
  OBVIOUS
<1>3. /\ frames \in Seq(Frames(Sessions, Event))
      /\ DOMAIN frames = 1 .. n /\ \A i \in 1 .. n : frames[i].type = type
  <2>1. frames \in Seq(Frames(Sessions, Event))
    BY <1>2, EventFramesType
  <2>2. QED BY <1>1, <1>2, <2>1 DEF EventFrames
<1>4. frames \in [1 .. n -> OrderedFrames]
  BY <1>3 DEF OrderedFrames
<1>5. QED BY <1>2, <1>4, FunctionIsSeq

\* The batch of a POST follows what is stored; nothing else is under way then.
LEMMA RelayInOrder ==
    ASSUME MaxPosts = 1, InOrder, TypeOK', NEW s \in Sessions, NEW k \in 1 .. MaxBatch, Relay(s, k)
    PROVE  InOrder'
<1>1. PICK batch : batch = [i \in 1 .. k |-> [sid |-> s, n |-> relayed[s] + i]]
  OBVIOUS
<1>2. /\ Cardinality(posts[s]) < 1
      /\ relayed' = [relayed EXCEPT ![s] = @ + k]
      /\ posts' = [posts EXCEPT ![s] = @ \cup {batch}]
      /\ down' = [p \in Phones |->
            IF Watches(p, s) /\ pending[p] = Null THEN down[p] \o EventFrames("event", s, batch)
            ELSE IF Overhears(p, s) THEN down[p] \o EventFrames("notify", s, Pick(batch, Notes))
            ELSE down[p]]
      /\ UNCHANGED <<db, handlers, open, shown>>
  BY <1>1 DEF Relay
<1>3. k \in Nat /\ relayed[s] \in Nat /\ TypeOK /\ Storing(s)
  BY DEF InOrder, TypeOK
<1>4. batch \in Seq(Event) /\ DOMAIN batch = 1 .. k /\ \A i \in 1 .. k : batch[i] = [sid |-> s, n |-> relayed[s] + i]
  <2>1. [i \in 1 .. k |-> [sid |-> s, n |-> relayed[s] + i]] \in [1 .. k -> Event]
    BY <1>3 DEF Event
  <2>2. QED BY <1>1, <1>3, <2>1, FunctionIsSeq
<1>5. batch \in Chronicle(s)
  BY <1>3, <1>4 DEF Chronicle
<1>6. posts[s] = {}
  <2>1. ASSUME posts[s] # {} PROVE FALSE
    <3>1. PICK b : posts[s] = {b}
      BY <1>3, <2>1 DEF Storing
    <3>2. Cardinality({b}) = 1
      BY FS_Singleton
    <3>3. QED BY <1>2, <3>1, <3>2
  <2>2. QED BY <2>1
<1>7. relayed'[s] = relayed[s] + k /\ posts'[s] = {batch} /\ db'[s] = db[s]
  BY <1>2, <1>3, <1>6 DEF TypeOK
<1>8. Storing(s)'
  <2>1. \A i \in DOMAIN db[s] : db[s][i].n \in Nat
    <3>1. ASSUME NEW i \in DOMAIN db[s] PROVE db[s][i].n \in Nat
      <4>1. db[s] \in Seq(Event)
        BY <1>3 DEF TypeOK
      <4>2. db[s][i] \in Event
        BY <4>1
      <4>3. QED BY <4>2 DEF Event
    <3>2. QED BY <3>1
  <2>2. \A i \in DOMAIN db[s] : db[s][i].n <= relayed[s] + k
    BY <1>3, <2>1 DEF Storing
  <2>3. \A j \in DOMAIN batch : batch[j].n <= relayed[s] + k
    BY <1>3, <1>4
  <2>4. \A i \in DOMAIN db[s], j \in DOMAIN batch : db[s][i].n < batch[j].n
    <3>1. ASSUME NEW i \in DOMAIN db[s], NEW j \in 1 .. k PROVE db[s][i].n < relayed[s] + j
      <4>1. PICK m \in Nat : m = db[s][i].n
        BY <2>1
      <4>2. m <= relayed[s]
        BY <1>3, <4>1 DEF Storing
      <4>3. QED BY <1>3, <4>1, <4>2
    <3>2. QED BY <1>4, <3>1
  <2>5. db[s] \in Backfills(s)
    BY <1>3 DEF Storing
  <2>6. QED BY <1>5, <1>7, <2>2, <2>3, <2>4, <2>5 DEF Storing, Backfills, Chronicle
<1>9. \A x \in Sessions \ {s} : Storing(x)'
  <2>1. ASSUME NEW x \in Sessions \ {s} PROVE Storing(x)'
    <3>1. relayed'[x] = relayed[x] /\ posts'[x] = posts[x] /\ db'[x] = db[x] /\ Storing(x)
      BY <1>2, <1>3 DEF InOrder, TypeOK
    <3>2. QED BY <3>1 DEF Storing, Backfills, Chronicle
  <2>2. QED BY <2>1
<1>10. ASSUME NEW p \in Phones PROVE Backfilled(p)'
  <2>1. down[p] \in Seq(OrderedFrames) /\ Backfilled(p)
    BY DEF InOrder, Backfilled
  <2>2. PICK e, o, q : /\ q = Pick(batch, Notes)
                       /\ e = EventFrames("event", s, batch)
                       /\ o = EventFrames("notify", s, q)
    OBVIOUS
  <2>3. q \in Seq(Event)
    BY <1>4, <2>2, PickType
  <2>4. e \in Seq(OrderedFrames) /\ o \in Seq(OrderedFrames)
    BY <1>4, <2>2, <2>3, EventFramesOrdered
  <2>5. down[p] \o e \in Seq(OrderedFrames) /\ down[p] \o o \in Seq(OrderedFrames)
    BY <2>1, <2>4, ConcatProperties
  <2>6. down'[p] \in Seq(OrderedFrames)
    BY <1>2, <2>1, <2>2, <2>5
  <2>7. QED BY <1>2, <2>1, <2>6 DEF Backfilled, Answered, OrderedFrames, Backfills, Chronicle
<1>11. QED BY <1>8, <1>9, <1>10 DEF InOrder

\* What is stored grows by the batch of the POST; a rejected INSERT loses it.
LEMMA PersistInOrder ==
    ASSUME InOrder, TypeOK', NEW s \in Sessions, NEW batch \in posts[s],
           Persist(s, batch) \/ PersistFails(s, batch)
    PROVE  InOrder'
<1>1. /\ posts' = [posts EXCEPT ![s] = @ \ {batch}]
      /\ UNCHANGED <<relayed, handlers, down, open, shown>>
  BY DEF Persist, PersistFails, sockVars
<1>2. TypeOK /\ Storing(s)
  BY DEF InOrder
<1>3. posts'[s] = {} /\ relayed'[s] = relayed[s] /\ relayed[s] \in Nat
  BY <1>1, <1>2 DEF TypeOK, Storing
<1>4. db'[s] \in Backfills(s) /\ \A i \in DOMAIN db'[s] : db'[s][i].n <= relayed[s]
  <2>1. CASE PersistFails(s, batch)
    <3>1. db'[s] = db[s]
      BY <2>1 DEF PersistFails
    <3>2. QED BY <1>2, <3>1 DEF Storing
  <2>2. CASE Persist(s, batch)
    <3>1. PICK q, a, g : q = Pick(batch, Stored) /\ a = db[s] /\ g = a \o q
      OBVIOUS
    <3>2. /\ q \in Backfills(s) /\ \A i \in DOMAIN q : \E j \in DOMAIN batch : q[i] = batch[j]
      BY <1>2, <3>1, PickInOrder DEF Storing
    <3>3. a \in Backfills(s) /\ \A i \in DOMAIN a, j \in DOMAIN q : a[i].n < q[j].n
      BY <1>2, <3>1, <3>2 DEF Storing
    <3>4. /\ g \in Backfills(s)
          /\ \A i \in DOMAIN g : (\E j \in DOMAIN a : g[i] = a[j]) \/ \E j \in DOMAIN q : g[i] = q[j]
      <4>1. /\ a \o q \in Backfills(s)
            /\ \A i \in DOMAIN (a \o q) : \/ \E j \in DOMAIN a : (a \o q)[i] = a[j]
                                          \/ \E j \in DOMAIN q : (a \o q)[i] = q[j]
        BY ONLY <3>2, <3>3, ConcatInOrder
      <4>2. QED BY <3>1, <4>1
    <3>5. \A i \in DOMAIN g : g[i].n <= relayed[s]
      <4>1. \A j \in DOMAIN a : a[j].n <= relayed[s]
        BY <1>2, <3>1 DEF Storing
      <4>2. \A j \in DOMAIN q : q[j].n <= relayed[s]
        BY <1>2, <3>2 DEF Storing
      <4>3. QED BY <3>4, <4>1, <4>2
    <3>6. db' = [db EXCEPT ![s] = IF HasPool THEN g ELSE Newest(g)]
      BY <2>2, <3>1 DEF Persist
    <3>7. db'[s] = g \/ db'[s] = Newest(g)
      BY <1>2, <3>6 DEF TypeOK
    <3>8. Newest(g) \in Backfills(s) /\ \A i \in DOMAIN Newest(g) : Newest(g)[i].n <= relayed[s]
      BY <3>4, <3>5, NewestInOrder
    <3>9. QED BY <3>4, <3>5, <3>7, <3>8
  <2>3. QED BY <2>1, <2>2
<1>5. Storing(s)'
  BY <1>3, <1>4 DEF Storing, Backfills, Chronicle
<1>6. ASSUME NEW x \in Sessions \ {s} PROVE Storing(x)'
  <2>1. relayed'[x] = relayed[x] /\ posts'[x] = posts[x] /\ db'[x] = db[x] /\ Storing(x)
    BY <1>1, <1>2 DEF InOrder, TypeOK, Persist, PersistFails
  <2>2. QED BY <2>1 DEF Storing, Backfills, Chronicle
<1>7. ASSUME NEW p \in Phones PROVE Backfilled(p)'
  <2>1. Backfilled(p)
    BY DEF InOrder
  <2>2. QED BY <1>1, <2>1, BackfilledNext DEF Backfilled, Answered
<1>8. QED BY <1>5, <1>6, <1>7 DEF InOrder

\* The steps of a subscribe.
LEMMA SubscribeInOrder ==
    ASSUME InOrder, TypeOK', NEW p \in Phones, SubscribeStep(p)
    PROVE  InOrder'
<1>0. TypeOK /\ (\A s \in Sessions : Storing(s)) /\ \A q \in Phones : Backfilled(q)
  BY DEF InOrder
<1>1. UNCHANGED serverVars /\ UNCHANGED <<open, shown>>
  BY DEF SubscribeStep, HandleSubscribe, QueryRuns, QueryFails, FinishSubscribe
<1>2. \A s \in Sessions : Storing(s)'
  BY <1>0, <1>1 DEF serverVars, Storing, Backfills, Chronicle
<1>3. SUFFICES \A q \in Phones : Backfilled(q)'
  BY <1>2 DEF InOrder
<1>4. CASE HandleSubscribe(p)
  <2>1. down' = down
    BY <1>4 DEF HandleSubscribe
  <2>2. \A q \in Phones, h \in Slots :
           handlers'[q][h] = handlers[q][h] \/ handlers'[q][h].snapshot = Null
    <3>1. PICK s : s = Head(up[p])
      OBVIOUS
    <3>2. CASE handlers' = handlers
      BY <3>2
    <3>3. CASE handlers' # handlers
      <4>1. PICK h \in Slots : handlers' = [handlers EXCEPT ![p] = [handlers[p] EXCEPT ![h] = [sid |-> s, snapshot |-> Null]]]
        BY <1>4, <3>1, <3>3 DEF HandleSubscribe
      <4>2. PICK r : r = [sid |-> s, snapshot |-> Null]
        OBVIOUS
      <4>3. r.snapshot = Null
        BY <4>2
      <4>4. QED BY <1>0, <4>1, <4>2, <4>3 DEF TypeOK
    <3>4. QED BY <3>2, <3>3
  <2>3. QED BY <1>0, <1>1, <2>1, <2>2, BackfilledNext DEF Backfilled, Answered
<1>5. ASSUME NEW h \in Slots, QueryRuns(p, h) PROVE \A q \in Phones : Backfilled(q)'
  <2>1. handlers[p][h] \in Handler /\ handlers[p][h] # Null
    BY <1>0, <1>5 DEF QueryRuns, Awaiting, TypeOK
  <2>s. PICK s \in Sessions : s = handlers[p][h].sid
    BY <2>1 DEF Handler
  <2>2. PICK b : s = handlers[p][h].sid /\ b = Newest(db[s])
    BY <2>s
  <2>3. b \in Backfills(s)
    <3>1. db[s] \in Backfills(s)
      BY <1>0 DEF Storing
    <3>2. QED BY <2>2, <3>1, NewestInOrder
  <2>4. PICK r : r = [handlers[p][h] EXCEPT !.snapshot = b]
    OBVIOUS
  <2>5. r.sid = s /\ r.snapshot = b
    BY <2>1, <2>2, <2>4 DEF Handler
  <2>6. handlers' = [handlers EXCEPT ![p] = [handlers[p] EXCEPT ![h] = r]] /\ down' = down
    BY <1>5, <2>2, <2>4 DEF QueryRuns
  <2>7. /\ handlers'[p][h] = r
        /\ \A q \in Phones, g \in Slots : q # p \/ g # h => handlers'[q][g] = handlers[q][g]
    BY <1>0, <2>6 DEF TypeOK
  <2>8. ASSUME NEW q \in Phones, NEW g \in Slots,
               handlers'[q][g] # Null /\ handlers'[q][g].snapshot # Null
        PROVE  handlers'[q][g].snapshot \in Backfills(handlers'[q][g].sid)
    <3>1. CASE q = p /\ g = h
      BY <2>3, <2>5, <2>7, <3>1
    <3>2. CASE q # p \/ g # h
      BY <1>0, <2>7, <2>8, <3>2 DEF Backfilled, Answered
    <3>3. QED BY <3>1, <3>2
  <2>9. QED BY <1>0, <1>1, <2>6, <2>8, BackfilledNext DEF Backfilled
<1>6. ASSUME NEW h \in Slots, QueryFails(p, h) PROVE \A q \in Phones : Backfilled(q)'
  <2>1. handlers' = [handlers EXCEPT ![p] = [handlers[p] EXCEPT ![h] = Null]] /\ down' = down
    BY <1>6 DEF QueryFails
  <2>2. \A q \in Phones, g \in Slots : handlers'[q][g] = handlers[q][g] \/ handlers'[q][g] = Null
    BY <1>0, <2>1 DEF TypeOK
  <2>3. QED BY <1>0, <1>1, <2>1, <2>2, BackfilledNext DEF Backfilled, Answered
<1>7. ASSUME NEW h \in Slots, FinishSubscribe(p, h) PROVE \A q \in Phones : Backfilled(q)'
  <2>1. PICK s, b : s = handlers[p][h].sid /\ b = handlers[p][h].snapshot
    OBVIOUS
  <2>2. s \in Sessions /\ b \in Backfills(s)
    <3>1. Answered(p, h) /\ handlers[p][h] \in Handler
      BY <1>0, <1>7 DEF FinishSubscribe, Answered, TypeOK
    <3>2. QED BY <1>0, <2>1, <3>1 DEF Backfilled, Handler
  <2>3. PICK one, d : one = <<HistoryFrame(s, b)>> /\ d = Drained(p, s)
    OBVIOUS
  <2>4. HistoryFrame(s, b) \in OrderedFrames
    <3>1. b \in Seq(Event)
      BY <2>2 DEF Backfills, Chronicle
    <3>2. QED BY <2>2, <3>1 DEF HistoryFrame, Frames, OrderedFrames
  <2>5. d \in Seq(OrderedFrames)
    <3>1. CASE pending[p] = Null
      BY <2>3, <3>1 DEF Drained
    <3>2. CASE pending[p] # Null
      <4>1. pending[p] \in Seq(Event)
        BY <1>0, <3>2, ReceivedTypes
      <4>2. QED BY <2>2, <2>3, <3>2, <4>1, EventFramesOrdered DEF Drained
    <3>3. QED BY <3>1, <3>2
  <2>6. down[p] \o one \o d \in Seq(OrderedFrames)
    <3>1. PICK x : x = down[p] \o one
      OBVIOUS
    <3>2. down[p] \in Seq(OrderedFrames) /\ one \in Seq(OrderedFrames)
      BY <1>0, <2>3, <2>4 DEF Backfilled
    <3>3. x \in Seq(OrderedFrames)
      BY <3>1, <3>2, ConcatProperties
    <3>4. x \o d \in Seq(OrderedFrames)
      BY <2>5, <3>3, ConcatProperties
    <3>5. QED BY <3>1, <3>4
  <2>7. /\ down' = [down EXCEPT ![p] = down[p] \o one \o d]
        /\ handlers' = [handlers EXCEPT ![p] = [handlers[p] EXCEPT ![h] = Null]]
    BY <1>7, <2>1, <2>3 DEF FinishSubscribe
  <2>8. \A q \in Phones, g \in Slots : handlers'[q][g] = handlers[q][g] \/ handlers'[q][g] = Null
    BY <1>0, <2>7 DEF TypeOK
  <2>9. \A q \in Phones : down'[q] \in Seq(OrderedFrames)
    <3>1. \A q \in Phones : down'[q] = down[q] \/ down'[q] = down[p] \o one \o d
      BY <1>0, <2>7 DEF TypeOK
    <3>2. QED BY <1>0, <2>6, <3>1 DEF Backfilled
  <2>10. QED BY <1>0, <1>1, <2>8, <2>9, BackfilledNext DEF Backfilled, Answered
<1>8. QED BY <1>4, <1>5, <1>6, <1>7 DEF SubscribeStep

\* The steps of the socket and of the browser.
LEMMA BrowserInOrder ==
    ASSUME InOrder, TypeOK', NEW p \in Phones, BrowserStep(p)
    PROVE  InOrder'
<1>0. TypeOK /\ (\A s \in Sessions : Storing(s)) /\ \A q \in Phones : Backfilled(q)
  BY DEF InOrder
<1>1. UNCHANGED serverVars
  BY DEF BrowserStep, Connect, Disconnect, OpenSession, CloseSession, Deliver
<1>2. \A s \in Sessions : Storing(s)'
  BY <1>0, <1>1 DEF serverVars, Storing, Backfills, Chronicle
<1>3. SUFFICES \A q \in Phones : Backfilled(q)'
  BY <1>2 DEF InOrder
<1>4. CASE Connect(p)
  <2>1. UNCHANGED <<handlers, down, open, shown>>
    BY <1>4 DEF Connect
  <2>2. QED BY <1>0, <2>1, BackfilledNext DEF Backfilled, Answered
<1>5. CASE Disconnect(p)
  <2>1. /\ handlers' = [handlers EXCEPT ![p] = [h \in Slots |-> Null]]
        /\ down' = [down EXCEPT ![p] = <<>>] /\ UNCHANGED <<open, shown>>
    BY <1>5 DEF Disconnect
  <2>2. \A q \in Phones, g \in Slots : handlers'[q][g] = handlers[q][g] \/ handlers'[q][g] = Null
    BY <1>0, <2>1 DEF TypeOK
  <2>3. <<>> \in Seq(OrderedFrames)
    OBVIOUS
  <2>4. \A q \in Phones : down'[q] = down[q] \/ down'[q] = <<>>
    BY <1>0, <2>1 DEF TypeOK
  <2>5. QED BY <1>0, <2>1, <2>2, <2>3, <2>4, BackfilledNext DEF Backfilled, Answered
<1>6. CASE CloseSession(p) \/ \E s \in Sessions : OpenSession(p, s)
  <2>1. /\ shown' = [shown EXCEPT ![p] = Blank] /\ UNCHANGED <<handlers, down>>
        /\ \E s : open' = [open EXCEPT ![p] = s]
    BY <1>6 DEF OpenSession, CloseSession, sockVars
  <2>2. \A q \in Phones : shown'[q].backfill = <<>> \/ (shown'[q] = shown[q] /\ open'[q] = open[q])
    BY <1>0, <2>1 DEF Blank, TypeOK
  <2>3. QED BY <1>0, <2>1, <2>2, EmptyInOrder, BackfilledNext DEF Backfilled, Answered
<1>7. CASE Deliver(p)
  <2>1. /\ down[p] # <<>>
        /\ shown' = [shown EXCEPT ![p] = Consume(shown[p], Head(down[p]), open[p])]
        /\ down' = [down EXCEPT ![p] = Tail(down[p])]
        /\ UNCHANGED <<handlers, open>>
    BY <1>7 DEF Deliver, sockVars
  <2>2. PICK f, ds, t : f = Head(down[p]) /\ ds = Tail(down[p]) /\ t = shown[p]
    OBVIOUS
  <2>3. f \in OrderedFrames /\ ds \in Seq(OrderedFrames)
    BY <1>0, <2>1, <2>2, HeadTailProperties DEF Backfilled
  <2>4. t \in Transcript
    BY <1>0, <2>2 DEF TypeOK
  <2>5. open[p] # Null => Consume(t, f, open[p]).backfill \in Backfills(open[p])
    <3>1. ASSUME open[p] # Null PROVE Consume(t, f, open[p]).backfill \in Backfills(open[p])
      <4>1. t.backfill \in Backfills(open[p])
        BY <1>0, <2>2, <3>1 DEF Backfilled
      <4>2. CASE f.sid # open[p] \/ f.type = "notify"
        BY <4>1, <4>2 DEF Consume
      <4>3. CASE f.sid = open[p] /\ f.type = "history"
        <5>1. f.events \in Backfills(open[p])
          BY <2>3, <4>3 DEF OrderedFrames
        <5>2. QED BY <4>3, <5>1 DEF Consume
      <4>4. CASE f.sid = open[p] /\ f.type \notin {"history", "notify"}
        <5>1. Consume(t, f, open[p]) = [t EXCEPT !.live = @ \o f.events]
          BY <4>4 DEF Consume
        <5>2. Consume(t, f, open[p]).backfill = t.backfill
          BY <2>4, <5>1 DEF Transcript
        <5>3. QED BY <4>1, <5>2
      <4>5. QED BY <4>2, <4>3, <4>4
    <3>2. QED BY <3>1
  <2>6. \A q \in Phones : \/ down'[q] = ds /\ shown'[q] = Consume(t, f, open[p]) /\ q = p
                          \/ down'[q] = down[q] /\ shown'[q] = shown[q]
    BY <1>0, <2>1, <2>2 DEF TypeOK
  <2>7. QED BY <1>0, <2>1, <2>3, <2>5, <2>6, BackfilledNext DEF Backfilled, Answered
<1>8. QED BY <1>4, <1>5, <1>6, <1>7 DEF BrowserStep

\* Nothing is out of order at first.
LEMMA InOrderInit == Init => InOrder
<1> SUFFICES ASSUME Init PROVE InOrder
  OBVIOUS
<1>1. \A s \in Sessions : db[s] = <<>> /\ posts[s] = {}
  BY DEF Init
<1>2. \A s \in Sessions : Storing(s)
  BY <1>1, EmptyInOrder DEF Storing
<1>3. <<>> \in Seq(OrderedFrames)
  OBVIOUS
<1>4. \A p \in Phones : Backfilled(p)
  BY <1>3 DEF Init, Backfilled, Answered
<1>5. QED BY <1>2, <1>4, TypeInit DEF InOrder

\* Every step keeps the order, if a worker has one POST under way.
LEMMA InOrderStep == MaxPosts = 1 /\ InOrder /\ [Next]_vars => InOrder'
<1> SUFFICES ASSUME MaxPosts = 1, InOrder, [Next]_vars PROVE InOrder'
  OBVIOUS
<1>1. TypeOK'
  BY TypeStep DEF InOrder
<1>2. CASE UNCHANGED vars
  <2>1. \A p \in Phones : Backfilled(p)'
    BY <1>2, BackfilledNext DEF InOrder, Backfilled, Answered, vars, sockVars
  <2>2. \A s \in Sessions : Storing(s)'
    BY <1>2 DEF InOrder, Storing, Backfills, Chronicle, vars, serverVars
  <2>3. QED BY <1>1, <2>1, <2>2 DEF InOrder
<1>3. CASE WorkerStep
  BY <1>1, <1>3, RelayInOrder, PersistInOrder DEF WorkerStep
<1>4. QED BY <1>1, <1>2, <1>3, SubscribeInOrder, BrowserInOrder DEF Next

\* What the phone will show as its backfill is in order.
LEMMA InOrderImplies == InOrder => BackfillOrdered
<1> SUFFICES ASSUME InOrder, NEW p \in Phones, Follows(p)
             PROVE  LET b == Received(p).backfill
                    IN  /\ \A i \in DOMAIN b : b[i].sid = open[p] /\ b[i].n \in Stored
                        /\ \A i, j \in DOMAIN b : i < j => b[i].n < b[j].n
  BY DEF BackfillOrdered
<1>1. TypeOK /\ Backfilled(p) /\ open[p] # Null
  BY DEF InOrder, Follows
<1>2. PICK B : B = Backfills(open[p])
  OBVIOUS
<1>3. PICK t, ds, s : t = shown[p] /\ ds = down[p] /\ s = open[p]
  OBVIOUS
<1>4. t \in Transcripts(Event) /\ ds \in Seq(Frames(Sessions, Event)) /\ t.backfill \in B
  BY <1>1, <1>2, <1>3, ReceivedTypes DEF Backfilled
<1>5. \A i \in DOMAIN ds : ds[i].type = "history" /\ ds[i].sid = s => ds[i].events \in B
  <2>1. ds \in Seq(OrderedFrames)
    BY <1>1, <1>3 DEF Backfilled
  <2>2. \A i \in DOMAIN ds : ds[i] \in OrderedFrames
    BY <2>1
  <2>3. QED BY <1>2, <1>3, <2>2 DEF OrderedFrames
<1>6. Reading(t, ds, s).backfill \in B
  BY ONLY <1>4, <1>5, ReadingBackfill
<1>7. Received(p).backfill \in Backfills(open[p])
  BY <1>2, <1>3, <1>6 DEF Received
<1>8. QED BY <1>7 DEF Backfills, Chronicle

-----------------------------------------------------------------------------
(* Without a pool a transcript is exact.                                   *)

\* What Newest leaves out comes first, and only if there is too much.
LEMMA NewestSplit ==
    ASSUME NEW E, NEW h \in Seq(E)
    PROVE  \E pre \in Seq(E) : /\ h = pre \o Newest(h)
                               /\ Newest(h) \in Seq(E)
                               /\ Len(Newest(h)) <= HistoryLimit
                               /\ pre = <<>> \/ Len(Newest(h)) = HistoryLimit
<1>0. HistoryLimit \in Nat \ {0}
  BY RelayAssumption
<1>1. PICK n \in Nat : n = Len(h)
  OBVIOUS
<1>2. CASE n > HistoryLimit
  <2>1. PICK k \in Nat : k = n - HistoryLimit
    <3>1. n - HistoryLimit \in Nat
      BY <1>0, <1>1, <1>2
    <3>2. QED BY <3>1
  <2>2. PICK a, b : a = SubSeq(h, 1, k) /\ b = SubSeq(h, k + 1, n)
    OBVIOUS
  <2>3. Newest(h) = b
    BY <1>1, <1>2, <2>1, <2>2 DEF Newest
  <2>4. k <= n /\ n - k = HistoryLimit /\ k + 1 \in 1 .. n + 1
    BY <1>0, <1>2, <2>1
  <2>5. a \in Seq(E) /\ Len(a) = k /\ \A i \in 1 .. k : a[i] = h[i]
    BY <1>1, <2>2, <2>4, FirstOf
  <2>6. b \in Seq(E) /\ Len(b) = HistoryLimit /\ \A i \in 1 .. HistoryLimit : b[i] = h[k + i]
    BY <1>0, <1>1, <2>2, <2>4, SubSeqProperties
  <2>7. a \o b = h
    <3>1. Len(h) = Len(a) + Len(b)
      BY <1>0, <1>1, <2>1, <2>4, <2>5, <2>6
    <3>2. \A i \in 1 .. Len(a) : h[i] = a[i]
      BY <2>5
    <3>3. \A i \in 1 .. Len(b) : h[Len(a) + i] = b[i]
      BY <2>5, <2>6
    <3>4. QED BY ONLY <2>5, <2>6, <3>1, <3>2, <3>3, h \in Seq(E), ConcatIs
  <2>8. a \in Seq(E) /\ h = a \o Newest(h) /\ Newest(h) \in Seq(E) /\ Len(Newest(h)) = HistoryLimit
    BY <2>3, <2>5, <2>6, <2>7
  <2>9. HistoryLimit <= HistoryLimit
    BY <1>0
  <2>10. QED BY ONLY <2>8, <2>9
<1>3. CASE ~(n > HistoryLimit)
  <2>1. Newest(h) = h
    BY <1>1, <1>3 DEF Newest
  <2>2. <<>> \in Seq(E) /\ h = <<>> \o h
    OBVIOUS
  <2>3. Len(h) <= HistoryLimit
    BY <1>0, <1>1, <1>3
  <2>4. QED BY <2>1, <2>2, <2>3
<1>4. QED BY <1>2, <1>3

\* The newest events are the last ones, HistoryLimit of them or all.
LEMMA NewestIs ==
    ASSUME NEW E, NEW x \in Seq(E), NEW y \in Seq(E),
           Len(y) = HistoryLimit \/ (x = <<>> /\ Len(y) <= HistoryLimit)
    PROVE  Newest(x \o y) = y
<1>0. HistoryLimit \in Nat \ {0}
  BY RelayAssumption
<1>1. PICK m \in Nat : m = Len(x)
  OBVIOUS
<1>2. PICK n \in Nat : n = Len(y)
  OBVIOUS
<1>3. PICK z : z = x \o y
  OBVIOUS
<1>4. z \in Seq(E) /\ Len(z) = m + n /\ \A i \in 1 .. n : z[m + i] = y[i]
  BY <1>1, <1>2, <1>3
<1>5. CASE m = 0
  <2>1. x = <<>>
    BY <1>1, <1>5, EmptySeq
  <2>2. z = y
    BY <1>3, <2>1
  <2>3. ~(Len(z) > HistoryLimit)
    BY <1>0, <1>1, <1>2, <1>4, <1>5
  <2>4. QED BY <1>3, <2>2, <2>3 DEF Newest
<1>6. CASE m # 0
  <2>1. n = HistoryLimit /\ m + n > HistoryLimit /\ m + n - HistoryLimit = m
    BY <1>0, <1>1, <1>2, <1>6
  <2>2. PICK b : b = SubSeq(z, m + 1, m + n)
    OBVIOUS
  <2>3. Newest(z) = b
    BY <1>4, <2>1, <2>2 DEF Newest
  <2>4. b \in Seq(E) /\ Len(b) = n /\ \A i \in 1 .. n : b[i] = z[m + i]
    <3>1. m + 1 \in 1 .. Len(z) + 1 /\ m + n \in 0 .. Len(z)
      BY <1>4
    <3>2. m + n - (m + 1) + 1 = n /\ \A i \in 1 .. n : m + 1 + i - 1 = m + i
      OBVIOUS
    <3>3. QED BY <1>4, <2>2, <3>1, <3>2, SubSeqProperties
  <2>5. b = y
    <3>1. \A i \in 1 .. Len(b) : b[i] = y[i]
      BY <1>4, <2>4
    <3>2. Len(b) = Len(y)
      BY <1>2, <2>4
    <3>3. b \in Seq(E)
      BY <2>4
    <3>4. QED BY ONLY <3>1, <3>2, <3>3, y \in Seq(E), SeqEqual
  <2>6. QED BY <1>3, <2>3, <2>5
<1>7. QED BY <1>5, <1>6

\* The ring: trimming what is kept as it grows keeps the newest of all.
LEMMA NewestConcat ==
    ASSUME NEW E, NEW a, NEW b, a \in Seq(E), b \in Seq(E)
    PROVE  Newest(Newest(a) \o b) = Newest(a \o b)
<1>0. HistoryLimit \in Nat \ {0}
  BY RelayAssumption
<1>1. PICK pre, n :
          /\ pre \in Seq(E) /\ n \in Seq(E)
          /\ a = pre \o n /\ n = Newest(a) /\ Len(n) <= HistoryLimit
          /\ pre = <<>> \/ Len(n) = HistoryLimit
  <2>1. \E pre \in Seq(E) : /\ a = pre \o Newest(a)
                            /\ Newest(a) \in Seq(E)
                            /\ Len(Newest(a)) <= HistoryLimit
                            /\ pre = <<>> \/ Len(Newest(a)) = HistoryLimit
    BY NewestSplit
  <2>2. QED BY <2>1
<1>2. PICK g : g = n \o b /\ g \in Seq(E)
  BY <1>1, ConcatProperties
<1>3. PICK pre2, n2 :
          /\ pre2 \in Seq(E) /\ n2 \in Seq(E)
          /\ g = pre2 \o n2 /\ n2 = Newest(g) /\ Len(n2) <= HistoryLimit
          /\ pre2 = <<>> \/ Len(n2) = HistoryLimit
  <2>1. \E pre2 \in Seq(E) : /\ g = pre2 \o Newest(g)
                             /\ Newest(g) \in Seq(E)
                             /\ Len(Newest(g)) <= HistoryLimit
                             /\ pre2 = <<>> \/ Len(Newest(g)) = HistoryLimit
    BY <1>2, NewestSplit
  <2>2. QED BY <2>1
<1>4. PICK x : x = pre \o pre2 /\ x \in Seq(E)
  BY <1>1, <1>3, ConcatProperties
<1>5. a \o b = x \o n2
  <2>0. pre \in Seq(E) /\ n \in Seq(E) /\ b \in Seq(E)
    BY <1>1
  <2>1. (pre \o n) \o b = pre \o (n \o b)
    BY ONLY <2>0, ConcatAssociative
  <2>2. pre \in Seq(E) /\ pre2 \in Seq(E) /\ n2 \in Seq(E)
    BY <1>1, <1>3
  <2>3. (pre \o pre2) \o n2 = pre \o (pre2 \o n2)
    BY ONLY <2>2, ConcatAssociative
  <2>4. QED BY <1>1, <1>2, <1>3, <1>4, <2>1, <2>3
<1>6. Len(n2) = HistoryLimit \/ (x = <<>> /\ Len(n2) <= HistoryLimit)
  <2>1. ASSUME Len(n2) # HistoryLimit PROVE x = <<>>
    <3>1. pre2 = <<>>
      BY <1>3, <2>1
    <3>2. g = n2
      BY <1>3, <3>1
    <3>3. Len(g) = Len(n) + Len(b)
      BY <1>1, <1>2
    <3>4. Len(n) # HistoryLimit
      <4>1. PICK i \in Nat : i = Len(n)
        BY <1>1
      <4>2. PICK j \in Nat : j = Len(b)
        OBVIOUS
      <4>3. i + j <= HistoryLimit /\ i + j # HistoryLimit
        BY <1>3, <2>1, <3>2, <3>3, <4>1, <4>2
      <4>4. i # HistoryLimit
        BY <1>0, <4>3
      <4>5. QED BY <4>1, <4>4
    <3>5. pre = <<>>
      BY <1>1, <3>4
    <3>6. QED BY <1>4, <3>1, <3>5
  <2>2. QED BY <1>3, <2>1
<1>7. Newest(x \o n2) = n2
  <2>1. x \in Seq(E) /\ n2 \in Seq(E)
    BY <1>3, <1>4
  <2>2. QED BY ONLY <1>6, <2>1, NewestIs
<1>8. QED BY <1>1, <1>2, <1>3, <1>5, <1>7

\* The events of session s after the first a of them, n of them.
Emitted(s, a, n) == [i \in 1 .. n |-> [sid |-> s, n |-> a + i]]

\* They are events, one lot after the other.
LEMMA EmittedConcat ==
    ASSUME NEW s \in Sessions, NEW a \in Nat, NEW m \in Nat, NEW n \in Nat
    PROVE  /\ Emitted(s, a, n) \in Seq(Event)
           /\ Emitted(s, a, m) \o Emitted(s, a + m, n) = Emitted(s, a, m + n)
<1>1. PICK k \in Nat : k = m + n
  OBVIOUS
<1>2. PICK x, y, z : x = Emitted(s, a, m) /\ y = Emitted(s, a + m, n) /\ z = Emitted(s, a, k)
  OBVIOUS
<1>3. x \in [1 .. m -> Event] /\ z \in [1 .. k -> Event]
  BY <1>1, <1>2 DEF Emitted, Event
<1>4. y \in [1 .. n -> Event]
  <2>1. a + m \in Nat
    OBVIOUS
  <2>2. PICK d \in Nat : d = a + m
    BY <2>1
  <2>3. QED BY <1>2, <2>2 DEF Emitted, Event
<1>5. x \in Seq(Event) /\ Len(x) = m /\ y \in Seq(Event) /\ Len(y) = n /\ z \in Seq(Event) /\ Len(z) = k
  BY <1>3, <1>4, FunctionLen
<1>6. \A i \in 1 .. m : z[i] = x[i]
  BY <1>1, <1>2 DEF Emitted
<1>7. \A i \in 1 .. n : z[m + i] = y[i]
  <2>1. ASSUME NEW i \in 1 .. n PROVE z[m + i] = y[i]
    <3>1. PICK j \in 1 .. k : j = m + i
      BY <1>1
    <3>2. a + j = (a + m) + i
      BY <3>1
    <3>3. QED BY <1>2, <3>1, <3>2 DEF Emitted
  <2>2. QED BY <2>1
<1>8. x \o y = z
  <2>1. Len(z) = Len(x) + Len(y)
    BY <1>1, <1>5
  <2>2. \A i \in 1 .. Len(x) : z[i] = x[i]
    BY <1>5, <1>6
  <2>3. \A i \in 1 .. Len(y) : z[Len(x) + i] = y[i]
    BY <1>5, <1>7
  <2>4. QED BY ONLY <1>5, <2>1, <2>2, <2>3, ConcatIs
<1>9. Emitted(s, a, n) \in Seq(Event)
  <2>1. Emitted(s, a, n) \in [1 .. n -> Event]
    BY DEF Emitted, Event
  <2>2. QED BY <2>1, FunctionIsSeq
<1>10. QED BY <1>1, <1>2, <1>8, <1>9

\* What appendEvents keeps of two lots is what it keeps of each.
LEMMA PickConcat ==
    ASSUME NEW a \in Seq(Event), NEW b \in Seq(Event), NEW N
    PROVE  Pick(a \o b, N) = Pick(a, N) \o Pick(b, N)
<1> DEFINE E == Event
<1> HIDE DEF E
<1>1. PICK m \in Nat : m = Len(a)
  OBVIOUS
<1>2. PICK n \in Nat : n = Len(b)
  OBVIOUS
<1>3. PICK c : c = a \o b
  OBVIOUS
<1>4. /\ c \in Seq(E) /\ Len(c) = m + n
      /\ \A i \in 1 .. m : c[i] = a[i]
      /\ \A i \in 1 .. n : c[m + i] = b[i] /\ b[i] \in E
  BY <1>1, <1>2, <1>3 DEF E
<1>21. PICK I, J, K : /\ I = {i \in DOMAIN a : a[i].n \in N}
                      /\ J = {i \in DOMAIN b : b[i].n \in N}
                      /\ K = {i \in DOMAIN c : c[i].n \in N}
  OBVIOUS
<1>22. (\A i \in 1 .. m : i \in K <=> i \in I) /\ \A i \in 1 .. n : m + i \in K <=> i \in J
  <2>1. DOMAIN a = 1 .. m /\ DOMAIN b = 1 .. n /\ DOMAIN c = 1 .. m + n
    BY <1>1, <1>2, <1>4
  <2>2. (\A i \in 1 .. m : i \in 1 .. m + n) /\ \A i \in 1 .. n : m + i \in 1 .. m + n
    OBVIOUS
  <2>3. QED BY <1>4, <1>21, <2>1, <2>2
<1>5. PICK f : Filtering(f, E, a, I, m)
  BY <1>1, SubseqAtSteps DEF E
<1>6. PICK g : Filtering(g, E, b, J, n)
  BY <1>2, SubseqAtSteps DEF E
<1>7. PICK h : Filtering(h, E, c, K, m + n)
  <2>1. \E h : Filtering(h, E, c, K, Len(c))
    BY ONLY <1>4, SubseqAtSteps
  <2>2. QED BY <1>4, <2>1
<1>8. /\ f \in [0 .. m -> Seq(E)] /\ f[0] = <<>> /\ SubseqAt(a, I) = f[m]
      /\ \A i \in 1 .. m : f[i] = IF i \in I THEN Append(f[i - 1], a[i]) ELSE f[i - 1]
  BY <1>5 DEF Filtering
<1>9. /\ g \in [0 .. n -> Seq(E)] /\ g[0] = <<>> /\ SubseqAt(b, J) = g[n]
      /\ \A i \in 1 .. n : g[i] = IF i \in J THEN Append(g[i - 1], b[i]) ELSE g[i - 1]
  BY <1>6 DEF Filtering
<1>10. /\ h \in [0 .. m + n -> Seq(E)] /\ h[0] = <<>> /\ SubseqAt(c, K) = h[m + n]
       /\ \A i \in 1 .. m + n : h[i] = IF i \in K THEN Append(h[i - 1], c[i]) ELSE h[i - 1]
  BY <1>7 DEF Filtering
<1> DEFINE S == {i \in 0 .. m : h[i] = f[i]}
<1>11. 0 \in S
  BY <1>8, <1>10
<1>12. ASSUME NEW i \in 1 .. m, h[i - 1] = f[i - 1] PROVE h[i] = f[i]
  <2>1. i \in 1 .. m + n /\ (i \in K <=> i \in I) /\ c[i] = a[i]
    BY <1>4, <1>22
  <2>2. QED BY <1>8, <1>10, <1>12, <2>1
<1>13. 0 .. m \subseteq S
  <2>1. \A i \in 1 .. m : i - 1 \in S => i \in S
    BY <1>12
  <2> HIDE DEF S
  <2>2. QED BY <1>11, <2>1, UpTo
<1>14. h[m] = f[m]
  BY <1>13
<1> DEFINE T == {i \in 0 .. n : h[m + i] = f[m] \o g[i]}
<1>15. PICK p : p = f[m] /\ p \in Seq(E)
  BY <1>8
<1>16. 0 \in T
  <2>1. p \o <<>> = p
    BY <1>15
  <2>2. h[m + 0] = h[m] /\ 0 \in 0 .. n
    OBVIOUS
  <2>3. h[m + 0] = f[m] \o g[0]
    BY <1>9, <1>14, <1>15, <2>1, <2>2
  <2>4. QED BY ONLY <2>2, <2>3
<1>17. ASSUME NEW i \in 1 .. n, h[m + (i - 1)] = f[m] \o g[i - 1] PROVE h[m + i] = f[m] \o g[i]
  <2>1. PICK k \in 1 .. m + n : k = m + i
    OBVIOUS
  <2>2. k - 1 = m + (i - 1) /\ i - 1 \in 0 .. n
    BY <2>1
  <2>3. (k \in K <=> i \in J) /\ c[k] = b[i] /\ b[i] \in E
    BY <1>4, <1>22, <2>1
  <2>4. PICK q : q = g[i - 1] /\ q \in Seq(E)
    BY <1>9, <2>2
  <2>5. h[k - 1] = p \o q
    BY <1>15, <1>17, <2>2, <2>4
  <2>6. CASE k \in K
    <3>1. h[k] = Append(p \o q, b[i])
      BY <1>10, <2>3, <2>5, <2>6
    <3>2. g[i] = Append(q, b[i])
      BY <1>9, <2>3, <2>4, <2>6
    <3>3. Append(p \o q, b[i]) = p \o Append(q, b[i])
      <4>1. PICK x : x = b[i] /\ x \in E
        BY <2>3
      <4>2. PICK z, w : z = <<x>> /\ w = p \o q
        OBVIOUS
      <4>3. w \in Seq(E) /\ z \in Seq(E)
        BY <1>15, <2>4, <4>1, <4>2
      <4>4. Append(w, x) = w \o z /\ Append(q, x) = q \o z
        BY <2>4, <4>1, <4>2, <4>3, AppendIsConcat
      <4>5. (p \o q) \o z = p \o (q \o z)
        <5>1. p \in Seq(E) /\ q \in Seq(E)
          BY <1>15, <2>4
        <5>2. QED BY ONLY <4>3, <5>1, ConcatAssociative, SMTT(20)
      <4>6. QED BY <4>1, <4>2, <4>4, <4>5
    <3>4. QED BY <1>15, <2>1, <3>1, <3>2, <3>3
  <2>7. CASE k \notin K
    <3>1. h[k] = p \o q /\ g[i] = q
      BY <1>9, <1>10, <2>3, <2>4, <2>5, <2>7
    <3>2. QED BY <1>15, <2>1, <3>1
  <2>8. QED BY <2>6, <2>7
<1>18. 0 .. n \subseteq T
  <2>1. \A i \in 1 .. n : i - 1 \in T => i \in T
    <3>1. ASSUME NEW i \in 1 .. n, i - 1 \in T PROVE i \in T
      <4>1. h[m + (i - 1)] = f[m] \o g[i - 1]
        BY <3>1
      <4>2. h[m + i] = f[m] \o g[i]
        BY <1>17, <4>1
      <4>3. i \in 0 .. n
        OBVIOUS
      <4>4. QED BY <4>2, <4>3
    <3>2. QED BY <3>1
  <2> HIDE DEF T
  <2>2. QED BY <1>16, <2>1, UpTo
<1>19. h[m + n] = f[m] \o g[n]
  <2>1. n \in T
    <3> HIDE DEF T
    <3>1. n \in 0 .. n
      OBVIOUS
    <3>2. QED BY <1>18, <3>1
  <2>2. QED BY <2>1
<1>20. QED BY <1>3, <1>8, <1>9, <1>10, <1>19, <1>21 DEF Pick

\* Nothing more is filtered out of what was filtered.
LEMMA PickAll ==
    ASSUME NEW a \in Seq(Event), NEW N, \A i \in DOMAIN a : a[i].n \in N
    PROVE  Pick(a, N) = a
<1>1. PICK I : I = {i \in DOMAIN a : a[i].n \in N}
  OBVIOUS
<1>2. 1 .. Len(a) \subseteq I
  BY <1>1
<1>3. SubseqAt(a, I) = a
  BY ONLY <1>2, a \in Seq(Event), SubseqAtAll
<1>4. QED BY <1>1, <1>3 DEF Pick

\* What the ring keeps of the first k events of session s.
Kept(s, k) == Newest(Pick(Emitted(s, 0, k), Stored))

\* A batch that is stored takes the ring from the events before it to those
\* with it; reading the ring takes nothing away.
LEMMA KeptGrows ==
    ASSUME NEW s \in Sessions, NEW m \in Nat, NEW n \in Nat
    PROVE  /\ Kept(s, m) \in Seq(Event)
           /\ Newest(Kept(s, m)) = Kept(s, m)
           /\ Newest(Kept(s, m) \o Pick(Emitted(s, m, n), Stored)) = Kept(s, m + n)
<1>1. PICK x, y : x = Emitted(s, 0, m) /\ y = Emitted(s, m, n)
  OBVIOUS
<1>2. x \in Seq(Event) /\ y \in Seq(Event) /\ x \o y = Emitted(s, 0, m + n)
  <2>1. Emitted(s, 0, m) \o Emitted(s, 0 + m, n) = Emitted(s, 0, m + n) /\ 0 + m = m
    <3>1. PICK z \in Nat : z = 0
      OBVIOUS
    <3>2. Emitted(s, z, m) \o Emitted(s, z + m, n) = Emitted(s, z, m + n)
      BY EmittedConcat
    <3>3. z + m = m
      BY <3>1
    <3>4. QED BY <3>1, <3>2, <3>3
  <2>2. QED BY <1>1, <2>1, EmittedConcat
<1>3. PICK a, b : a = Pick(x, Stored) /\ b = Pick(y, Stored)
  OBVIOUS
<1>4. a \in Seq(Event) /\ b \in Seq(Event)
  BY <1>2, <1>3, PickType
<1>5. Pick(x \o y, Stored) = a \o b
  BY <1>2, <1>3, PickConcat
<1>6. Newest(Newest(a) \o b) = Newest(a \o b)
  BY <1>4, NewestConcat
<1>7. Newest(Newest(a)) = Newest(a) /\ Newest(a) \in Seq(Event)
  <2>1. PICK pre \in Seq(Event) : /\ Newest(a) \in Seq(Event)
                                  /\ Len(Newest(a)) <= HistoryLimit
    BY <1>4, NewestSplit
  <2>2. PICK z : z = Newest(a)
    OBVIOUS
  <2>3. z \in Seq(Event) /\ Len(z) <= HistoryLimit
    BY <2>1, <2>2
  <2>4. HistoryLimit \in Nat
    BY RelayAssumption
  <2>5. ~(Len(z) > HistoryLimit)
    BY <2>3, <2>4
  <2>6. Newest(z) = z
    BY <2>5 DEF Newest
  <2>7. QED BY <2>2, <2>3, <2>6
<1>8. Kept(s, m) = Newest(a) /\ Kept(s, m + n) = Newest(a \o b)
  BY <1>1, <1>2, <1>3, <1>5 DEF Kept
<1>9. QED BY <1>1, <1>3, <1>6, <1>7, <1>8

\* The ring of session s, while a POST is between its fan-out and appendEvents
\* or not.
Stocked(s) ==
    \/ posts[s] = {} /\ db[s] = Kept(s, relayed[s])
    \/ \E m, n \in Nat : /\ m + n = relayed[s]
                         /\ posts[s] = {Emitted(s, m, n)}
                         /\ db[s] = Kept(s, m)

\* A handler runs alone: it answers what was relayed when it started.
Alone ==
    \A p, q \in Phones, h, g \in Slots :
        handlers[p][h] # Null /\ handlers[q][g] # Null => p = q /\ h = g
Engaged(p) ==
    \A h \in Slots : handlers[p][h] # Null =>
        /\ Quiet
        /\ since[p] = relayed[handlers[p][h].sid]
        /\ pending[p] = <<>>
        /\ handlers[p][h].snapshot # Null => handlers[p][h].snapshot = Kept(handlers[p][h].sid, since[p])

\* The backfill shown is the ring as it was at the subscribe.
Backed(p) == Follows(p) /\ ~InFlight(p) => Received(p).backfill = Kept(open[p], since[p])

Exact ==
    /\ Relaying /\ HeldOnlyDuringBackfill
    /\ \A s \in Sessions : Stocked(s)
    /\ Alone
    /\ \A p \in Phones : Engaged(p) /\ Backed(p)

\* What is left to show for a step of one phone's socket that relays and stores
\* nothing.
LEMMA ExactPhone ==
    ASSUME Exact, [Next]_vars, ~QueryMayFail, NEW p \in Phones, UNCHANGED serverVars, OthersSame(p),
           Alone', Engaged(p)', Backed(p)'
    PROVE  Exact'
<1>1. OneHandler'
  BY DEF Alone, OneHandler
<1>2. Relaying' /\ HeldOnlyDuringBackfill'
  BY <1>1, RelayingStep, HeldStep DEF Exact, Relaying
<1>3. \A s \in Sessions : Stocked(s)'
  BY DEF Exact, Stocked, serverVars
<1>4. ASSUME NEW q \in Phones \ {p} PROVE Engaged(q)' /\ Backed(q)'
  <2>1. UNCHANGED <<relayed, posts, online[q], subscribed[q], pending[q], handlers[q], since[q],
                    up[q], down[q], open[q], shown[q]>>
    BY DEF OthersSame, serverVars
  <2>2. Engaged(q) /\ Backed(q)
    BY DEF Exact
  <2>3. Engaged(q)'
    BY <2>1, <2>2 DEF Engaged, Quiet
  <2>4. Backed(q)'
    BY <2>1, <2>2 DEF Backed, Follows, InFlight, Received
  <2>5. QED BY <2>3, <2>4
<1>5. QED BY <1>2, <1>3, <1>4 DEF Exact

\* Events and notifications are no backfill.
LEMMA ReadingKeepsBackfill ==
    ASSUME NEW S, NEW E, NEW x \in S, NEW s, NEW t \in Transcripts(E), NEW events \in Seq(E),
           NEW type \in {"event", "notify"}
    PROVE  Reading(t, EventFrames(type, x, events), s).backfill = t.backfill
<1>1. CASE type = "notify" \/ x # s
  <2>1. Reading(t, EventFrames(type, x, events), s) = t
    BY <1>1, ReadingOther
  <2>2. QED BY <2>1
<1>2. CASE type = "event" /\ x = s
  BY <1>2, ReadingEvents
<1>3. QED BY <1>1, <1>2

\* The batch is relayed: no handler is under way, and no other batch.
LEMMA RelayExact ==
    ASSUME Exact, ~HasPool, ~QueryMayFail, NEW s \in Sessions, NEW k \in 1 .. MaxBatch, Relay(s, k)
    PROVE  Exact'
<1>1. PICK batch : batch = [i \in 1 .. k |-> [sid |-> s, n |-> relayed[s] + i]]
  OBVIOUS
<1>2. /\ Free
      /\ relayed' = [relayed EXCEPT ![s] = @ + k]
      /\ posts' = [posts EXCEPT ![s] = @ \cup {batch}]
      /\ down' = [p \in Phones |->
            IF Watches(p, s) /\ pending[p] = Null THEN down[p] \o EventFrames("event", s, batch)
            ELSE IF Overhears(p, s) THEN down[p] \o EventFrames("notify", s, Pick(batch, Notes))
            ELSE down[p]]
      /\ UNCHANGED <<db, online, subscribed, handlers, since, up, open, shown>>
  BY <1>1 DEF Relay
<1>3. Quiet /\ \A p \in Phones, h \in Slots : handlers[p][h] = Null /\ handlers'[p][h] = Null
  BY <1>2 DEF Free, Idle
<1>4. TypeOK /\ relayed[s] \in Nat /\ k \in Nat
  BY DEF Exact, Relaying, TypeOK
<1>5. [Next]_vars /\ OneHandler'
  BY <1>2, <1>3 DEF Next, WorkerStep, OneHandler
<1>6. Relaying' /\ HeldOnlyDuringBackfill'
  BY <1>4, <1>5, RelayingStep, HeldStep DEF Exact
<1>7. batch = Emitted(s, relayed[s], k)
  BY <1>1 DEF Emitted
<1>8. batch \in Seq(Event)
  BY <1>4, <1>7, EmittedConcat
<1>9. ASSUME NEW x \in Sessions PROVE Stocked(x)'
  <2>1. posts[x] = {} /\ Stocked(x) /\ db'[x] = db[x]
    BY <1>2, <1>3 DEF Quiet, Exact
  <2>2. db[x] = Kept(x, relayed[x])
    BY <2>1 DEF Stocked
  <2>3. CASE x = s
    <3>m. PICK m \in Nat : m = relayed[s]
      BY <1>4
    <3>1. PICK r : m = relayed[s] /\ r = relayed'[s]
      BY <3>m
    <3>2. m + k = r /\ posts'[s] = {Emitted(s, m, k)} /\ db'[s] = Kept(s, m)
      BY <1>2, <1>4, <1>7, <2>1, <2>2, <2>3, <3>1 DEF TypeOK
    <3>3. \E i, j \in Nat : i + j = r /\ posts'[s] = {Emitted(s, i, j)} /\ db'[s] = Kept(s, i)
      BY <1>4, <3>2
    <3>4. QED BY <2>3, <3>1, <3>3 DEF Stocked
  <2>4. CASE x # s
    <3>1. relayed'[x] = relayed[x] /\ posts'[x] = {}
      BY <1>2, <1>4, <2>1, <2>4 DEF TypeOK
    <3>2. QED BY <2>1, <2>2, <3>1 DEF Stocked
  <2>5. QED BY <2>3, <2>4
<1>10. ASSUME NEW p \in Phones, Follows(p)', ~InFlight(p)' PROVE Received(p)'.backfill = Kept(open[p], since[p])'
  <2>1. Follows(p) /\ ~InFlight(p)
    BY <1>2, <1>10 DEF Follows, InFlight
  <2>2. Received(p).backfill = Kept(open[p], since[p])
    BY <2>1 DEF Exact, Backed
  <2>3. PICK t, ds, o : t = shown[p] /\ ds = down[p] /\ o = open[p]
    OBVIOUS
  <2>4. t \in Transcripts(Event) /\ ds \in Seq(Frames(Sessions, Event))
    BY <1>4, <2>3, ReceivedTypes
  <2>5. Received(p) = Reading(t, ds, o) /\ Received(p)' = Reading(t, down'[p], o)
    BY <1>2, <2>3 DEF Received
  <2>6. PICK u : u = Reading(t, ds, o)
    OBVIOUS
  <2>7. u \in Transcripts(Event)
    BY <2>4, <2>6, ReadingType
  <2>8. ASSUME NEW events, events \in Seq(Event), NEW type, type \in {"event", "notify"},
               down'[p] = ds \o EventFrames(type, s, events)
        PROVE  Received(p)'.backfill = Received(p).backfill
    <3>1. PICK fs : fs = EventFrames(type, s, events)
      OBVIOUS
    <3>2. fs \in Seq(Frames(Sessions, Event))
      BY <2>8, <3>1, EventFramesType
    <3>3. Reading(t, ds \o fs, o) = Reading(Reading(t, ds, o), fs, o)
      BY ONLY <2>4, <3>2, ReadingConcat
    <3>4. Reading(u, fs, o).backfill = u.backfill
      BY <2>7, <2>8, <3>1, ReadingKeepsBackfill
    <3>5. QED BY <2>5, <2>6, <2>8, <3>1, <3>3, <3>4
  <2>9. Received(p)'.backfill = Received(p).backfill
    <3>1. CASE Watches(p, s) /\ pending[p] = Null
      BY <1>2, <1>8, <2>3, <2>8, <3>1
    <3>2. CASE ~(Watches(p, s) /\ pending[p] = Null) /\ Overhears(p, s)
      <4>1. Pick(batch, Notes) \in Seq(Event)
        BY <1>8, PickType
      <4>2. QED BY <1>2, <2>3, <2>8, <3>2, <4>1
    <3>3. CASE ~(Watches(p, s) /\ pending[p] = Null) /\ ~Overhears(p, s)
      BY <1>2, <2>3, <2>5, <3>3
    <3>4. QED BY <3>1, <3>2, <3>3
  <2>10. QED BY <1>2, <2>2, <2>9
<1>11. QED BY <1>3, <1>6, <1>9, <1>10 DEF Exact, Alone, Engaged, Backed

\* appendEvents takes the batch into the ring.
LEMMA PersistExact ==
    ASSUME Exact, ~HasPool, ~QueryMayFail, NEW s \in Sessions, NEW batch \in posts[s], Persist(s, batch)
    PROVE  Exact'
<1>1. /\ posts' = [posts EXCEPT ![s] = @ \ {batch}]
      /\ db' = [db EXCEPT ![s] = Newest(db[s] \o Pick(batch, Stored))]
      /\ UNCHANGED <<relayed, online, subscribed, pending, handlers, since, up, down, open, shown>>
  BY DEF Persist, sockVars
<1>2. TypeOK /\ relayed[s] \in Nat
  BY DEF Exact, Relaying, TypeOK
<1>3. \A p \in Phones, h \in Slots : handlers[p][h] = Null
  BY DEF Exact, Engaged, Quiet
<1>4. [Next]_vars /\ OneHandler'
  BY <1>1, <1>3 DEF Next, WorkerStep, OneHandler
<1>5. Relaying' /\ HeldOnlyDuringBackfill'
  BY <1>2, <1>4, RelayingStep, HeldStep DEF Exact
<1>6. Stocked(s)'
  <2>1. PICK m \in Nat, n \in Nat : m + n = relayed[s] /\ posts[s] = {Emitted(s, m, n)} /\ db[s] = Kept(s, m)
    BY DEF Exact, Stocked
  <2>2. batch = Emitted(s, m, n)
    BY <2>1
  <2>3. db'[s] = Newest(Kept(s, m) \o Pick(Emitted(s, m, n), Stored))
    BY <1>1, <1>2, <2>1, <2>2 DEF TypeOK
  <2>4. db'[s] = Kept(s, relayed[s])
    BY <2>1, <2>3, KeptGrows
  <2>5. posts'[s] = {} /\ relayed'[s] = relayed[s]
    BY <1>1, <1>2, <2>1, <2>2 DEF TypeOK
  <2>6. QED BY <2>4, <2>5 DEF Stocked
<1>7. ASSUME NEW x \in Sessions \ {s} PROVE Stocked(x)'
  <2>1. posts'[x] = posts[x] /\ db'[x] = db[x] /\ relayed'[x] = relayed[x] /\ Stocked(x)
    BY <1>1, <1>2 DEF TypeOK, Exact
  <2>2. QED BY <2>1 DEF Stocked
<1>8. ASSUME NEW p \in Phones PROVE Backed(p)'
  <2>1. Backed(p)
    BY DEF Exact
  <2>2. QED BY <1>1, <2>1 DEF Backed, Follows, InFlight, Received
<1>9. QED BY <1>1, <1>3, <1>5, <1>6, <1>7, <1>8 DEF Exact, Alone, Engaged

\* A subscribe starts alone, with an empty buffer.
LEMMA HandleSubscribeExact ==
    ASSUME Exact, ~HasPool, ~QueryMayFail, NEW p \in Phones, HandleSubscribe(p)
    PROVE  Exact'
<1>1. /\ Free /\ online[p] /\ up[p] # <<>> /\ up' = [up EXCEPT ![p] = Tail(@)]
      /\ UNCHANGED <<relayed, posts, db, online, down, open, shown>>
  BY DEF HandleSubscribe, serverVars
<1>2. Quiet /\ Quiet' /\ \A q \in Phones, h \in Slots : handlers[q][h] = Null
  BY <1>1 DEF Free, Idle, Quiet
<1>3. PICK s : s = Head(up[p])
  OBVIOUS
<1>4. TypeOK /\ up[p] \in Seq(Sessions) /\ s \in Sessions
  <2>1. TypeOK /\ up[p] \in Seq(Sessions)
    BY DEF Exact, Relaying, TypeOK
  <2>2. QED BY <1>1, <1>3, <2>1
<1>5. [Next]_vars
  BY DEF Next, SubscribeStep
<1>6. CASE ~Owns(p, s)
  <2>1. UNCHANGED <<handlers, subscribed, pending, since>>
    BY <1>3, <1>6 DEF HandleSubscribe
  <2>2. OthersSame(p)
    BY <1>1, <1>4, <2>1 DEF OthersSame, TypeOK
  <2>3. Alone' /\ Engaged(p)'
    BY <1>2, <2>1 DEF Alone, Engaged
  <2>4. ~Follows(p)'
    <3>1. ASSUME Follows(p)' PROVE FALSE
      <4>1. up'[p] = Tail(up[p]) /\ up'[p] = <<>>
        BY <1>1, <1>4, <3>1 DEF Follows, TypeOK
      <4>2. PICK q : q = up[p]
        OBVIOUS
      <4>3. q \in Seq(Sessions) /\ q # <<>> /\ Tail(q) = <<>>
        BY <1>1, <1>4, <4>1, <4>2
      <4>4. Head(q) = q[Len(q)]
        <5>1. Len(q) = 1
          <6>1. PICK r : r = Tail(q)
            OBVIOUS
          <6>2. Len(r) = Len(q) - 1 /\ Len(q) \in Nat
            BY <4>3, <6>1, HeadTailProperties
          <6>3. Len(r) = 0
            BY <4>3, <6>1
          <6>4. QED BY <6>2, <6>3
        <5>2. QED BY <4>3, <5>1
      <4>5. Socket(p)
        BY DEF Exact, Relaying, Sockets
      <4>6. open[p] = s /\ subscribed[p] = s /\ subscribed[p] # Null
        BY <1>1, <1>3, <2>1, <3>1, <4>2, <4>4, <4>5 DEF Follows, Socket
      <4>7. QED BY <1>6, <4>5, <4>6 DEF Socket
    <3>2. QED BY <3>1
  <2>5. UNCHANGED serverVars
    BY <1>1 DEF serverVars
  <2>6. QED BY <1>5, <2>2, <2>3, <2>4, <2>5, ExactPhone DEF Backed
<1>7. CASE Owns(p, s)
  <2>1. PICK h \in Slots :
          /\ handlers' = [handlers EXCEPT ![p][h] = [sid |-> s, snapshot |-> Null]]
          /\ subscribed' = [subscribed EXCEPT ![p] = s]
          /\ pending' = [pending EXCEPT ![p] = <<>>]
          /\ since' = [since EXCEPT ![p] = relayed[s]]
    BY <1>3, <1>7 DEF HandleSubscribe, Buffering
  <2>2. PICK r : r = [sid |-> s, snapshot |-> Null]
    OBVIOUS
  <2>3. r # Null /\ r.sid = s /\ r.snapshot = Null
    <3>1. r \in Handler
      BY <1>4, <2>2 DEF Handler
    <3>2. QED BY <2>2, <3>1, NullAssumption
  <2>4. /\ handlers'[p][h] = r
        /\ \A q \in Phones, g \in Slots : q # p \/ g # h => handlers'[q][g] = Null
        /\ pending'[p] = <<>> /\ since'[p] = relayed[s]
    BY <1>2, <1>4, <2>1, <2>2 DEF TypeOK
  <2>5. OthersSame(p)
    BY <1>1, <1>4, <2>1 DEF OthersSame, TypeOK
  <2>6. Alone'
    BY <2>4 DEF Alone
  <2>7. Engaged(p)'
    <3>1. ASSUME NEW g \in Slots, handlers'[p][g] # Null
          PROVE  /\ since'[p] = relayed'[handlers'[p][g].sid] /\ handlers'[p][g].snapshot = Null
      <4>1. g = h
        BY <2>4, <3>1
      <4>2. QED BY <1>1, <2>3, <2>4, <4>1
    <3>2. QED BY <1>2, <2>4, <3>1 DEF Engaged
  <2>8. InFlight(p)'
    BY <2>3, <2>4 DEF InFlight
  <2>9. UNCHANGED serverVars
    BY <1>1 DEF serverVars
  <2>10. QED BY <1>5, <2>5, <2>6, <2>7, <2>8, <2>9, ExactPhone DEF Backed
<1>8. QED BY <1>6, <1>7

\* The query returns the ring.
LEMMA QueryExact ==
    ASSUME Exact, ~HasPool, ~QueryMayFail, NEW p \in Phones, NEW h \in Slots, QueryRuns(p, h)
    PROVE  Exact'
<1>1. TypeOK /\ handlers[p][h] \in Handler /\ handlers[p][h] # Null
  BY DEF QueryRuns, Awaiting, Exact, Relaying, TypeOK
<1>s. PICK s \in Sessions : s = handlers[p][h].sid
  BY <1>1 DEF Handler
<1>2. PICK b : s = handlers[p][h].sid /\ b = Newest(db[s])
  BY <1>s
<1>3. PICK r : r = [handlers[p][h] EXCEPT !.snapshot = b]
  OBVIOUS
<1>4. /\ handlers' = [handlers EXCEPT ![p] = [handlers[p] EXCEPT ![h] = r]]
      /\ UNCHANGED serverVars
      /\ UNCHANGED <<online, subscribed, pending, since, up, down, open, shown>>
  BY <1>2, <1>3 DEF QueryRuns
<1>5. Quiet /\ since[p] = relayed[s] /\ pending[p] = <<>>
  BY <1>1, <1>2 DEF Exact, Engaged
<1>6. b = Kept(s, since[p])
  <2>1. posts[s] = {} /\ Stocked(s)
    BY <1>5 DEF Quiet, Exact
  <2>2. db[s] = Kept(s, relayed[s])
    BY <2>1 DEF Stocked
  <2>3. PICK m \in Nat : m = relayed[s]
    BY <1>1 DEF TypeOK
  <2>4. Newest(Kept(s, m)) = Kept(s, m)
    BY KeptGrows
  <2>5. QED BY <1>2, <1>5, <2>2, <2>3, <2>4
<1>7. r.sid = s /\ r.snapshot = b /\ r # Null
  <2>1. b \in Seq(Event)
    BY <1>1, <1>2, NewestType DEF TypeOK
  <2>2. r \in Handler /\ r.sid = s /\ r.snapshot = b
    BY <1>1, <1>2, <1>3, <2>1 DEF Handler
  <2>3. QED BY <2>2, NullAssumption
<1>8. handlers'[p][h] = r /\ \A q \in Phones, g \in Slots : q # p \/ g # h => handlers'[q][g] = handlers[q][g]
  BY <1>1, <1>4 DEF TypeOK
<1>9. \A q \in Phones, g \in Slots : q # p \/ g # h => handlers'[q][g] = Null
  BY <1>1, <1>8 DEF Exact, Alone
<1>10. Alone'
  BY <1>9 DEF Alone
<1>11. Engaged(p)'
  <2>1. ASSUME NEW g \in Slots, handlers'[p][g] # Null PROVE g = h
    BY <1>9, <2>1
  <2>2. Quiet'
    BY <1>4, <1>5 DEF Quiet, serverVars
  <2>3. since'[p] = relayed'[s] /\ pending'[p] = <<>> /\ b = Kept(s, since'[p])
    BY <1>4, <1>5, <1>6 DEF serverVars
  <2>4. ASSUME NEW g \in Slots, handlers'[p][g] # Null
        PROVE  /\ since'[p] = relayed'[handlers'[p][g].sid]
               /\ handlers'[p][g].snapshot = Kept(handlers'[p][g].sid, since'[p])
    <3>1. handlers'[p][g].sid = s /\ handlers'[p][g].snapshot = b
      BY <1>7, <1>8, <2>1, <2>4
    <3>2. QED BY <2>3, <3>1
  <2>5. QED BY <2>2, <2>3, <2>4 DEF Engaged
<1>12. InFlight(p)'
  BY <1>7, <1>8 DEF InFlight
<1>13. OthersSame(p) /\ [Next]_vars
  BY <1>1, <1>4 DEF OthersSame, TypeOK, serverVars, Next, SubscribeStep
<1>14. QED BY <1>4, <1>10, <1>11, <1>12, <1>13, ExactPhone DEF Backed

\* The handler ends: the ring as it was at the subscribe is on the wire.
LEMMA FinishSubscribeExact ==
    ASSUME Exact, ~HasPool, ~QueryMayFail, NEW p \in Phones, NEW h \in Slots, FinishSubscribe(p, h)
    PROVE  Exact'
<1>1. TypeOK /\ handlers[p][h] \in Handler /\ handlers[p][h] # Null /\ handlers[p][h].snapshot # Null
  BY DEF FinishSubscribe, Answered, Exact, Relaying, TypeOK
<1>s. PICK s \in Sessions : s = handlers[p][h].sid
  BY <1>1 DEF Handler
<1>2. PICK b : s = handlers[p][h].sid /\ b = handlers[p][h].snapshot
  BY <1>s
<1>3. /\ pending' = [pending EXCEPT ![p] = Null]
      /\ handlers' = [handlers EXCEPT ![p] = [handlers[p] EXCEPT ![h] = Null]]
      /\ UNCHANGED serverVars
      /\ UNCHANGED <<online, subscribed, since, up, open, shown>>
  BY DEF FinishSubscribe, Released
<1>4. Quiet /\ pending[p] = <<>> /\ b = Kept(s, since[p]) /\ b \in Seq(Event)
  BY <1>1, <1>2 DEF Exact, Engaged, Handler
<1>5. \A q \in Phones, g \in Slots : handlers'[q][g] = Null
  <2>1. \A q \in Phones, g \in Slots : q # p \/ g # h => handlers[q][g] = Null
    BY <1>1 DEF Exact, Alone
  <2>2. QED BY <1>1, <1>3, <2>1 DEF TypeOK
<1>6. Alone' /\ Engaged(p)'
  BY <1>5 DEF Alone, Engaged
<1>7. PICK one, rest : one = <<HistoryFrame(s, b)>> /\ rest = Drained(p, s)
  OBVIOUS
<1>8. down' = [down EXCEPT ![p] = @ \o one \o rest]
  BY <1>2, <1>7 DEF FinishSubscribe
<1>9. rest = <<>>
  <2>1. pending[p] # Null
    <3>1. <<>> \in Seq(Event)
      OBVIOUS
    <3>2. QED BY <1>4, <3>1, NullAssumption
  <2>2. rest = EventFrames("event", s, <<>>)
    BY <1>4, <1>7, <2>1 DEF Drained
  <2>3. QED BY <2>2 DEF EventFrames
<1>10. PICK t, ds, f : t = shown[p] /\ ds = down[p] /\ f = HistoryFrame(s, b)
  OBVIOUS
<1>11. t \in Transcripts(Event) /\ ds \in Seq(Frames(Sessions, Event)) /\ f \in Frames(Sessions, Event)
  <2>1. t \in Transcripts(Event) /\ ds \in Seq(Frames(Sessions, Event))
    BY <1>1, <1>10, ReceivedTypes
  <2>2. QED BY <1>4, <1>10, <2>1 DEF HistoryFrame, Frames
<1>12. one \in Seq(Frames(Sessions, Event))
  BY <1>7, <1>10, <1>11
<1>13. down'[p] = ds \o one
  <2>1. PICK x : x = ds \o one
    OBVIOUS
  <2>2. x \in Seq(Frames(Sessions, Event))
    BY <1>11, <1>12, <2>1, ConcatProperties
  <2>3. x \o <<>> = x
    BY <2>2
  <2>4. down'[p] = x \o <<>>
    BY <1>1, <1>8, <1>9, <1>10, <2>1 DEF TypeOK
  <2>5. QED BY <2>1, <2>3, <2>4
<1>14. Backed(p)'
  <2>1. ASSUME Follows(p)' PROVE Received(p)'.backfill = Kept(open[p], since[p])'
    <3>1. Socket(p) /\ open[p] = s
      BY <1>1, <1>2, <1>3, <2>1 DEF Follows, Exact, Relaying, Sockets, Socket
    <3>2. Received(p)' = Reading(t, ds \o one, s)
      BY <1>3, <1>10, <1>13, <3>1 DEF Received
    <3>3. Reading(t, ds \o one, s) = Reading(Reading(t, ds, s), one, s)
      BY ONLY <1>11, <1>12, ReadingConcat
    <3>4. PICK u : u = Reading(t, ds, s)
      OBVIOUS
    <3>5. u \in Transcripts(Event)
      BY <1>11, <3>4, ReadingType
    <3>6. Reading(u, one, s) = Consume(u, f, s)
      BY <1>7, <1>10, <1>11, <3>5, ReadingOne
    <3>7. Consume(u, f, s).backfill = b
      BY <1>10 DEF Consume, HistoryFrame
    <3>8. open'[p] = s /\ since'[p] = since[p]
      BY <1>3, <3>1
    <3>9. QED BY <1>4, <3>2, <3>3, <3>4, <3>6, <3>7, <3>8
  <2>2. QED BY <2>1 DEF Backed
<1>15. OthersSame(p) /\ [Next]_vars
  <2>1. \A q \in Phones \ {p} : UNCHANGED <<pending[q], handlers[q], down[q]>>
    BY <1>1, <1>3, <1>8 DEF TypeOK
  <2>2. [Next]_vars
    BY DEF Next, SubscribeStep
  <2>3. QED BY <1>3, <2>1, <2>2 DEF OthersSame, serverVars
<1>16. QED BY <1>3, <1>6, <1>14, <1>15, ExactPhone

\* The steps of the socket and of the browser.
LEMMA BrowserExact ==
    ASSUME Exact, ~HasPool, ~QueryMayFail, NEW p \in Phones, BrowserStep(p)
    PROVE  Exact'
<1>1. TypeOK /\ Socket(p) /\ [Next]_vars /\ UNCHANGED serverVars
  BY DEF Exact, Relaying, Sockets, Next, BrowserStep, Connect, Disconnect, OpenSession, CloseSession, Deliver
<1>2. ASSUME UNCHANGED <<handlers, since, pending>> PROVE Alone' /\ Engaged(p)'
  BY <1>1, <1>2 DEF Exact, Alone, Engaged, Quiet, serverVars
<1>3. CASE Connect(p)
  <2>1. ~online[p] /\ UNCHANGED <<subscribed, pending, handlers, since, down, open, shown>>
    BY <1>3 DEF Connect
  <2>2. ~Follows(p)'
    BY <1>1, <2>1 DEF Follows, Socket
  <2>3. OthersSame(p)
    BY <1>1, <1>3 DEF OthersSame, TypeOK, Connect, serverVars
  <2>4. QED BY <1>1, <1>2, <2>1, <2>2, <2>3, ExactPhone DEF Backed
<1>4. CASE Disconnect(p)
  <2>1. /\ online' = [online EXCEPT ![p] = FALSE]
        /\ handlers' = [handlers EXCEPT ![p] = [h \in Slots |-> Null]]
    BY <1>4 DEF Disconnect
  <2>2. ~online'[p] /\ (\A h \in Slots : handlers'[p][h] = Null) /\ \A q \in Phones \ {p} : handlers'[q] = handlers[q]
    BY <1>1, <2>1 DEF TypeOK
  <2>3. ~Follows(p)'
    BY <2>2 DEF Follows
  <2>4. Alone' /\ Engaged(p)'
    <3>1. \A q \in Phones, h \in Slots : handlers'[q][h] # Null => handlers[q][h] # Null
      BY <2>2
    <3>2. QED BY <2>2, <3>1 DEF Exact, Alone, Engaged
  <2>5. OthersSame(p)
    BY <1>1, <1>4 DEF OthersSame, TypeOK, Disconnect, serverVars
  <2>6. QED BY <1>1, <2>3, <2>4, <2>5, ExactPhone DEF Backed
<1>5. ASSUME NEW s \in Sessions, OpenSession(p, s) PROVE Exact'
  <2>1. /\ open[p] # s /\ open' = [open EXCEPT ![p] = s]
        /\ up' = [up EXCEPT ![p] = IF online[p] THEN Append(@, s) ELSE @]
        /\ UNCHANGED <<online, subscribed, pending, handlers, since>>
    BY <1>5 DEF OpenSession, sockVars
  <2>2. ~Follows(p)'
    <3>1. up[p] \in Seq(Sessions) /\ up'[p] = IF online[p] THEN Append(up[p], s) ELSE up[p]
      BY <1>1, <2>1 DEF TypeOK
    <3>2. online[p] => up'[p] # <<>>
      BY <3>1
    <3>3. QED BY <2>1, <3>2 DEF Follows
  <2>3. OthersSame(p)
    BY <1>1, <1>5 DEF OthersSame, TypeOK, OpenSession, serverVars, sockVars
  <2>4. QED BY <1>1, <1>2, <2>1, <2>2, <2>3, ExactPhone DEF Backed
<1>6. CASE CloseSession(p)
  <2>1. open'[p] = Null /\ UNCHANGED <<pending, handlers, since>>
    BY <1>1, <1>6 DEF CloseSession, sockVars, TypeOK
  <2>2. ~Follows(p)'
    BY <2>1 DEF Follows
  <2>3. OthersSame(p)
    BY <1>1, <1>6 DEF OthersSame, TypeOK, CloseSession, serverVars, sockVars
  <2>4. QED BY <1>1, <1>2, <2>1, <2>2, <2>3, ExactPhone DEF Backed
<1>7. CASE Deliver(p)
  <2>1. UNCHANGED <<online, subscribed, pending, handlers, since, up, open>>
    BY <1>7 DEF Deliver, sockVars
  <2>2. Received(p)' = Received(p)
    BY <1>1, <1>7, DeliverReceived
  <2>3. Backed(p)
    BY DEF Exact
  <2>4. Backed(p)'
    BY <2>1, <2>2, <2>3 DEF Backed, Follows, InFlight
  <2>5. OthersSame(p)
    BY <1>1, <1>7 DEF OthersSame, TypeOK, Deliver, serverVars, sockVars
  <2>6. QED BY <1>1, <1>2, <2>1, <2>4, <2>5, ExactPhone
<1>8. QED BY <1>3, <1>4, <1>5, <1>6, <1>7 DEF BrowserStep

\* At first nothing was emitted and nothing is kept.
LEMMA ExactInit == Init => Exact
<1> SUFFICES ASSUME Init PROVE Exact
  OBVIOUS
<1>1. \A p \in Phones : ~online[p] /\ \A h \in Slots : handlers[p][h] = Null
  BY DEF Init
<1>2. Relaying /\ HeldOnlyDuringBackfill
  BY RelayingInit, HeldInit
<1>3. ASSUME NEW s \in Sessions PROVE Stocked(s)
  <2>1. PICK k, e : k = 0 /\ e = Emitted(s, k, k)
    OBVIOUS
  <2>2. e = <<>>
    BY <2>1 DEF Emitted
  <2>3. Pick(e, Stored) = <<>>
    <3>1. e \in Seq(Event) /\ DOMAIN e = {}
      BY <2>2
    <3>2. Pick(e, Stored) = e
      BY <3>1, PickAll
    <3>3. QED BY <2>2, <3>2
  <2>4. Newest(<<>>) = <<>>
    <3>1. Len(<<>>) = 0 /\ ~(0 > HistoryLimit)
      BY RelayAssumption
    <3>2. QED BY <3>1 DEF Newest
  <2>5. Kept(s, 0) = <<>>
    BY <2>1, <2>3, <2>4 DEF Kept
  <2>6. QED BY <2>5 DEF Init, Stocked
<1>4. QED BY <1>1, <1>2, <1>3 DEF Exact, Alone, Engaged, Backed, Follows

\* Every step keeps it, without a pool: each handler runs to its end before the
\* next callback starts.
LEMMA ExactStep == ~HasPool /\ ~QueryMayFail /\ Exact /\ [Next]_vars => Exact'
<1> SUFFICES ASSUME ~HasPool, ~QueryMayFail, Exact, [Next]_vars PROVE Exact'
  OBVIOUS
<1>1. CASE UNCHANGED vars
  <2>1. OneHandler' /\ TypeOK
    BY <1>1 DEF vars, sockVars, Exact, Relaying, OneHandler
  <2>2. Relaying' /\ HeldOnlyDuringBackfill'
    BY <2>1, RelayingStep, HeldStep DEF Exact
  <2>3. ASSUME NEW p \in Phones PROVE Engaged(p)' /\ Backed(p)'
    <3>1. Engaged(p) /\ Backed(p)
      BY DEF Exact
    <3>2. Engaged(p)'
      BY <1>1, <3>1 DEF vars, serverVars, sockVars, Engaged, Quiet
    <3>3. Backed(p)'
      BY <1>1, <3>1 DEF vars, sockVars, Backed, Follows, InFlight, Received
    <3>4. QED BY <3>2, <3>3
  <2>4. (\A s \in Sessions : Stocked(s)') /\ Alone'
    BY <1>1 DEF vars, serverVars, sockVars, Exact, Stocked, Alone
  <2>5. QED BY <2>2, <2>3, <2>4 DEF Exact
<1>2. CASE WorkerStep
  <2>1. PICK s \in Sessions : \/ \E k \in 1 .. MaxBatch : Relay(s, k)
                              \/ \E batch \in posts[s] : Persist(s, batch) \/ PersistFails(s, batch)
    BY <1>2 DEF WorkerStep
  <2>2. \A batch \in posts[s] : ~PersistFails(s, batch)
    BY DEF PersistFails
  <2>3. CASE \E k \in 1 .. MaxBatch : Relay(s, k)
    BY <2>3, RelayExact
  <2>4. CASE \E batch \in posts[s] : Persist(s, batch)
    BY <2>4, PersistExact
  <2>5. QED BY <2>1, <2>2, <2>3, <2>4
<1>3. ASSUME NEW p \in Phones, SubscribeStep(p) PROVE Exact'
  <2>1. \A h \in Slots : ~QueryFails(p, h)
    BY DEF QueryFails
  <2>2. QED BY <1>3, <2>1, HandleSubscribeExact, QueryExact, FinishSubscribeExact DEF SubscribeStep
<1>4. QED BY <1>1, <1>2, <1>3, BrowserExact DEF Next

\* A sequence ends with what it is the concatenation of.
LEMMA ConcatSuffix ==
    ASSUME NEW E, NEW a \in Seq(E), NEW b \in Seq(E), NEW c, c = a \o b
    PROVE  IsSuffix(b, c)
<1>1. PICK m \in Nat : m = Len(a)
  OBVIOUS
<1>2. PICK n \in Nat : n = Len(b)
  OBVIOUS
<1>3. c \in Seq(E) /\ Len(c) = m + n /\ \A i \in 1 .. n : c[m + i] = b[i]
  BY <1>1, <1>2
<1>4. PICK x, y : x = Reverse(b) /\ y = Reverse(c)
  OBVIOUS
<1>5. x = [i \in 1 .. n |-> b[(n - i) + 1]] /\ y = [i \in 1 .. m + n |-> c[((m + n) - i) + 1]]
  BY <1>2, <1>3, <1>4 DEF Reverse
<1>6. x \in Seq(E) /\ Len(x) = n /\ y \in Seq(E) /\ Len(y) = m + n
  <2>1. \A i \in 1 .. n : (n - i) + 1 \in 1 .. n
    OBVIOUS
  <2>2. \A i \in 1 .. n : b[(n - i) + 1] \in E
    BY <1>2, <2>1
  <2>3. x \in [1 .. n -> E]
    BY <1>5, <2>2
  <2>4. PICK k \in Nat : k = m + n
    OBVIOUS
  <2>5. \A i \in 1 .. k : (k - i) + 1 \in 1 .. k
    OBVIOUS
  <2>6. \A i \in 1 .. k : c[(k - i) + 1] \in E
    BY <1>3, <2>4, <2>5
  <2>7. y \in [1 .. k -> E]
    BY <1>5, <2>4, <2>6
  <2>8. QED BY <2>3, <2>4, <2>7, FunctionLen
<1>7. \A i \in 1 .. n : x[i] = y[i]
  <2>1. ASSUME NEW i \in 1 .. n PROVE x[i] = y[i]
    <3>1. PICK j \in 1 .. n : j = (n - i) + 1
      <4>1. (n - i) + 1 \in 1 .. n
        OBVIOUS
      <4>2. QED BY <4>1
    <3>2. i \in 1 .. m + n /\ ((m + n) - i) + 1 = m + j
      BY <3>1
    <3>3. x[i] = b[j] /\ y[i] = c[m + j]
      BY <1>5, <3>1, <3>2
    <3>4. QED BY <1>3, <3>3
  <2>2. QED BY <2>1
<1>8. Len(x) <= Len(y) /\ SubSeq(x, 1, Len(x)) = SubSeq(y, 1, Len(x))
  <2>1. n <= Len(x) /\ n <= Len(y)
    BY <1>6
  <2>2. PICK p, q : p = SubSeq(x, 1, n) /\ q = SubSeq(y, 1, n)
    OBVIOUS
  <2>3. p \in Seq(E) /\ Len(p) = n /\ \A i \in 1 .. n : p[i] = x[i]
    BY <1>6, <2>1, <2>2, FirstOf
  <2>4. q \in Seq(E) /\ Len(q) = n /\ \A i \in 1 .. n : q[i] = y[i]
    BY <1>6, <2>1, <2>2, FirstOf
  <2>5. p = q
    <3>1. Len(p) = Len(q) /\ \A i \in 1 .. Len(p) : p[i] = q[i]
      BY <1>7, <2>3, <2>4
    <3>2. QED BY ONLY <2>3, <2>4, <3>1, SeqEqual
  <2>6. QED BY <1>6, <2>1, <2>2, <2>5
<1>9. QED BY <1>4, <1>8 DEF IsSuffix, IsPrefix

\* What is shown then is exact.
LEMMA ExactImplies == Exact => ExactTranscript
<1> SUFFICES ASSUME Exact, NEW p \in Phones, Follows(p), ~InFlight(p)
             PROVE  LET r == Received(p)
                        has == Pick(r.backfill \o r.live, Stored)
                        all == Pick(Latest(open[p], relayed[open[p]]), Stored)
                    IN  /\ IsSuffix(has, all)
                        /\ has = all \/ Len(has) >= HistoryLimit
  BY DEF ExactTranscript
<1>1. TypeOK /\ Socket(p) /\ Contiguous(p) /\ Backed(p) /\ HeldOnlyDuringBackfill
  BY DEF Exact, Relaying, Sockets
<1>2. PICK s, m, r : s = open[p] /\ m = since[p] /\ r = relayed[open[p]]
  OBVIOUS
<1>3. s \in Sessions /\ m \in Nat /\ r \in Nat /\ m <= r /\ pending[p] = Null
  BY <1>1, <1>2 DEF Follows, TypeOK, Socket, HeldOnlyDuringBackfill
<1>4. PICK n \in Nat : m + n = r /\ n = r - m
  <2>1. r - m \in Nat /\ m + (r - m) = r
    BY <1>3
  <2>2. QED BY <2>1
<1>5. Received(p).backfill = Kept(s, m)
  BY <1>1, <1>2 DEF Backed
<1>6. Received(p).live = Emitted(s, m, n)
  <2>1. Received(p).live = Latest(s, n)
    BY <1>1, <1>2, <1>3, <1>4 DEF Contiguous, Live
  <2>2. relayed[s] - n = m
    BY <1>2, <1>3, <1>4
  <2>3. QED BY <2>1, <2>2 DEF Latest, Emitted
<1>7. Latest(s, r) = Emitted(s, 0, r)
  <2>1. relayed[s] - r = 0
    BY <1>2, <1>3
  <2>2. QED BY <2>1 DEF Latest, Emitted
<1>8. PICK x, y, z : x = Emitted(s, 0, m) /\ y = Emitted(s, m, n) /\ z = Emitted(s, 0, r)
  OBVIOUS
<1>9. x \in Seq(Event) /\ y \in Seq(Event) /\ x \o y = z
  <2>1. PICK i \in Nat : i = 0
    OBVIOUS
  <2>2. Emitted(s, i, m) \o Emitted(s, i + m, n) = Emitted(s, i, m + n) /\ i + m = m
    <3>1. i + m = m
      BY <1>3, <2>1
    <3>2. QED BY <1>3, <3>1, EmittedConcat, ZenonT(30)
  <2>3. x \in Seq(Event) /\ y \in Seq(Event)
    BY <1>3, <1>8, EmittedConcat
  <2>4. QED BY <1>4, <1>8, <2>1, <2>2, <2>3
<1>10. PICK a, l, k : a = Pick(x, Stored) /\ l = Pick(y, Stored) /\ k = Newest(a)
  OBVIOUS
<1>11. a \in Seq(Event) /\ l \in Seq(Event) /\ Kept(s, m) = k
  BY <1>8, <1>9, <1>10, PickType DEF Kept
<1>12. PICK pre : /\ pre \in Seq(Event) /\ a = pre \o k /\ k \in Seq(Event)
                  /\ pre = <<>> \/ Len(k) = HistoryLimit
  <2>1. a \in Seq(Event)
    BY <1>11
  <2>2. \E pre \in Seq(Event) : /\ a = pre \o Newest(a)
                                /\ Newest(a) \in Seq(Event)
                                /\ Len(Newest(a)) <= HistoryLimit
                                /\ pre = <<>> \/ Len(Newest(a)) = HistoryLimit
    BY ONLY <2>1, NewestSplit
  <2>3. QED BY <1>10, <2>2
<1>13. Pick(k, Stored) = k
  <2>1. \A i \in DOMAIN a : a[i].n \in Stored
    <3>1. PICK I : I = {i \in DOMAIN x : x[i].n \in Stored}
      OBVIOUS
    <3>2. a = SubseqAt(x, I)
      BY <1>10, <3>1 DEF Pick
    <3>3. \A j \in DOMAIN a : \E i \in DOMAIN x : i \in I /\ a[j] = x[i]
      BY <1>9, <3>2, SubseqAtContents
    <3>4. QED BY <3>1, <3>3
  <2>2. \A i \in DOMAIN k : \E j \in DOMAIN a : k[i] = a[j]
    <3>1. PICK u \in Nat : u = Len(pre)
      BY <1>12
    <3>2. PICK v \in Nat : v = Len(k)
      BY <1>12
    <3>3. DOMAIN k = 1 .. v /\ DOMAIN a = 1 .. u + v /\ \A i \in 1 .. v : a[u + i] = k[i]
      BY <1>12, <3>1, <3>2
    <3>4. \A i \in 1 .. v : u + i \in 1 .. u + v
      OBVIOUS
    <3>5. QED BY <3>3, <3>4
  <2>3. \A i \in DOMAIN k : k[i].n \in Stored
    BY <2>1, <2>2
  <2>4. QED BY <1>12, <2>3, PickAll
<1>14. PICK h : h = k \o l
  OBVIOUS
<1>15. Pick(k \o y, Stored) = h
  <2>1. k \in Seq(Event) /\ y \in Seq(Event)
    BY <1>9, <1>12
  <2>2. Pick(k \o y, Stored) = Pick(k, Stored) \o Pick(y, Stored)
    BY ONLY <2>1, PickConcat
  <2>3. QED BY <1>10, <1>13, <1>14, <2>2
<1>16. Pick(z, Stored) = pre \o h
  <2>1. Pick(x \o y, Stored) = a \o l
    BY <1>9, <1>10, PickConcat
  <2>2. (pre \o k) \o l = pre \o (k \o l)
    <3>1. pre \in Seq(Event) /\ k \in Seq(Event) /\ l \in Seq(Event)
      BY <1>11, <1>12
    <3>2. QED BY ONLY <3>1, ConcatAssociative
  <2>3. QED BY <1>9, <1>12, <1>14, <2>1, <2>2
<1>17. h \in Seq(Event) /\ IsSuffix(h, Pick(z, Stored))
  <2>1. h \in Seq(Event)
    BY <1>11, <1>12, <1>14, ConcatProperties
  <2>2. QED BY <1>12, <1>16, <2>1, ConcatSuffix
<1>18. h = Pick(z, Stored) \/ Len(h) >= HistoryLimit
  <2>1. CASE pre = <<>>
    <3>1. <<>> \o h = h
      BY <1>17
    <3>2. QED BY <1>16, <2>1, <3>1
  <2>2. CASE Len(k) = HistoryLimit
    <3>1. Len(h) = Len(k) + Len(l) /\ Len(k) \in Nat /\ Len(l) \in Nat
      BY <1>11, <1>12, <1>14
    <3>2. PICK i \in Nat, j \in Nat : i = Len(k) /\ j = Len(l)
      BY <3>1
    <3>3. i + j >= i
      BY <3>2
    <3>4. QED BY <2>2, <3>1, <3>2, <3>3
  <2>3. QED BY <1>12, <2>1, <2>2
<1>19. Pick(Received(p).backfill \o Received(p).live, Stored) = h
  BY <1>5, <1>6, <1>8, <1>11, <1>15
<1>20. Pick(Latest(open[p], relayed[open[p]]), Stored) = Pick(z, Stored)
  BY <1>2, <1>7, <1>8
<1>21. QED BY <1>17, <1>18, <1>19, <1>20

=============================================================================
