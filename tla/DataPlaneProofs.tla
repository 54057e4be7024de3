--------------------------- MODULE DataPlaneProofs ---------------------------
(***************************************************************************)
(* What DataPlane promises for any number of sessions, streams, messages   *)
(* and restarts: a session listed as active can be reached, messages are   *)
(* never written past the worker that reads, and the server implements the *)
(* lossy but ordered delivery of ClientEvents.                             *)
(***************************************************************************)
EXTENDS DataPlane, SequenceTheorems, TLAPS

USE DataPlaneAssumption

Before(m, n) == Delivery!Before(m, n)

\* Every message of q comes before the next, and before every one of w.
Sorted(q)     == \A i, j \in DOMAIN q : i < j => Before(q[i], q[j])
Precede(q, w) == \A i \in DOMAIN q, j \in DOMAIN w : Before(q[i], w[j])

\* Messages of earlier runs, or of run r with numbers up to n.
UpTo(q, r, n) == \A i \in DOMAIN q : q[i][1] < r \/ (q[i][1] = r /\ q[i][2] <= n)

\* The store never holds a stream other than the newest opened, nor does a
\* worker read one; what is on the wire is on the stream the worker reads.
Newest(s) ==
    /\ live[s] \subseteq 1 .. opened[s]
    /\ sseRes[s] # None => sseRes[s] = opened[s] /\ sseRes[s] \in live[s]
    /\ reading[s] # None => reading[s] = opened[s] /\ reading[s] \in live[s]
    /\ wsConnected[s] => sseRes[s] # None
    /\ listed[s] = wsConnected[s]
    /\ reading[s] = None => wire[s] = <<>>

\* What was read came before what is on the wire, each in order, and all of it
\* has been numbered.
Ordered(s) ==
    /\ Sorted(got[s]) /\ Sorted(wire[s]) /\ Precede(got[s], wire[s])
    /\ UpTo(got[s], run, seq[s]) /\ UpTo(wire[s], run, seq[s])

IInv == TypeOK /\ \A s \in Sessions : Newest(s) /\ Ordered(s)

\* The invariant holds at the start.
LEMMA InvInit == Init => IInv
<1> SUFFICES ASSUME Init PROVE IInv
  OBVIOUS
<1>1. TypeOK BY DEF Init, TypeOK, None
<1>2. ASSUME NEW s \in Sessions PROVE Newest(s) /\ Ordered(s)
  BY DEF Init, Newest, Ordered, None, Sorted, Precede, UpTo
<1>3. QED BY <1>1, <1>2 DEF IInv

-----------------------------------------------------------------------------
(* Types.                                                                  *)

\* The server's own steps keep the types.
LEMMA TypeServer ==
    ASSUME TypeOK, Restart \/ \E e \in Envs : Deregister(e)
    PROVE  TypeOK'
<1>1. CASE Restart
  BY <1>1 DEF Restart, TypeOK, None
<1>2. ASSUME NEW e \in Envs, Deregister(e) PROVE TypeOK'
  BY <1>2 DEF Deregister, TypeOK, Pushed, workerVars
<1>3. QED BY <1>1, <1>2

\* The steps of a session keep the types.
LEMMA TypeSession ==
    ASSUME TypeOK, NEW s \in Sessions, SessionStep(s)
    PROVE  TypeOK'
<1>1. CASE OpenStream(s)
  <2>1. opened[s] + 1 \in Streams BY <1>1 DEF OpenStream, markWsConnected, attachSse, TypeOK, Streams
  <2>2. live' \in [Sessions -> SUBSET Streams]
    BY <1>1, <2>1 DEF OpenStream, markWsConnected, attachSse, TypeOK
  <2>3. /\ opened' \in [Sessions -> 0 .. MaxStreams]
        /\ sseRes' \in [Sessions -> Streams \cup {None}]
        /\ reading' \in [Sessions -> Streams \cup {None}]
    BY <1>1, <2>1 DEF OpenStream, markWsConnected, attachSse, TypeOK, Streams
  <2>4. wsConnected' \in [Sessions -> BOOLEAN] /\ listed' \in [Sessions -> BOOLEAN]
    BY <1>1 DEF OpenStream, markWsConnected, attachSse, TypeOK, Pushed
  <2>5. QED BY <1>1, <2>2, <2>3, <2>4 DEF OpenStream, markWsConnected, attachSse, TypeOK
<1>2. CASE LoseStream(s)
  <2>1. lost[s] + 1 \in 0 .. MaxLosses BY <1>2 DEF LoseStream, TypeOK
  <2>2. lost' \in [Sessions -> 0 .. MaxLosses]
    BY <1>2, <2>1 DEF LoseStream, TypeOK
  <2>3. reading' \in [Sessions -> Streams \cup {None}]
    BY <1>2 DEF LoseStream, TypeOK
  <2>4. wire' \in [Sessions -> Seq(Message)]
    <3>1. <<>> \in Seq(Message) OBVIOUS
    <3>2. wire' = [wire EXCEPT ![s] = <<>>] BY <1>2 DEF LoseStream
    <3>3. QED BY <3>1, <3>2 DEF TypeOK
  <2>5. UNCHANGED <<run, opened, live, storeVars, got, listed>>
    BY <1>2 DEF LoseStream
  <2>6. QED BY <2>2, <2>3, <2>4, <2>5 DEF TypeOK, storeVars
<1>3. CASE ReadMessage(s)
  <2>1. Head(wire[s]) \in Message /\ Tail(wire[s]) \in Seq(Message)
    BY <1>3, HeadTailProperties DEF ReadMessage, TypeOK
  <2>2. Append(got[s], Head(wire[s])) \in Seq(Message)
    BY <2>1 DEF TypeOK
  <2>3. QED BY <1>3, <2>1, <2>2 DEF ReadMessage, TypeOK, storeVars
<1>4. CASE SendToChild(s)
  <2>1. seq[s] + 1 \in 1 .. MaxSends BY <1>4 DEF SendToChild, nextSeq, TypeOK
  <2>2. <<run, seq[s] + 1>> \in Message BY <2>1 DEF TypeOK, Message
  <2>3. Append(wire[s], <<run, seq[s] + 1>>) \in Seq(Message)
    BY <2>2 DEF TypeOK
  <2>4. wire' \in [Sessions -> Seq(Message)]
    BY <1>4, <2>3 DEF SendToChild, nextSeq, TypeOK
  <2>5. seq' \in [Sessions -> 0 .. MaxSends]
    BY <1>4, <2>1 DEF SendToChild, nextSeq, TypeOK
  <2>6. QED BY <1>4, <2>4, <2>5 DEF SendToChild, nextSeq, TypeOK
<1>5. ASSUME NEW stream \in live[s], CloseFires(s, stream) PROVE TypeOK'
  BY <1>5 DEF CloseFires, markWsConnected, detachSse, TypeOK, Pushed, workerVars
<1>6. QED BY <1>1, <1>2, <1>3, <1>4, <1>5 DEF SessionStep

\* Every step keeps the types, and so does a stutter.
LEMMA TypeStep == TypeOK /\ [Next]_vars => TypeOK'
<1>1. TypeOK /\ UNCHANGED vars => TypeOK'
  BY DEF TypeOK, vars, storeVars, workerVars
<1>2. QED BY <1>1, TypeServer, TypeSession DEF Next

-----------------------------------------------------------------------------
(* The stream the store holds.                                             *)

\* No step puts an older stream in the place of the newest.
LEMMA NewestStep ==
    ASSUME IInv, [Next]_vars, NEW t \in Sessions
    PROVE  Newest(t)'
<1> USE DEF None
<1>0. TypeOK /\ \A s \in Sessions : Newest(s)
  BY DEF IInv
<1>1. CASE UNCHANGED vars
  BY <1>0, <1>1 DEF Newest, vars, storeVars, workerVars
<1>2. CASE Restart
  BY <1>0, <1>2 DEF Newest, Restart
<1>3. ASSUME NEW e \in Envs, Deregister(e) PROVE Newest(t)'
  <2>1. /\ wsConnected'[t] = (EnvOf[t] # e /\ wsConnected[t])
        /\ listed'[t] = IF Owner[t] = EnvOwner[e] THEN wsConnected'[t] ELSE listed[t]
        /\ UNCHANGED <<live, sseRes, opened, reading, wire>>
    BY <1>3 DEF Deregister, Pushed, workerVars
  <2>2. Owner[t] # EnvOwner[e] => wsConnected'[t] = wsConnected[t]
    <3>1. Owner[t] # EnvOwner[e] => EnvOf[t] # e OBVIOUS
    <3>2. QED BY <1>0, <2>1, <3>1 DEF TypeOK
  <2>3. listed'[t] = wsConnected'[t]
    BY <1>0, <2>1, <2>2 DEF Newest
  <2>4. wsConnected'[t] => wsConnected[t]
    BY <2>1
  <2>5. QED BY <1>0, <2>1, <2>3, <2>4 DEF Newest
<1>4. ASSUME NEW s \in Sessions, SessionStep(s) PROVE Newest(t)'
  <2>1. CASE OpenStream(s)
    <3>1. CASE t = s
      BY <1>0, <2>1, <3>1 DEF OpenStream, markWsConnected, attachSse, Newest, TypeOK, Pushed
    <3>2. CASE t # s
      <4>1. /\ UNCHANGED <<live[t], sseRes[t], opened[t], reading[t], wire[t], wsConnected[t]>>
        BY <1>0, <2>1, <3>2 DEF OpenStream, markWsConnected, attachSse, TypeOK
      <4>2. listed'[t] = listed[t]
        BY <1>0, <2>1, <4>1 DEF OpenStream, markWsConnected, attachSse, Pushed, Newest
      <4>3. QED BY <1>0, <4>1, <4>2 DEF Newest
    <3>3. QED BY <3>1, <3>2
  <2>2. CASE LoseStream(s)
    BY <1>0, <2>2 DEF LoseStream, Newest, TypeOK, storeVars
  <2>3. CASE ReadMessage(s)
    BY <1>0, <2>3 DEF ReadMessage, Newest, TypeOK, storeVars
  <2>4. CASE SendToChild(s)
    BY <1>0, <2>4 DEF SendToChild, nextSeq, Newest, TypeOK
  <2>5. ASSUME NEW stream \in live[s], CloseFires(s, stream) PROVE Newest(t)'
    <3>1. CASE t = s
      BY <1>0, <2>5, <3>1 DEF CloseFires, markWsConnected, detachSse, Newest, TypeOK, Pushed, workerVars
    <3>2. CASE t # s
      <4>1. /\ UNCHANGED <<live[t], sseRes[t], opened[t], reading[t], wire[t], wsConnected[t]>>
        BY <1>0, <2>5, <3>2 DEF CloseFires, markWsConnected, detachSse, TypeOK, workerVars
      <4>2. listed'[t] = listed[t]
        BY <1>0, <2>5, <4>1 DEF CloseFires, markWsConnected, detachSse, Pushed, Newest
      <4>3. QED BY <1>0, <4>1, <4>2 DEF Newest
    <3>3. QED BY <3>1, <3>2
  <2>6. QED BY <1>4, <2>1, <2>2, <2>3, <2>4, <2>5 DEF SessionStep
<1>5. QED BY <1>1, <1>2, <1>3, <1>4 DEF Next

-----------------------------------------------------------------------------
(* The order of messages.                                                  *)

\* Reading the head of the queue keeps both ends in order.
LEMMA ReadKeepsOrder ==
    ASSUME NEW M, NEW g \in Seq(M), NEW w \in Seq(M), w # <<>>, NEW r, NEW n,
           Sorted(g), Sorted(w), Precede(g, w), UpTo(g, r, n), UpTo(w, r, n)
    PROVE  /\ Sorted(Append(g, Head(w))) /\ Sorted(Tail(w))
           /\ Precede(Append(g, Head(w)), Tail(w))
           /\ UpTo(Append(g, Head(w)), r, n) /\ UpTo(Tail(w), r, n)
<1> DEFINE a == Append(g, Head(w))
           b == Tail(w)
<1>1. /\ Len(g) \in Nat /\ Len(w) \in Nat /\ Len(w) > 0
      /\ DOMAIN g = 1 .. Len(g) /\ DOMAIN w = 1 .. Len(w)
  OBVIOUS
<1>2. /\ DOMAIN a = 1 .. Len(g) + 1
      /\ \A i \in 1 .. Len(g) : a[i] = g[i]
      /\ a[Len(g) + 1] = w[1]
  OBVIOUS
<1>3. /\ DOMAIN b = 1 .. Len(w) - 1
      /\ \A i \in 1 .. Len(w) - 1 : b[i] = w[i + 1]
  BY HeadTailProperties
<1> HIDE DEF a, b
<1>4. ASSUME NEW i \in DOMAIN b
      PROVE  i + 1 \in DOMAIN w /\ 1 < i + 1 /\ b[i] = w[i + 1] /\ i \in Nat
  BY <1>1, <1>3
<1>5. 1 \in DOMAIN w BY <1>1
<1>6. ASSUME NEW i \in DOMAIN a
      PROVE  (i \in DOMAIN g /\ a[i] = g[i]) \/ (i = Len(g) + 1 /\ a[i] = w[1])
  BY <1>1, <1>2
<1>7. ASSUME NEW i \in DOMAIN a, NEW j \in DOMAIN a, i < j
      PROVE  Before(a[i], a[j])
  <2>1. i \in DOMAIN g /\ a[i] = g[i] BY <1>1, <1>2, <1>7
  <2>2. QED BY <1>5, <1>6, <1>7, <2>1 DEF Sorted, Precede
<1>8. ASSUME NEW i \in DOMAIN b, NEW j \in DOMAIN b, i < j
      PROVE  Before(b[i], b[j])
  <2>1. i + 1 < j + 1 BY <1>4, <1>8
  <2>2. QED BY <1>4, <2>1 DEF Sorted
<1>9. ASSUME NEW i \in DOMAIN a, NEW j \in DOMAIN b
      PROVE  Before(a[i], b[j])
  BY <1>4, <1>5, <1>6 DEF Sorted, Precede
<1>10. UpTo(a, r, n) BY <1>5, <1>6 DEF UpTo
<1>11. UpTo(b, r, n) BY <1>4 DEF UpTo
<1>12. QED BY <1>7, <1>8, <1>9, <1>10, <1>11 DEF Sorted, Precede, a, b

\* A number of this run not given before comes last.
LEMMA NumberIsLast ==
    ASSUME NEW g \in Seq(Nat \X Nat), NEW r \in Nat, NEW n \in Nat, UpTo(g, r, n)
    PROVE  /\ \A i \in DOMAIN g : Before(g[i], <<r, n + 1>>)
           /\ UpTo(g, r, n + 1)
<1>1. ASSUME NEW i \in DOMAIN g
      PROVE  /\ Before(g[i], <<r, n + 1>>)
             /\ g[i][1] < r \/ (g[i][1] = r /\ g[i][2] <= n + 1)
  <2>1. g[i] \in Nat \X Nat OBVIOUS
  <2>2. g[i][1] \in Nat /\ g[i][2] \in Nat BY <2>1
  <2>3. g[i][1] < r \/ (g[i][1] = r /\ g[i][2] <= n) BY DEF UpTo
  <2>4. QED BY <2>2, <2>3 DEF Before, Delivery!Before
<1>2. QED BY <1>1 DEF UpTo

\* Sending the next number keeps both ends in order.
LEMMA SendKeepsOrder ==
    ASSUME NEW g \in Seq(Nat \X Nat), NEW w \in Seq(Nat \X Nat), NEW r \in Nat, NEW n \in Nat,
           Sorted(w), Precede(g, w), UpTo(g, r, n), UpTo(w, r, n)
    PROVE  LET a == Append(w, <<r, n + 1>>)
           IN  Sorted(a) /\ Precede(g, a) /\ UpTo(a, r, n + 1)
<1> DEFINE m == <<r, n + 1>>
           a == Append(w, m)
<1>1. /\ Len(w) \in Nat /\ DOMAIN w = 1 .. Len(w)
      /\ DOMAIN a = 1 .. Len(w) + 1
      /\ \A i \in 1 .. Len(w) : a[i] = w[i]
      /\ a[Len(w) + 1] = m
  OBVIOUS
<1>2. m[1] = r /\ m[2] = n + 1
  OBVIOUS
<1>3. /\ \A i \in DOMAIN g : Before(g[i], m)
      /\ \A i \in DOMAIN w : Before(w[i], m)
      /\ UpTo(w, r, n + 1)
  BY NumberIsLast
<1> HIDE DEF m, a
<1>4. ASSUME NEW i \in DOMAIN a
      PROVE  (i \in DOMAIN w /\ a[i] = w[i]) \/ (i = Len(w) + 1 /\ a[i] = m)
  <2>1. i \in 1 .. Len(w) + 1 BY <1>1
  <2>2. CASE i = Len(w) + 1
    <3>1. a[Len(w) + 1] = m BY <1>1
    <3>2. QED BY <2>2, <3>1
  <2>3. CASE i # Len(w) + 1
    <3>1. i \in 1 .. Len(w) BY <1>1, <2>1, <2>3
    <3>2. QED BY <1>1, <3>1
  <2>4. QED BY <2>2, <2>3
<1>5. ASSUME NEW i \in DOMAIN a, NEW j \in DOMAIN a, i < j
      PROVE  Before(a[i], a[j])
  <2>1. i \in 1 .. Len(w)
    <3>1. i \in 1 .. Len(w) + 1 /\ j \in 1 .. Len(w) + 1 BY <1>1
    <3>2. QED BY <1>1, <1>5, <3>1
  <2>2. i \in DOMAIN w /\ a[i] = w[i] BY <1>1, <2>1
  <2>3. QED BY <1>3, <1>4, <1>5, <2>2 DEF Sorted
<1>6. Precede(g, a) BY <1>3, <1>4 DEF Precede
<1>7. UpTo(a, r, n + 1)
  <2>1. n + 1 <= n + 1 OBVIOUS
  <2>2. ASSUME NEW i \in DOMAIN a
        PROVE  a[i][1] < r \/ (a[i][1] = r /\ a[i][2] <= n + 1)
    <3>1. CASE i \in DOMAIN w /\ a[i] = w[i]
      <4>1. w[i][1] < r \/ (w[i][1] = r /\ w[i][2] <= n + 1)
        BY <1>3, <3>1 DEF UpTo
      <4>2. QED BY <3>1, <4>1
    <3>2. CASE a[i] = m
      BY <1>2, <2>1, <3>2
    <3>3. QED BY <1>4, <3>1, <3>2
  <2>3. QED BY <2>2 DEF UpTo
<1>8. QED BY <1>5, <1>6, <1>7 DEF Sorted, a, m

\* A step that leaves the messages of a session alone keeps their order.
LEMMA OrderKept ==
    ASSUME NEW t \in Sessions, Ordered(t),
           UNCHANGED <<run, got[t], wire[t], seq[t]>>
    PROVE  Ordered(t)'
BY DEF Ordered

\* No step disturbs the order of messages.
LEMMA OrderedStep ==
    ASSUME IInv, [Next]_vars, NEW t \in Sessions
    PROVE  Ordered(t)'
<1>0. TypeOK /\ Newest(t) /\ Ordered(t)
  BY DEF IInv
<1>1. CASE UNCHANGED vars
  <2>1. UNCHANGED <<run, got[t], wire[t], seq[t]>>
    BY <1>1 DEF vars, storeVars, workerVars
  <2>2. QED BY <1>0, <2>1, OrderKept
<1>2. CASE Restart
  <2>1. /\ run' = run + 1 /\ got'[t] = got[t] /\ wire'[t] = <<>> /\ seq'[t] = 0
        /\ run \in Nat /\ seq[t] \in Nat /\ got[t] \in Seq(Nat \X Nat)
    BY <1>0, <1>2 DEF Restart, TypeOK, Message
  <2>2. ASSUME NEW i \in DOMAIN got[t] PROVE got[t][i][1] < run + 1
    <3>1. got[t][i] \in Nat \X Nat BY <2>1
    <3>2. got[t][i][1] \in Nat BY <3>1
    <3>3. got[t][i][1] < run \/ got[t][i][1] = run
      BY <1>0 DEF Ordered, UpTo
    <3>4. run \in Nat BY <2>1
    <3>5. \A k \in Nat : k < run \/ k = run => k < run + 1 BY <3>4
    <3>6. QED BY <3>2, <3>3, <3>5
  <2>3. UpTo(got'[t], run', seq'[t])
    BY <2>1, <2>2 DEF UpTo
  <2>4. Sorted(got'[t]) /\ Sorted(wire'[t]) /\ Precede(got'[t], wire'[t])
        /\ UpTo(wire'[t], run', seq'[t])
    BY <1>0, <2>1 DEF Ordered, Sorted, Precede, UpTo
  <2>5. QED BY <2>3, <2>4 DEF Ordered
<1>3. ASSUME NEW e \in Envs, Deregister(e) PROVE Ordered(t)'
  <2>1. UNCHANGED <<run, got[t], wire[t], seq[t]>>
    BY <1>3 DEF Deregister, workerVars
  <2>2. QED BY <1>0, <2>1, OrderKept
<1>4. ASSUME NEW s \in Sessions, SessionStep(s) PROVE Ordered(t)'
  <2>1. CASE OpenStream(s)
    <3>1. UNCHANGED <<run, got[t], wire[t], seq[t]>>
      BY <2>1 DEF OpenStream, markWsConnected, attachSse
    <3>2. QED BY <1>0, <3>1, OrderKept
  <2>2. CASE LoseStream(s)
    <3>1. UNCHANGED <<run, got[t], seq[t]>> /\ wire'[t] \in {wire[t], <<>>}
      BY <1>0, <2>2 DEF LoseStream, storeVars, TypeOK
    <3>2. CASE wire'[t] = wire[t]
      BY <1>0, <3>1, <3>2, OrderKept
    <3>3. CASE wire'[t] = <<>>
      BY <1>0, <3>1, <3>3 DEF Ordered, Sorted, Precede, UpTo
    <3>4. QED BY <3>1, <3>2, <3>3
  <2>3. CASE ReadMessage(s)
    <3>1. CASE t # s
      <4>1. UNCHANGED <<run, got[t], wire[t], seq[t]>>
        BY <1>0, <2>3, <3>1 DEF ReadMessage, storeVars, TypeOK
      <4>2. QED BY <1>0, <4>1, OrderKept
    <3>2. CASE t = s
      <4>1. /\ got[t] \in Seq(Message) /\ wire[t] \in Seq(Message) /\ wire[t] # <<>>
            /\ got'[t] = Append(got[t], Head(wire[t])) /\ wire'[t] = Tail(wire[t])
            /\ UNCHANGED <<run, seq>>
        BY <1>0, <2>3, <3>2 DEF ReadMessage, TypeOK, storeVars
      <4>2. /\ Sorted(got[t]) /\ Sorted(wire[t]) /\ Precede(got[t], wire[t])
            /\ UpTo(got[t], run, seq[t]) /\ UpTo(wire[t], run, seq[t])
        BY <1>0 DEF Ordered
      <4>3. /\ Sorted(got'[t]) /\ Sorted(wire'[t]) /\ Precede(got'[t], wire'[t])
            /\ UpTo(got'[t], run, seq[t]) /\ UpTo(wire'[t], run, seq[t])
        BY <4>1, <4>2, ReadKeepsOrder
      <4>4. QED BY <4>1, <4>3 DEF Ordered
    <3>3. QED BY <3>1, <3>2
  <2>4. CASE SendToChild(s)
    <3>1. CASE t # s
      <4>1. UNCHANGED <<run, got[t], wire[t], seq[t]>>
        BY <1>0, <2>4, <3>1 DEF SendToChild, nextSeq, TypeOK
      <4>2. QED BY <1>0, <4>1, OrderKept
    <3>2. CASE t = s
      <4>1. /\ UNCHANGED <<run, got>> /\ seq'[t] = seq[t] + 1
            /\ wire'[t] \in {wire[t], Append(wire[t], <<run, seq[t] + 1>>)}
        BY <1>0, <2>4, <3>2 DEF SendToChild, nextSeq, TypeOK
      <4>2. /\ wire[t] \in Seq(Nat \X Nat) /\ got[t] \in Seq(Nat \X Nat)
            /\ seq[t] \in Nat /\ run \in Nat
        <5>1. Message \subseteq Nat \X Nat BY DEF Message
        <5>2. wire[t] \in Seq(Message) /\ got[t] \in Seq(Message) BY <1>0 DEF TypeOK
        <5> HIDE DEF Message
        <5>3. wire[t] \in Seq(Nat \X Nat) /\ got[t] \in Seq(Nat \X Nat)
          BY <5>1, <5>2, SeqMonotonic
        <5>4. QED BY <1>0, <5>3 DEF TypeOK
      <4>3. /\ Sorted(got[t]) /\ Sorted(wire[t]) /\ Precede(got[t], wire[t])
            /\ UpTo(got[t], run, seq[t]) /\ UpTo(wire[t], run, seq[t])
        BY <1>0 DEF Ordered
      <4>4. UpTo(got[t], run, seq[t] + 1) /\ UpTo(wire[t], run, seq[t] + 1)
        BY <4>2, <4>3, NumberIsLast
      <4>5. Sorted(wire'[t]) /\ Precede(got[t], wire'[t]) /\ UpTo(wire'[t], run, seq[t] + 1)
        <5> DEFINE w == Append(wire[t], <<run, seq[t] + 1>>)
        <5>1. Sorted(w) /\ Precede(got[t], w) /\ UpTo(w, run, seq[t] + 1)
          BY <4>2, <4>3, SendKeepsOrder
        <5>2. wire'[t] = wire[t] \/ wire'[t] = w
          BY <4>1
        <5> HIDE DEF w
        <5>3. CASE wire'[t] = wire[t]
          BY <4>3, <4>4, <5>3
        <5>4. CASE wire'[t] = w
          BY <5>1, <5>4
        <5>5. QED BY <5>2, <5>3, <5>4
      <4>6. QED BY <4>1, <4>3, <4>4, <4>5 DEF Ordered
    <3>3. QED BY <3>1, <3>2
  <2>5. ASSUME NEW stream \in live[s], CloseFires(s, stream) PROVE Ordered(t)'
    <3>1. UNCHANGED <<run, got[t], wire[t], seq[t]>>
      BY <2>5 DEF CloseFires, markWsConnected, detachSse, workerVars
    <3>2. QED BY <1>0, <3>1, OrderKept
  <2>6. QED BY <1>4, <2>1, <2>2, <2>3, <2>4, <2>5 DEF SessionStep
<1>5. QED BY <1>1, <1>2, <1>3, <1>4 DEF Next

\* The invariant is inductive.
LEMMA InvStep == IInv /\ [Next]_vars => IInv'
BY TypeStep, NewestStep, OrderedStep DEF IInv

\* It holds for ever.
LEMMA InvAlways == Spec => []IInv
BY InvInit, InvStep, PTL DEF Spec

-----------------------------------------------------------------------------
(* The theorems.                                                           *)

\* A session the list shows as active is attached to the newest stream its
\* worker opened, whatever closes come late, deregistrations and restarts
\* included.
THEOREM ActiveSessionsReachable == Spec => []OnlineIsReachable
<1>1. IInv => OnlineIsReachable
  <2> SUFFICES ASSUME IInv, NEW s \in Sessions, listed[s]
               PROVE  sseRes[s] \in live[s] /\ \A stream \in live[s] : stream <= sseRes[s]
    BY DEF OnlineIsReachable
  <2>1. Newest(s) /\ opened[s] \in Nat BY DEF IInv, TypeOK
  <2>2. QED BY <2>1 DEF Newest
<1>2. QED BY <1>1, InvAlways, PTL

\* No accepted message goes to a stream seen closed, nor past a worker that
\* reads another.
THEOREM MessagesGoToTheReader == Spec => []AttachedToReader
<1>1. IInv => AttachedToReader
  BY DEF IInv, AttachedToReader, Newest
<1>2. QED BY <1>1, InvAlways, PTL

\* What ClientEvents comes to: a worker reads messages in the order they were sent
\* (store.ts, sendToChild), none twice.
LEMMA MessagesInOrder == Spec => []Delivery!InOrder
<1>1. IInv => Delivery!InOrder
  BY DEF IInv, Ordered, Sorted, Before, Delivery!InOrder
<1>2. QED BY <1>1, InvAlways, PTL

\* Every step of the data plane is a step of the lossy, ordered delivery of
\* ClientEvents, or none.
LEMMA StepRefines == IInv /\ [Next]_vars => [Delivery!Next]_Delivery!vars
<1> SUFFICES ASSUME IInv, [Next]_vars
             PROVE  [Delivery!Next]_Delivery!vars
  OBVIOUS
<1>0. TypeOK /\ \A s \in Sessions : Newest(s)
  BY DEF IInv
<1>1. CASE UNCHANGED vars
  BY <1>1 DEF vars, storeVars, workerVars, Delivery!vars
<1>2. CASE Restart
  BY <1>2 DEF Restart, Delivery!Restart, Delivery!Next
<1>3. ASSUME NEW e \in Envs, Deregister(e) PROVE UNCHANGED Delivery!vars
  BY <1>3 DEF Deregister, workerVars, Delivery!vars
<1>4. ASSUME NEW s \in Sessions, SessionStep(s) PROVE [Delivery!Next]_Delivery!vars
  <2>1. CASE OpenStream(s)
    BY <2>1 DEF OpenStream, markWsConnected, attachSse, Delivery!vars
  <2>2. CASE LoseStream(s)
    <3>1. Delivery!Lose(s) BY <2>2 DEF LoseStream, Delivery!Lose, storeVars
    <3>2. QED BY <3>1 DEF Delivery!Next
  <2>3. CASE ReadMessage(s)
    <3>1. Delivery!Receive(s) BY <2>3 DEF ReadMessage, Delivery!Receive, storeVars
    <3>2. QED BY <3>1 DEF Delivery!Next
  <2>4. CASE SendToChild(s)
    <3>1. wire' \in {wire, [wire EXCEPT ![s] = Append(@, <<run, seq[s] + 1>>)]}
      <4>1. [wire EXCEPT ![s] = @] = wire BY <1>0 DEF TypeOK
      <4>2. nextSeq(s)[s] = seq[s] + 1 BY <1>0 DEF TypeOK, nextSeq
      <4>3. QED BY <2>4, <4>1, <4>2 DEF SendToChild
    <3>2. Delivery!Send(s) BY <2>4, <3>1 DEF SendToChild, nextSeq, Delivery!Send
    <3>3. QED BY <3>2 DEF Delivery!Next
  <2>5. ASSUME NEW stream \in live[s], CloseFires(s, stream) PROVE UNCHANGED Delivery!vars
    BY <2>5 DEF CloseFires, markWsConnected, detachSse, workerVars, Delivery!vars
  <2>6. QED BY <1>4, <2>1, <2>2, <2>3, <2>4, <2>5 DEF SessionStep
<1>5. QED BY <1>1, <1>2, <1>3, <1>4 DEF Next

\* The data plane implements ClientEvents: what it does with streams, closes
\* and reconnects can lose messages, never repeat or reorder them.
THEOREM ImplementsClientEvents == Spec => DeliversInOrder
<1>1. Init => Delivery!Init
  BY DEF Init, Delivery!Init
<1>2. QED BY <1>1, StepRefines, InvAlways, PTL DEF Spec, DeliversInOrder, Delivery!Spec

\* The data plane's variables keep their types for ever.
THEOREM DataPlaneTypes == Spec => []TypeOK
<1>1. IInv => TypeOK BY DEF IInv
<1>2. QED BY <1>1, InvAlways, PTL

=============================================================================
