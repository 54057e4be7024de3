----------------------------- MODULE RelayProofs -----------------------------
(***************************************************************************)
(* What a phone is sent, holds back and shows, in every behaviour of       *)
(* MCWebChannel and for any sessions, phones, accounts, events and bounds. *)
(* The two instances of WebChannel that MCWebChannel runs are the two that *)
(* the invariants of WebChannelProofs are about: with PostgreSQL, one      *)
(* subscribe of a socket at a time (its query answered) and a worker that  *)
(* waits for the answer of its POST; and without a pool.                   *)
(***************************************************************************)
EXTENDS MCWebChannel, WebChannelProofs

\* The instances of MCWebChannel, with their lemmas.
PoolP == INSTANCE WebChannelProofs WITH
    QueryMayFail <- FALSE, InsertMayFail <- TRUE, HistoryLimit <- PoolHistory,
    Deltas <- Streamed, Notes <- Notified, MaxEvents <- MaxEmitted, MaxBatch <- MaxPosted,
    MaxPosts <- 1, MaxDown <- PoolUnread

MemoryP == INSTANCE WebChannelProofs WITH
    HasPool <- FALSE, QueryMayFail <- FALSE, InsertMayFail <- FALSE,
    HistoryLimit <- MemoryHistory, Deltas <- Streamed, Notes <- Notified,
    MaxEvents <- MaxEmitted, MaxBatch <- MaxPosted, MaxPosts <- 1, MaxDown <- MemoryUnread

\* Both instances meet the assumptions of WebChannel.
LEMMA PoolAssumptions == PoolP!RelayAssumption /\ PoolP!NullAssumption
<1>1. PoolP!RelayAssumption
  BY RelayAssumption, PartsAssumption DEF PoolP!RelayAssumption
<1>2. PoolP!NullAssumption
  BY NullAssumption DEF PoolP!NullAssumption, PoolP!Event, PoolP!Handler, Event, Handler
<1>3. QED BY <1>1, <1>2

\* So does the instance without a pool.
LEMMA MemoryAssumptions == MemoryP!RelayAssumption /\ MemoryP!NullAssumption
<1>1. MemoryP!RelayAssumption
  BY RelayAssumption, PartsAssumption DEF MemoryP!RelayAssumption
<1>2. MemoryP!NullAssumption
  BY NullAssumption DEF MemoryP!NullAssumption, MemoryP!Event, MemoryP!Handler, Event, Handler
<1>3. QED BY <1>1, <1>2

-----------------------------------------------------------------------------
(* The steps of both instances, one action of web-channel.ts at a time.    *)

\* With PostgreSQL the steps are those the lemmas of WebChannelProofs are about.
LEMMA PoolStep == [Pool!Next]_vars => [PoolP!Next]_(PoolP!vars)
<1> SUFFICES ASSUME [Pool!Next]_vars PROVE [PoolP!Next]_(PoolP!vars)
  OBVIOUS
<1>1. ASSUME NEW s, NEW k, Pool!Relay(s, k) PROVE PoolP!Relay(s, k)
  BY <1>1 DEF Pool!Relay, PoolP!Relay, Pool!Free, PoolP!Free, Pool!Quiet, PoolP!Quiet,
     Pool!Idle, PoolP!Idle, Pool!Watches, PoolP!Watches, Pool!Overhears,
     PoolP!Overhears, Pool!Owns, PoolP!Owns, Pool!Pick, PoolP!Pick, Pool!SubseqAt,
     PoolP!SubseqAt, Pool!EventFrames, PoolP!EventFrames, Pool!Cardinality,
     PoolP!Cardinality
<1>2. ASSUME NEW s, NEW b, Pool!Persist(s, b) PROVE PoolP!Persist(s, b)
  BY <1>2 DEF Pool!Persist, PoolP!Persist, Pool!Pick, PoolP!Pick, Pool!SubseqAt,
     PoolP!SubseqAt, Pool!Stored, PoolP!Stored, Pool!Newest, PoolP!Newest,
     Pool!sockVars, PoolP!sockVars
<1>3. ASSUME NEW s, NEW b, Pool!PersistFails(s, b) PROVE PoolP!PersistFails(s, b)
  BY <1>3 DEF Pool!PersistFails, PoolP!PersistFails, Pool!Pick, PoolP!Pick,
     Pool!SubseqAt, PoolP!SubseqAt, Pool!Stored, PoolP!Stored, Pool!sockVars,
     PoolP!sockVars
<1>4. ASSUME NEW p, Pool!HandleSubscribe(p) PROVE PoolP!HandleSubscribe(p)
  BY <1>4 DEF Pool!HandleSubscribe, PoolP!HandleSubscribe, Pool!Free, PoolP!Free,
     Pool!Quiet, PoolP!Quiet, Pool!Idle, PoolP!Idle, Pool!Owns, PoolP!Owns,
     Pool!Buffering, PoolP!Buffering, Pool!serverVars, PoolP!serverVars
<1>5. ASSUME NEW p, NEW h, Pool!QueryRuns(p, h) PROVE PoolP!QueryRuns(p, h)
  BY <1>5 DEF Pool!QueryRuns, PoolP!QueryRuns, Pool!Awaiting, PoolP!Awaiting,
     Pool!Newest, PoolP!Newest, Pool!serverVars, PoolP!serverVars
<1>6. ASSUME NEW p, NEW h, Pool!QueryFails(p, h) PROVE PoolP!QueryFails(p, h)
  BY <1>6 DEF Pool!QueryFails, PoolP!QueryFails, Pool!Awaiting, PoolP!Awaiting,
     Pool!serverVars, PoolP!serverVars
<1>7. ASSUME NEW p, NEW h, Pool!FinishSubscribe(p, h) PROVE PoolP!FinishSubscribe(p, h)
  BY <1>7 DEF Pool!FinishSubscribe, PoolP!FinishSubscribe, Pool!Answered,
     PoolP!Answered, Pool!HistoryFrame, PoolP!HistoryFrame, Pool!Drained, PoolP!Drained,
     Pool!EventFrames, PoolP!EventFrames, Pool!Released, PoolP!Released,
     Pool!serverVars, PoolP!serverVars
<1>8. ASSUME NEW p, Pool!Connect(p) PROVE PoolP!Connect(p)
  BY <1>8 DEF Pool!Connect, PoolP!Connect, Pool!Free, PoolP!Free, Pool!Quiet,
     PoolP!Quiet, Pool!Idle, PoolP!Idle, Pool!serverVars, PoolP!serverVars
<1>9. ASSUME NEW p, Pool!Disconnect(p) PROVE PoolP!Disconnect(p)
  BY <1>9 DEF Pool!Disconnect, PoolP!Disconnect, Pool!Free, PoolP!Free, Pool!Quiet,
     PoolP!Quiet, Pool!Idle, PoolP!Idle, Pool!serverVars, PoolP!serverVars
<1>10. ASSUME NEW p, NEW s, Pool!OpenSession(p, s) PROVE PoolP!OpenSession(p, s)
  BY <1>10 DEF Pool!OpenSession, PoolP!OpenSession, Pool!Blank, PoolP!Blank,
     Pool!Cardinality, PoolP!Cardinality, Pool!serverVars, PoolP!serverVars,
     Pool!sockVars, PoolP!sockVars
<1>11. ASSUME NEW p, Pool!CloseSession(p) PROVE PoolP!CloseSession(p)
  BY <1>11 DEF Pool!CloseSession, PoolP!CloseSession, Pool!Blank, PoolP!Blank,
     Pool!serverVars, PoolP!serverVars, Pool!sockVars, PoolP!sockVars
<1>12. ASSUME NEW p, Pool!Deliver(p) PROVE PoolP!Deliver(p)
  BY <1>12 DEF Pool!Deliver, PoolP!Deliver, Pool!Consume, PoolP!Consume,
     Pool!serverVars, PoolP!serverVars, Pool!sockVars, PoolP!sockVars
<1>13. Pool!WorkerStep => PoolP!WorkerStep
  BY <1>1, <1>2, <1>3 DEF Pool!WorkerStep, PoolP!WorkerStep
<1>14. ASSUME NEW p, Pool!SubscribeStep(p) PROVE PoolP!SubscribeStep(p)
  BY <1>14, <1>4, <1>5, <1>6, <1>7 DEF Pool!SubscribeStep, PoolP!SubscribeStep
<1>15. ASSUME NEW p, Pool!BrowserStep(p) PROVE PoolP!BrowserStep(p)
  BY <1>15, <1>8, <1>9, <1>10, <1>11, <1>12 DEF Pool!BrowserStep, PoolP!BrowserStep
<1>16. CASE Pool!Next
  BY <1>13, <1>14, <1>15, <1>16 DEF Pool!Next, PoolP!Next
<1>17. CASE UNCHANGED vars
  BY <1>17 DEF vars, serverVars, sockVars, PoolP!vars, PoolP!serverVars, PoolP!sockVars
<1>18. QED BY <1>16, <1>17

\* So are those without a pool.
LEMMA MemoryStep == [Memory!Next]_vars => [MemoryP!Next]_(MemoryP!vars)
<1> SUFFICES ASSUME [Memory!Next]_vars PROVE [MemoryP!Next]_(MemoryP!vars)
  OBVIOUS
<1>1. ASSUME NEW s, NEW k, Memory!Relay(s, k) PROVE MemoryP!Relay(s, k)
  BY <1>1 DEF Memory!Relay, MemoryP!Relay, Memory!Free, MemoryP!Free, Memory!Quiet,
     MemoryP!Quiet, Memory!Idle, MemoryP!Idle, Memory!Watches, MemoryP!Watches,
     Memory!Overhears, MemoryP!Overhears, Memory!Owns, MemoryP!Owns, Memory!Pick,
     MemoryP!Pick, Memory!SubseqAt, MemoryP!SubseqAt, Memory!EventFrames,
     MemoryP!EventFrames, Memory!Cardinality, MemoryP!Cardinality
<1>2. ASSUME NEW s, NEW b, Memory!Persist(s, b) PROVE MemoryP!Persist(s, b)
  BY <1>2 DEF Memory!Persist, MemoryP!Persist, Memory!Pick, MemoryP!Pick,
     Memory!SubseqAt, MemoryP!SubseqAt, Memory!Stored, MemoryP!Stored, Memory!Newest,
     MemoryP!Newest, Memory!sockVars, MemoryP!sockVars
<1>3. ASSUME NEW s, NEW b, Memory!PersistFails(s, b) PROVE MemoryP!PersistFails(s, b)
  BY <1>3 DEF Memory!PersistFails, MemoryP!PersistFails, Memory!Pick, MemoryP!Pick,
     Memory!SubseqAt, MemoryP!SubseqAt, Memory!Stored, MemoryP!Stored, Memory!sockVars,
     MemoryP!sockVars
<1>4. ASSUME NEW p, Memory!HandleSubscribe(p) PROVE MemoryP!HandleSubscribe(p)
  BY <1>4 DEF Memory!HandleSubscribe, MemoryP!HandleSubscribe, Memory!Free,
     MemoryP!Free, Memory!Quiet, MemoryP!Quiet, Memory!Idle, MemoryP!Idle, Memory!Owns,
     MemoryP!Owns, Memory!Buffering, MemoryP!Buffering, Memory!serverVars,
     MemoryP!serverVars
<1>5. ASSUME NEW p, NEW h, Memory!QueryRuns(p, h) PROVE MemoryP!QueryRuns(p, h)
  BY <1>5 DEF Memory!QueryRuns, MemoryP!QueryRuns, Memory!Awaiting, MemoryP!Awaiting,
     Memory!Newest, MemoryP!Newest, Memory!serverVars, MemoryP!serverVars
<1>6. ASSUME NEW p, NEW h, Memory!QueryFails(p, h) PROVE MemoryP!QueryFails(p, h)
  BY <1>6 DEF Memory!QueryFails, MemoryP!QueryFails, Memory!Awaiting, MemoryP!Awaiting,
     Memory!serverVars, MemoryP!serverVars
<1>7. ASSUME NEW p, NEW h, Memory!FinishSubscribe(p, h) PROVE MemoryP!FinishSubscribe(p, h)
  BY <1>7 DEF Memory!FinishSubscribe, MemoryP!FinishSubscribe, Memory!Answered,
     MemoryP!Answered, Memory!HistoryFrame, MemoryP!HistoryFrame, Memory!Drained,
     MemoryP!Drained, Memory!EventFrames, MemoryP!EventFrames, Memory!Released,
     MemoryP!Released, Memory!serverVars, MemoryP!serverVars
<1>8. ASSUME NEW p, Memory!Connect(p) PROVE MemoryP!Connect(p)
  BY <1>8 DEF Memory!Connect, MemoryP!Connect, Memory!Free, MemoryP!Free, Memory!Quiet,
     MemoryP!Quiet, Memory!Idle, MemoryP!Idle, Memory!serverVars, MemoryP!serverVars
<1>9. ASSUME NEW p, Memory!Disconnect(p) PROVE MemoryP!Disconnect(p)
  BY <1>9 DEF Memory!Disconnect, MemoryP!Disconnect, Memory!Free, MemoryP!Free,
     Memory!Quiet, MemoryP!Quiet, Memory!Idle, MemoryP!Idle, Memory!serverVars,
     MemoryP!serverVars
<1>10. ASSUME NEW p, NEW s, Memory!OpenSession(p, s) PROVE MemoryP!OpenSession(p, s)
  BY <1>10 DEF Memory!OpenSession, MemoryP!OpenSession, Memory!Blank, MemoryP!Blank,
     Memory!Cardinality, MemoryP!Cardinality, Memory!serverVars, MemoryP!serverVars,
     Memory!sockVars, MemoryP!sockVars
<1>11. ASSUME NEW p, Memory!CloseSession(p) PROVE MemoryP!CloseSession(p)
  BY <1>11 DEF Memory!CloseSession, MemoryP!CloseSession, Memory!Blank, MemoryP!Blank,
     Memory!serverVars, MemoryP!serverVars, Memory!sockVars, MemoryP!sockVars
<1>12. ASSUME NEW p, Memory!Deliver(p) PROVE MemoryP!Deliver(p)
  BY <1>12 DEF Memory!Deliver, MemoryP!Deliver, Memory!Consume, MemoryP!Consume,
     Memory!serverVars, MemoryP!serverVars, Memory!sockVars, MemoryP!sockVars
<1>13. Memory!WorkerStep => MemoryP!WorkerStep
  BY <1>1, <1>2, <1>3 DEF Memory!WorkerStep, MemoryP!WorkerStep
<1>14. ASSUME NEW p, Memory!SubscribeStep(p) PROVE MemoryP!SubscribeStep(p)
  BY <1>14, <1>4, <1>5, <1>6, <1>7 DEF Memory!SubscribeStep, MemoryP!SubscribeStep
<1>15. ASSUME NEW p, Memory!BrowserStep(p) PROVE MemoryP!BrowserStep(p)
  BY <1>15, <1>8, <1>9, <1>10, <1>11, <1>12 DEF Memory!BrowserStep, MemoryP!BrowserStep
<1>16. CASE Memory!Next
  BY <1>13, <1>14, <1>15, <1>16 DEF Memory!Next, MemoryP!Next
<1>17. CASE UNCHANGED vars
  BY <1>17 DEF vars, serverVars, sockVars, MemoryP!vars, MemoryP!serverVars, MemoryP!sockVars
<1>18. QED BY <1>16, <1>17

-----------------------------------------------------------------------------
(* The invariant of MCWebChannel, and what it says.                        *)

\* With PostgreSQL: what is buffered, or shown after the backfill, is what was
\* relayed since the subscribe; a buffer is there for a backfill; and every
\* history is in order.  Without: the ring holds the newest events there are.
ChannelInv ==
    /\ part = "pool" => PoolP!Relaying /\ PoolP!HeldOnlyDuringBackfill /\ PoolP!InOrder
    /\ part = "memory" => MemoryP!Exact

\* What a browser will show once it has read what it was sent.
LEMMA PoolReceived == \A p : PoolP!Received(p) = Pool!Received(p)
BY DEF PoolP!Received, Pool!Received, PoolP!Reading, Pool!Reading, PoolP!Consume, Pool!Consume

\* So is the order of the backfill.
LEMMA OrderedMeans == PoolP!BackfillOrdered => Pool!BackfillOrdered
BY PoolReceived DEF PoolP!BackfillOrdered, Pool!BackfillOrdered, PoolP!InFlight, Pool!InFlight,
       PoolP!Follows, Pool!Follows, PoolP!Stored, Pool!Stored

\* So is what comes after it.
LEMMA ContiguousMeans == PoolP!LiveContiguous => Pool!LiveContiguous
BY PoolReceived DEF PoolP!LiveContiguous, Pool!LiveContiguous, PoolP!Follows, Pool!Follows,
       PoolP!Latest, Pool!Latest

\* Without a pool: what a browser will show once it has read what it was sent.
LEMMA MemoryReceived == \A p : MemoryP!Received(p) = Memory!Received(p)
BY DEF MemoryP!Received, Memory!Received, MemoryP!Reading, Memory!Reading, MemoryP!Consume, Memory!Consume

\* So is the transcript that misses nothing.
LEMMA ExactMeans == MemoryP!ExactTranscript => Memory!ExactTranscript
<1>1. \A s, n : MemoryP!Latest(s, n) = Memory!Latest(s, n)
  BY DEF MemoryP!Latest, Memory!Latest
<1>2. \A b, N : MemoryP!Pick(b, N) = Memory!Pick(b, N)
  BY DEF MemoryP!Pick, Memory!Pick, MemoryP!SubseqAt, Memory!SubseqAt
<1>3. \A a, b : MemoryP!IsSuffix(a, b) <=> Memory!IsSuffix(a, b)
  BY DEF MemoryP!IsSuffix, Memory!IsSuffix, MemoryP!IsPrefix, Memory!IsPrefix, MemoryP!Reverse, Memory!Reverse
<1>4. MemoryP!Stored = Memory!Stored /\ \A p : (MemoryP!Follows(p) <=> Memory!Follows(p))
                                            /\ (MemoryP!InFlight(p) <=> Memory!InFlight(p))
  BY DEF MemoryP!Stored, Memory!Stored, MemoryP!Follows, Memory!Follows, MemoryP!InFlight, Memory!InFlight
<1>5. QED BY <1>1, <1>2, <1>3, <1>4, MemoryReceived DEF MemoryP!ExactTranscript, Memory!ExactTranscript

\* A part is chosen once, and starts with every phone offline.
LEMMA ChannelInvInit == ChannelInit => ChannelInv
<1> SUFFICES ASSUME Init PROVE ChannelInv
  BY DEF ChannelInit
<1>1. PoolP!Init
  BY DEF Init, PoolP!Init, Blank, PoolP!Blank
<1>2. MemoryP!Init
  BY DEF Init, MemoryP!Init, Blank, MemoryP!Blank
<1>3. PoolP!Relaying
  BY <1>1, PoolP!RelayingInit, PoolAssumptions
<1>4. PoolP!HeldOnlyDuringBackfill
  BY <1>1, PoolP!HeldInit, PoolAssumptions
<1>5. PoolP!InOrder
  BY <1>1, PoolP!InOrderInit, PoolAssumptions
<1>6. MemoryP!Exact
  BY <1>2, MemoryP!ExactInit, MemoryAssumptions
<1>7. QED BY <1>3, <1>4, <1>5, <1>6 DEF ChannelInv

\* Every step of a part keeps what the part promises.
LEMMA ChannelInvStep == ChannelInv /\ [ChannelNext]_<<part, vars>> => ChannelInv'
<1> SUFFICES ASSUME ChannelInv, [ChannelNext]_<<part, vars>> PROVE ChannelInv'
  OBVIOUS
<1>1. part' = part
  BY DEF ChannelNext
<1>2. ASSUME part = "pool"
      PROVE  (PoolP!Relaying /\ PoolP!HeldOnlyDuringBackfill /\ PoolP!InOrder)'
  <2>1. [Pool!Next]_vars /\ (OneSubscribe \/ UNCHANGED vars)
    BY <1>2 DEF ChannelNext
  <2>2. [PoolP!Next]_(PoolP!vars)
    BY <2>1, PoolStep
  <2>3. PoolP!Relaying /\ PoolP!HeldOnlyDuringBackfill /\ PoolP!InOrder /\ PoolP!TypeOK
    BY <1>2 DEF ChannelInv, PoolP!Relaying
  <2>4. PoolP!OneHandler'
    <3>1. CASE OneSubscribe
      BY <3>1 DEF OneSubscribe, PoolP!OneHandler
    <3>2. CASE UNCHANGED vars
      BY <2>3, <3>2 DEF PoolP!Relaying, PoolP!OneHandler, vars, sockVars
    <3>3. QED BY <2>1, <3>1, <3>2
  <2>5. PoolP!Relaying'
    BY <2>2, <2>3, <2>4, PoolP!RelayingStep, PoolAssumptions
  <2>6. PoolP!HeldOnlyDuringBackfill'
    BY <2>2, <2>3, PoolP!HeldStep, PoolAssumptions
  <2>7. PoolP!InOrder'
    BY <2>2, <2>3, PoolP!InOrderStep, PoolAssumptions
  <2>8. QED BY <2>5, <2>6, <2>7
<1>3. ASSUME part = "memory" PROVE MemoryP!Exact'
  <2>1. [Memory!Next]_vars
    BY <1>3 DEF ChannelNext
  <2>2. [MemoryP!Next]_(MemoryP!vars)
    BY <2>1, MemoryStep
  <2>3. MemoryP!Exact
    BY <1>3 DEF ChannelInv
  <2>4. QED BY <2>2, <2>3, MemoryP!ExactStep, MemoryAssumptions
<1>4. QED BY <1>1, <1>2, <1>3 DEF ChannelInv

\* The invariant holds throughout.
LEMMA ChannelInvHolds == ChannelSpec => []ChannelInv
BY ChannelInvInit, ChannelInvStep, PTL DEF ChannelSpec

\* The variables keep their types in every part.
LEMMA ChannelTypes == ChannelSpec => []TypeOK
<1>1. ChannelInit => TypeOK
  BY TypeInit DEF ChannelInit
<1>2. PoolP!TypeOK <=> TypeOK
  BY DEF PoolP!TypeOK, TypeOK, PoolP!Event, Event, PoolP!Handler, Handler, PoolP!Frame, Frame,
         PoolP!Transcript, Transcript
<1>3. MemoryP!TypeOK <=> TypeOK
  BY DEF MemoryP!TypeOK, TypeOK, MemoryP!Event, Event, MemoryP!Handler, Handler, MemoryP!Frame, Frame,
         MemoryP!Transcript, Transcript
<1>4. ASSUME TypeOK, [ChannelNext]_<<part, vars>> PROVE TypeOK'
  <2>1. [Next]_vars \/ [Pool!Next]_vars \/ [Memory!Next]_vars
    BY <1>4 DEF ChannelNext
  <2>2. CASE [Next]_vars
    BY <1>4, <2>2, TypeStep
  <2>3. CASE [Pool!Next]_vars
    <3>1. [PoolP!Next]_(PoolP!vars)
      BY <2>3, PoolStep
    <3>2. PoolP!TypeOK'
      BY <1>2, <1>4, <3>1, PoolP!TypeStep, PoolAssumptions
    <3>3. QED BY <3>2 DEF PoolP!TypeOK, TypeOK, PoolP!Event, Event, PoolP!Handler, Handler, PoolP!Frame,
                          Frame, PoolP!Transcript, Transcript
  <2>4. CASE [Memory!Next]_vars
    <3>1. [MemoryP!Next]_(MemoryP!vars)
      BY <2>4, MemoryStep
    <3>2. MemoryP!TypeOK'
      BY <1>3, <1>4, <3>1, MemoryP!TypeStep, MemoryAssumptions
    <3>3. QED BY <3>2 DEF MemoryP!TypeOK, TypeOK, MemoryP!Event, Event, MemoryP!Handler, Handler,
                          MemoryP!Frame, Frame, MemoryP!Transcript, Transcript
  <2>5. QED BY <2>1, <2>2, <2>3, <2>4
<1>5. QED BY <1>1, <1>4, PTL DEF ChannelSpec

\* While a backfill is under way live events are buffered, and no longer
\* (web-channel.ts, handleMsg and handleEvent), with several subscribes in flight,
\* queries that fail, reconnects and accounts, but for the two ways to lose hold
\* of the one buffer there are: another answer, and a rejected query.
THEOREM HeldBack == ChannelSpec => HeldExactly
<1>1. ASSUME TypeOK, [ChannelNext]_<<part, vars>> PROVE HoldsBack
  <2>1. [Next]_vars \/ [Pool!Next]_vars \/ [Memory!Next]_vars
    BY <1>1 DEF ChannelNext
  <2>2. CASE [Next]_vars
    BY <1>1, <2>2, HoldsBackStep
  <2>3. CASE [Pool!Next]_vars
    <3>1. [PoolP!Next]_(PoolP!vars)
      BY <2>3, PoolStep
    <3>2. PoolP!TypeOK
      BY <1>1 DEF PoolP!TypeOK, TypeOK, PoolP!Event, Event, PoolP!Handler, Handler, PoolP!Frame, Frame,
                  PoolP!Transcript, Transcript
    <3>3. PoolP!HoldsBack
      BY <3>1, <3>2, PoolP!HoldsBackStep, PoolAssumptions
    <3>4. QED BY <3>3 DEF PoolP!HoldsBack, HoldsBack, PoolP!Racing, Racing, PoolP!Stuck, Stuck, PoolP!InFlight,
                          InFlight, PoolP!Answered, Answered, PoolP!Awaiting, Awaiting
  <2>4. CASE [Memory!Next]_vars
    <3>1. [MemoryP!Next]_(MemoryP!vars)
      BY <2>4, MemoryStep
    <3>2. MemoryP!TypeOK
      BY <1>1 DEF MemoryP!TypeOK, TypeOK, MemoryP!Event, Event, MemoryP!Handler, Handler, MemoryP!Frame,
                  Frame, MemoryP!Transcript, Transcript
    <3>3. MemoryP!HoldsBack
      BY <3>1, <3>2, MemoryP!HoldsBackStep, MemoryAssumptions
    <3>4. QED BY <3>3 DEF MemoryP!HoldsBack, HoldsBack, MemoryP!Racing, Racing, MemoryP!Stuck, Stuck,
                          MemoryP!InFlight, InFlight, MemoryP!Answered, Answered, MemoryP!Awaiting, Awaiting
  <2>5. QED BY <2>1, <2>2, <2>3, <2>4
<1>2. QED BY <1>1, ChannelTypes, PTL DEF ChannelSpec, HeldExactly

\* What a phone was sent: its backfill is in the order of the worker's events
\* and without deltas, whatever INSERTs failed (store.ts, selectHistory), and
\* after it come the events relayed since its subscribe, each once and in order.
THEOREM SentAsSubscribed == ChannelSpec => []AsSubscribed
<1>1. ChannelInv => AsSubscribed
  <2> SUFFICES ASSUME PoolP!Relaying, PoolP!InOrder
               PROVE  Pool!BackfillOrdered /\ Pool!LiveContiguous
    BY DEF ChannelInv, AsSubscribed
  <2>1. PoolP!LiveContiguous
    BY PoolP!RelayingImplies, PoolAssumptions
  <2>2. PoolP!BackfillOrdered
    BY PoolP!InOrderImplies, PoolAssumptions
  <2>3. QED BY <2>1, <2>2, OrderedMeans, ContiguousMeans
<1>2. QED BY <1>1, ChannelInvHolds, PTL

\* Without a pool, what a phone shows once it has caught up is exactly the
\* newest stored events, whatever it switched and lost meanwhile (store.ts,
\* historyFor and appendEvents: the ring).
THEOREM ShownExactly == ChannelSpec => []ExactInMemory
<1>1. ChannelInv => ExactInMemory
  <2> SUFFICES ASSUME MemoryP!Exact PROVE Memory!ExactTranscript
    BY DEF ChannelInv, ExactInMemory
  <2>1. MemoryP!ExactTranscript
    BY MemoryP!ExactImplies, MemoryAssumptions
  <2>2. QED BY <2>1, ExactMeans
<1>2. QED BY <1>1, ChannelInvHolds, PTL

=============================================================================
