---------------------------- MODULE MCWebChannel ----------------------------
(* What a phone is sent and shows, on small instances, one of them in each     *)
(* behaviour; a phone belongs to the account of sessions a1 and a2, session b1 *)
(* to another.                                                                 *)
(*   "accounts" WebChannel, with the constants of the .cfg: two subscribes in  *)
(*              flight, queries and INSERTs that fail, sessions of both.       *)
(*   "pool"     WebChannel with PostgreSQL: one subscribe at a time, a query   *)
(*              that is answered, INSERTs that may fail.                       *)
(*   "memory"   WebChannel without a pool: the phone moves between the         *)
(*              sessions of its account and may lose its socket.               *)
EXTENDS WebChannel

CONSTANTS
    a1, a2, b1, pa, alice, bob, h1, h2,
    Part, \* the instance of a behaviour
    \* "pool" and "memory": HistoryLimit, Deltas, Notes and the bounds of both
    PoolHistory, MemoryHistory, Streamed, Notified, MaxEmitted, MaxPosted, PoolUnread, MemoryUnread

VARIABLE part

MCOwner == [s \in Sessions |-> IF s = b1 THEN bob ELSE alice]
MCCred  == [p \in Phones |-> alice]

Pool == INSTANCE WebChannel WITH
    QueryMayFail <- FALSE, InsertMayFail <- TRUE, HistoryLimit <- PoolHistory,
    Deltas <- Streamed, Notes <- Notified, MaxEvents <- MaxEmitted, MaxBatch <- MaxPosted,
    MaxPosts <- 1, MaxDown <- PoolUnread

Memory == INSTANCE WebChannel WITH
    HasPool <- FALSE, QueryMayFail <- FALSE, InsertMayFail <- FALSE,
    HistoryLimit <- MemoryHistory, Deltas <- Streamed, Notes <- Notified,
    MaxEvents <- MaxEmitted, MaxBatch <- MaxPosted, MaxPosts <- 1, MaxDown <- MemoryUnread

ASSUME PartsAssumption ==
    /\ {PoolHistory, MemoryHistory} \subseteq Nat \ {0}
    /\ {MaxEmitted, MaxPosted, PoolUnread, MemoryUnread} \subseteq Nat

\* bound: nothing happens in the session of the other account, and less in one
\* of the phone's own than in the other.
OneAccount == relayed'[b1] = 0 /\ open'[pa] # b1 /\ relayed'[a2] <= 2

\* bound: one subscribe at a time.
OneSubscribe ==
    \A p \in Phones :
        /\ \A h \in Slots \ {h1} : handlers'[p][h] = Null
        /\ Len(up'[p]) <= (IF handlers'[p][h1] = Null THEN 1 ELSE 0)

ChannelNext ==
    \/ part = "accounts" /\ Next /\ UNCHANGED part
    \/ part = "pool" /\ Pool!Next /\ OneAccount /\ OneSubscribe /\ UNCHANGED part
    \/ part = "memory" /\ Memory!Next /\ OneAccount /\ UNCHANGED part

\* ServerFairness, of the behaviours that Pool is in.
ChannelFairness ==
    /\ WF_vars(part = "pool" /\ Pool!HandleSubscribe(pa) /\ OneSubscribe)
    /\ WF_vars(part = "pool" /\ Pool!Deliver(pa))
    /\ WF_vars(part = "pool" /\ Pool!QueryRuns(pa, h1))
    /\ WF_vars(part = "pool" /\ Pool!FinishSubscribe(pa, h1))
    /\ \A s \in {a1, a2} : WF_vars(part = "pool" /\ \E batch \in posts[s] : Pool!Persist(s, batch))

ChannelInit == part \in Part /\ Init
ChannelSpec == ChannelInit /\ [][ChannelNext]_<<part, vars>> /\ ChannelFairness

\* What a phone was sent (web-channel.ts, handleMsg and handleEvent): its
\* backfill is ordered and has no deltas, whatever INSERTs failed, and after it
\* come the live events relayed since it subscribed, each once and in order.
AsSubscribed == part = "pool" => Pool!BackfillOrdered /\ Pool!LiveContiguous

\* Without a pool, what a phone shows once it has caught up is exactly the
\* newest stored events (web-channel.ts, subscribe; store.ts, historyFor),
\* across reconnects and switches of session.
ExactInMemory == part = "memory" => Memory!ExactTranscript

\* A phone that keeps a session open on a live socket gets its backfill and is
\* then sent everything held back for it (web-channel.ts, handleMsg).
PhoneCatchesUp == \A s \in {a1, a2} :
    (part = "pool" /\ online[pa] /\ open[pa] = s) ~> (~online[pa] \/ open[pa] # s \/ Pool!CaughtUp(pa, s))

=============================================================================
