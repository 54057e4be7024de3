----------------------------- MODULE WebChannel -----------------------------
(***************************************************************************)
(* The transcript path of the server and of the web client: a worker posts *)
(* its events in batches, the server relays every event to the phones that *)
(* watch the session and only then stores it, and a phone that opens a     *)
(* session subscribes, receives the stored history and follows the live    *)
(* events (src/server/index.ts, web-channel.ts, store.ts; the browser side *)
(* is web/src/session.ts, ws.ts and App.tsx).                              *)
(*                                                                         *)
(* Node runs one callback at a time, so an action is the code between two  *)
(* awaits.  With PostgreSQL (HasPool) other callbacks run while a handler  *)
(* waits for its query.  Without it the awaits resolve in the microtask    *)
(* queue and a handler runs to its end before the next callback starts.    *)
(*                                                                         *)
(* An event is its session and its number in the order the worker emitted  *)
(* it; what it says does not matter here, only whether it is a token delta *)
(* (relayed, never stored) or carries a push notification.                 *)
(***************************************************************************)
EXTENDS Naturals, FiniteSets, SequencesExt, Subsequences

CONSTANTS
    Sessions,       \* session ids the store knows
    Phones,         \* browsers; each holds at most one /ws/client socket
    Credentials,    \* account tokens
    Owner,          \* the credential a session belongs to
    Cred,           \* the credential a phone connects with
    Null,           \* null and undefined
    Slots,          \* subscribe handlers of one socket that may be in flight
    HasPool,        \* a PostgreSQL pool is configured
    QueryMayFail,   \* a history SELECT may be rejected
    InsertMayFail,  \* an events INSERT may be rejected
    HistoryLimit,   \* HISTORY_LIMIT
    Deltas,         \* numbers of the events that are stream_event deltas
    Notes,          \* numbers of the events that carry a push notification
    MaxEvents,      \* bound: events a worker emits in one session
    MaxBatch,       \* bound: events in one POST
    MaxPosts,       \* bound: POSTs of one worker awaiting their answer
    MaxDown         \* bound: frames unread by a phone when it opens a session

ASSUME RelayAssumption ==
    /\ Owner \in [Sessions -> Credentials]
    /\ Cred \in [Phones -> Credentials]
    /\ Null \notin Sessions
    /\ HistoryLimit \in Nat \ {0}
    /\ {HasPool, QueryMayFail, InsertMayFail} \subseteq BOOLEAN
    /\ {MaxEvents, MaxBatch, MaxPosts, MaxDown} \subseteq Nat

VARIABLES
    relayed,     \* number of events each worker has had relayed
    posts,       \* batches relayed and not yet stored (POST handler at its await)
    db,          \* the stored events of each session, in id order
    online,      \* the phone's socket is in socks
    subscribed,  \* ws.subscribed
    pending,     \* ws.pending
    handlers,    \* subscribe handlers suspended at historyFor
    since,       \* history variable: events relayed before its last subscribe
    up,          \* subscribe frames on their way to the server
    down,        \* frames on their way to the browser
    open,        \* the session the browser shows
    shown        \* the transcript it shows: the backfill, then live events

serverVars == <<relayed, posts, db>>
sockVars   == <<online, subscribed, pending, handlers, since>>
vars == <<serverVars, sockVars, up, down, open, shown>>

Event   == [sid : Sessions, n : Nat]
Frame   == [type : {"history", "event", "notify"}, sid : Sessions, events : Seq(Event)]
Handler == [sid : Sessions, snapshot : Seq(Event) \cup {Null}]
Transcript == [backfill : Seq(Event), live : Seq(Event)]

Blank == [backfill |-> <<>>, live |-> <<>>]

\* null is no array and no object.
ASSUME NullAssumption == Null \notin Seq(Event) /\ Null \notin Handler

TypeOK ==
    /\ relayed \in [Sessions -> Nat]
    /\ posts \in [Sessions -> SUBSET Seq(Event)]
    /\ db \in [Sessions -> Seq(Event)]
    /\ online \in [Phones -> BOOLEAN]
    /\ subscribed \in [Phones -> Sessions \cup {Null}]
    /\ pending \in [Phones -> Seq(Event) \cup {Null}]
    /\ handlers \in [Phones -> [Slots -> Handler \cup {Null}]]
    /\ since \in [Phones -> Nat]
    /\ up \in [Phones -> Seq(Sessions)]
    /\ down \in [Phones -> Seq(Frame)]
    /\ open \in [Phones -> Sessions \cup {Null}]
    /\ shown \in [Phones -> Transcript]

Init ==
    /\ relayed = [s \in Sessions |-> 0]
    /\ posts = [s \in Sessions |-> {}]
    /\ db = [s \in Sessions |-> <<>>]
    /\ online = [p \in Phones |-> FALSE]
    /\ subscribed = [p \in Phones |-> Null]
    /\ pending = [p \in Phones |-> Null]
    /\ handlers = [p \in Phones |-> [h \in Slots |-> Null]]
    /\ since = [p \in Phones |-> 0]
    /\ up = [p \in Phones |-> <<>>]
    /\ down = [p \in Phones |-> <<>>]
    /\ open = [p \in Phones |-> Null]
    /\ shown = [p \in Phones |-> Blank]

-----------------------------------------------------------------------------
(* Helpers of the server.                                                  *)

\* Numbers of the events appendEvents keeps.
Stored == (1 .. MaxEvents) \ Deltas

\* The events whose number is in N, in their order.
Pick(events, N) == SubseqAt(events, {i \in DOMAIN events : events[i].n \in N})

\* Mutants of Newest: the SELECT's descending order is kept; one event too few.
NewestFirst(h) == Reverse(IF Len(h) > HistoryLimit
                          THEN SubSeq(h, Len(h) - HistoryLimit + 1, Len(h)) ELSE h)
NewestButOne(h) == IF Len(h) > HistoryLimit
                   THEN SubSeq(h, Len(h) - HistoryLimit + 2, Len(h)) ELSE h

\* The newest HistoryLimit events: what selectHistory returns, and what the
\* ring kept without a pool is trimmed to.
Newest(h) == IF Len(h) > HistoryLimit
             THEN SubSeq(h, Len(h) - HistoryLimit + 1, Len(h)) ELSE h

EventFrames(type, s, events) ==
    [i \in DOMAIN events |-> [type |-> type, sid |-> s, events |-> <<events[i]>>]]

\* Mutant of HistoryFrame: a type no reader of frames knows.
BackfillFrame(s, events) == [type |-> "backfill", sid |-> s, events |-> events]

HistoryFrame(s, events) == [type |-> "history", sid |-> s, events |-> events]

Owns(p, s) == Owner[s] = Cred[p]

\* The single thread is free: always, when the awaits are real ones.
Quiet == \A s \in Sessions : posts[s] = {}
Idle  == \A p \in Phones, h \in Slots : handlers[p][h] = Null
Free  == HasPool \/ (Quiet /\ Idle)

\* Mutant of Overhears: notifications go to every account.
OverhearsAll(p, s) == online[p] /\ subscribed[p] # s

Watches(p, s)  == online[p] /\ Owns(p, s) /\ subscribed[p] = s
Overhears(p, s) == online[p] /\ Owns(p, s) /\ subscribed[p] # s

-----------------------------------------------------------------------------
(* The worker's POST /worker/events.                                       *)

\* The body has been read: every event of the batch is fanned out to the
\* sockets, before anything is stored.
Relay(s, k) ==
    LET batch == [i \in 1 .. k |-> [sid |-> s, n |-> relayed[s] + i]]
    IN  /\ Free
        /\ relayed[s] + k <= MaxEvents
        /\ Cardinality(posts[s]) < MaxPosts
        /\ relayed' = [relayed EXCEPT ![s] = @ + k]
        /\ posts' = [posts EXCEPT ![s] = @ \cup {batch}]
        /\ pending' = [p \in Phones |->
              IF Watches(p, s) /\ pending[p] # Null
              THEN pending[p] \o batch ELSE pending[p]]
        /\ down' = [p \in Phones |->
              IF Watches(p, s) /\ pending[p] = Null
              THEN down[p] \o EventFrames("event", s, batch)
              ELSE IF Overhears(p, s)
              THEN down[p] \o EventFrames("notify", s, Pick(batch, Notes))
              ELSE down[p]]
        /\ UNCHANGED <<db, online, subscribed, handlers, since, up, open, shown>>

\* appendEvents: the storable part of the batch reaches the database (or the
\* ring) and the POST is answered.
Persist(s, batch) ==
    LET grown == db[s] \o Pick(batch, Stored)
    IN  /\ batch \in posts[s]
        /\ posts' = [posts EXCEPT ![s] = @ \ {batch}]
        /\ db' = [db EXCEPT ![s] = IF HasPool THEN grown ELSE Newest(grown)]
        /\ UNCHANGED <<relayed, sockVars, up, down, open, shown>>

\* The INSERT is rejected: logged, answered 200, never retried.
PersistFails(s, batch) ==
    /\ HasPool /\ InsertMayFail
    /\ batch \in posts[s]
    /\ Pick(batch, Stored) # <<>>
    /\ posts' = [posts EXCEPT ![s] = @ \ {batch}]
    /\ UNCHANGED <<relayed, db, sockVars, up, down, open, shown>>

-----------------------------------------------------------------------------
(* The subscribe frame, in the three steps its await cuts it into.         *)

\* Mutant of Buffering and of Released: the buffer is left as it is.
SameBuffer(p) == pending

\* ws.pending = [] before the backfill, and = null after it.
Buffering(p) == [pending EXCEPT ![p] = <<>>]
Released(p)  == [pending EXCEPT ![p] = Null]

\* From the frame to the await.  A session of another account is ignored.
HandleSubscribe(p) ==
    /\ Free
    /\ online[p] /\ up[p] # <<>>
    /\ up' = [up EXCEPT ![p] = Tail(@)]
    /\ LET s == Head(up[p])
       IN \/ /\ Owns(p, s)
             /\ \E h \in Slots :
                   /\ handlers[p][h] = Null
                   /\ handlers' = [handlers EXCEPT ![p][h] =
                                      [sid |-> s, snapshot |-> Null]]
             /\ subscribed' = [subscribed EXCEPT ![p] = s]
             /\ pending' = Buffering(p)
             /\ since' = [since EXCEPT ![p] = relayed[s]]
          \/ /\ ~Owns(p, s)
             /\ UNCHANGED <<handlers, subscribed, pending, since>>
    /\ UNCHANGED <<serverVars, online, down, open, shown>>

Awaiting(p, h)  == handlers[p][h] # Null /\ handlers[p][h].snapshot = Null
Answered(p, h)  == handlers[p][h] # Null /\ handlers[p][h].snapshot # Null

\* The database runs the SELECT.
QueryRuns(p, h) ==
    /\ Awaiting(p, h)
    /\ handlers' = [handlers EXCEPT ![p][h].snapshot = Newest(db[handlers[p][h].sid])]
    /\ UNCHANGED <<serverVars, online, subscribed, pending, since, up, down, open,
                   shown>>

\* The SELECT is rejected: the handler's promise rejects, which is swallowed.
QueryFails(p, h) ==
    /\ HasPool /\ QueryMayFail
    /\ Awaiting(p, h)
    /\ handlers' = [handlers EXCEPT ![p][h] = Null]
    /\ UNCHANGED <<serverVars, online, subscribed, pending, since, up, down, open,
                   shown>>

\* From the await to the end: the history, then whatever is buffered on the
\* socket, labelled with this handler's session.  A buffer already taken by
\* another handler makes the loop throw, which is swallowed as well.
DrainedNothing(p, s) == <<>>   \* mutant: the buffer is dropped
Drained(p, s) == IF pending[p] = Null THEN <<>> ELSE EventFrames("event", s, pending[p])

FinishSubscribe(p, h) ==
    /\ Answered(p, h)
    /\ LET s == handlers[p][h].sid
       IN down' = [down EXCEPT ![p] =
             @ \o <<HistoryFrame(s, handlers[p][h].snapshot)>> \o Drained(p, s)]
    /\ pending' = Released(p)
    /\ handlers' = [handlers EXCEPT ![p][h] = Null]
    /\ UNCHANGED <<serverVars, online, subscribed, since, up, open, shown>>

-----------------------------------------------------------------------------
(* The socket and the browser.                                             *)

\* The upgrade; on its open event the browser re-subscribes to the session it
\* shows.
Connect(p) ==
    /\ Free
    /\ ~online[p]
    /\ online' = [online EXCEPT ![p] = TRUE]
    /\ up' = [up EXCEPT ![p] = IF open[p] = Null THEN <<>> ELSE <<open[p]>>]
    /\ UNCHANGED <<serverVars, subscribed, pending, handlers, since, down, open,
                   shown>>

\* The socket dies with everything it carries.  Handlers of its subscribes
\* still run, on an object nobody reads any more; they are dropped here.
Disconnect(p) ==
    /\ Free
    /\ online[p]
    /\ online' = [online EXCEPT ![p] = FALSE]
    /\ subscribed' = [subscribed EXCEPT ![p] = Null]
    /\ pending' = [pending EXCEPT ![p] = Null]
    /\ handlers' = [handlers EXCEPT ![p] = [h \in Slots |-> Null]]
    /\ up' = [up EXCEPT ![p] = <<>>]
    /\ down' = [down EXCEPT ![p] = <<>>]
    /\ since' = [since EXCEPT ![p] = 0]
    /\ UNCHANGED <<serverVars, open, shown>>

\* The effect on [session.id]: a blank transcript and a subscribe frame, which
\* a socket that is not open drops.  The bounds keep at most as many subscribes
\* unanswered as there are slots.
OpenSession(p, s) ==
    /\ open[p] # s
    /\ Len(up[p]) + Cardinality({h \in Slots : handlers[p][h] # Null}) < Cardinality(Slots)
    /\ Len(down[p]) <= MaxDown
    /\ open' = [open EXCEPT ![p] = s]
    /\ shown' = [shown EXCEPT ![p] = Blank]
    /\ up' = [up EXCEPT ![p] = IF online[p] THEN Append(@, s) ELSE @]
    /\ UNCHANGED <<serverVars, sockVars, down>>

\* Back to the list: the callbacks are unregistered, the server is not told.
CloseSession(p) ==
    /\ open[p] # Null
    /\ open' = [open EXCEPT ![p] = Null]
    /\ shown' = [shown EXCEPT ![p] = Blank]
    /\ UNCHANGED <<serverVars, sockVars, up, down>>

\* What one frame does to the transcript of the session s a browser shows.
Consume(t, f, s) ==
    IF f.sid # s \/ f.type = "notify" THEN t
    ELSE IF f.type = "history" THEN [backfill |-> f.events, live |-> <<>>]
    ELSE [t EXCEPT !.live = @ \o f.events]

Deliver(p) ==
    /\ down[p] # <<>>
    /\ shown' = [shown EXCEPT ![p] = Consume(@, Head(down[p]), open[p])]
    /\ down' = [down EXCEPT ![p] = Tail(@)]
    /\ UNCHANGED <<serverVars, sockVars, up, open>>

-----------------------------------------------------------------------------
WorkerStep ==
    \E s \in Sessions :
        \/ \E k \in 1 .. MaxBatch : Relay(s, k)
        \/ \E batch \in posts[s] : Persist(s, batch) \/ PersistFails(s, batch)

SubscribeStep(p) ==
    \/ HandleSubscribe(p)
    \/ \E h \in Slots : QueryRuns(p, h) \/ QueryFails(p, h) \/ FinishSubscribe(p, h)

BrowserStep(p) ==
    \/ Connect(p) \/ Disconnect(p)
    \/ \E s \in Sessions : OpenSession(p, s)
    \/ CloseSession(p)
    \/ Deliver(p)

Next == WorkerStep \/ \E p \in Phones : SubscribeStep(p) \/ BrowserStep(p)

Spec == Init /\ [][Next]_vars

\* What Node and the database owe: a frame that arrived is handled, a query
\* that was sent is answered, a suspended handler is resumed, a POST goes on to
\* its INSERT; and TCP delivers what was written to a live socket.
ServerFairness ==
    /\ \A p \in Phones : WF_vars(HandleSubscribe(p)) /\ WF_vars(Deliver(p))
    /\ \A p \in Phones, h \in Slots :
          WF_vars(QueryRuns(p, h)) /\ WF_vars(FinishSubscribe(p, h))
    /\ \A s \in Sessions : WF_vars(\E batch \in posts[s] : Persist(s, batch))

FairSpec == Spec /\ ServerFairness

-----------------------------------------------------------------------------
(* Properties.                                                             *)

\* What a browser that shows the transcript t of session s shows once it has
\* read these frames.
Reading(t, frames, s) ==
    LET shows[i \in 0 .. Len(frames)] ==
            IF i = 0 THEN t ELSE Consume(shows[i - 1], frames[i], s)
    IN  shows[Len(frames)]

\* What a browser will show once it has read every frame sent to it.
Received(p) == Reading(shown[p], down[p], open[p])

\* The server has handled the browser's last subscribe.
Follows(p) == online[p] /\ up[p] = <<>> /\ open[p] # Null /\ subscribed[p] = open[p]
InFlight(p) == \E h \in Slots : handlers[p][h] # Null

\* The last k events relayed in session s.
Latest(s, k) == [i \in 1 .. k |-> [sid |-> s, n |-> relayed[s] - k + i]]

\* Accounts never mix: what a socket watches, buffers, is sent or shows
\* belongs to its own credential, whatever it asks for and whichever handlers
\* interleave on it (owns() of web-channel.ts and the fan-out's filter).
OwnEvents(p, events) == \A i \in DOMAIN events : Owns(p, events[i].sid)
Isolation ==
    \A p \in Phones :
        /\ subscribed[p] # Null => Owns(p, subscribed[p])
        /\ pending[p] # Null => OwnEvents(p, pending[p])
        /\ \A h \in Slots : Answered(p, h) => OwnEvents(p, handlers[p][h].snapshot)
        /\ \A i \in DOMAIN down[p] : /\ Owns(p, down[p][i].sid)
                                     /\ OwnEvents(p, down[p][i].events)
        /\ OwnEvents(p, shown[p].backfill) /\ OwnEvents(p, shown[p].live)

\* From the moment the server handles a subscribe, every event of the session
\* reaches the phone once and in order: what is buffered, or shown and on the
\* wire after the backfill, is exactly what was relayed since.
LiveContiguous ==
    \A p \in Phones : Follows(p) =>
        LET live == IF pending[p] # Null THEN pending[p] ELSE Received(p).live
        IN  live = Latest(open[p], relayed[open[p]] - since[p])

\* A backfill holds events of the session it is shown in, in the order the
\* worker emitted them and without deltas, whatever INSERTs failed meanwhile.
BackfillOrdered ==
    \A p \in Phones : ~InFlight(p) /\ Follows(p) =>
        LET b == Received(p).backfill
        IN  /\ \A i \in DOMAIN b : b[i].sid = open[p] /\ b[i].n \in Stored
            /\ \A i, j \in DOMAIN b : i < j => b[i].n < b[j].n

\* A live event of the session p watches would race ahead of its backfill; and
\* p is held back though nothing is under way that lets it go.
Racing(p) == pending[p] = Null /\ \E h \in Slots : handlers[p][h] # Null /\ handlers[p][h].sid = subscribed[p]
Stuck(p)  == pending[p] # Null /\ ~InFlight(p)

\* web-channel.ts:25, "while a backfill is in flight: live events queue here", and
\* no longer: of several subscribes in flight on a socket the first to be answered
\* takes the one buffer from the others, and a query that is rejected leaves it
\* behind; whatever else interleaves, nothing does either.
HoldsBack ==
    \A p \in Phones :
        /\ ~Racing(p) /\ Racing(p)' => \E h \in Slots : Answered(p, h) /\ handlers'[p][h] = Null
        /\ ~Stuck(p) /\ Stuck(p)' => \E h \in Slots : Awaiting(p, h) /\ handlers'[p][h] = Null
HeldExactly == [][HoldsBack]_vars

\* With one subscribe at a time and queries that are answered: never racing,
\* never stuck.
BufferedDuringBackfill ==
    \A p \in Phones, h \in Slots :
        handlers[p][h] # Null /\ handlers[p][h].sid = subscribed[p] => pending[p] # Null
HeldOnlyDuringBackfill ==
    \A p \in Phones : pending[p] # Null => InFlight(p)

\* Without a pool a transcript is exact: the stored events a phone shows are
\* the last ones the worker emitted, each once, and no fewer than the history
\* keeps.
ExactTranscript ==
    \A p \in Phones : Follows(p) /\ ~InFlight(p) =>
        LET r == Received(p)
            has == Pick(r.backfill \o r.live, Stored)
            all == Pick(Latest(open[p], relayed[open[p]]), Stored)
        IN  /\ IsSuffix(has, all)
            /\ has = all \/ Len(has) >= HistoryLimit

\* web-channel.ts:112, "Subscribe first (so nothing is dropped), buffer,
\* backfill, then drain": once a subscribe is answered and no POST is under
\* way, the phone has every event the history holds.
NothingDropped ==
    \A p \in Phones : Follows(p) /\ ~InFlight(p) /\ posts[open[p]] = {} =>
        LET r == Received(p)
        IN  ToSet(Newest(db[open[p]])) \subseteq ToSet(r.backfill) \cup ToSet(r.live)

\* A phone that keeps a session of its account open on a live socket gets its
\* backfill and is then sent everything held back for it.
CaughtUp(p, s) ==
    open[p] = s /\ Follows(p) /\ ~InFlight(p) /\ pending[p] = Null /\ down[p] = <<>>
CatchesUp ==
    \A p \in Phones, s \in Sessions :
        (online[p] /\ open[p] = s /\ Owns(p, s))
            ~> (~online[p] \/ open[p] # s \/ CaughtUp(p, s))

=============================================================================
