------------------------------ MODULE DataPlane ------------------------------
(***************************************************************************)
(* The connection of a worker to the server: the event stream it keeps     *)
(* open (GET .../worker/events/stream), what the store remembers of it     *)
(* (sseRes, wsConnected, seq), the messages sent down that stream and the  *)
(* status the session list shows (src/server/index.ts, store.ts).          *)
(*                                                                         *)
(* The two ends of a stream do not learn of its end at the same moment: a  *)
(* worker that lost one opens another at once, and the server may hear the *)
(* close of the old one much later (a laptop that changed networks, a      *)
(* tunnel in between).  No handler here awaits anything, so each is one    *)
(* callback.  A restart is modelled for a server with PostgreSQL: sessions *)
(* and their ingress tokens are loaded back.  An environment registered    *)
(* again by another account is left out.                                   *)
(***************************************************************************)
EXTENDS Integers, Sequences

CONSTANTS
    Sessions,     \* session ids the store knows
    Envs,         \* environment ids
    EnvOf,        \* the environment of a session; no member of Envs for /rc
    Credentials,  \* account tokens
    Owner,        \* the credential of a session
    EnvOwner,     \* the credential of an environment
    MaxStreams,   \* bound: streams a worker opens in one run of the server
    MaxSends,     \* bound: messages numbered for a session in one run
    MaxRestarts,  \* bound: restarts of the server
    MaxLosses     \* bound: streams a worker loses in one run of the server

ASSUME DataPlaneAssumption ==
    /\ Owner \in [Sessions -> Credentials]
    /\ EnvOwner \in [Envs -> Credentials]
    /\ \A s \in Sessions : EnvOf[s] \in Envs => Owner[s] = EnvOwner[EnvOf[s]]
    /\ {MaxStreams, MaxSends, MaxRestarts, MaxLosses} \subseteq Nat

None == 0   \* null; streams are numbered from 1 as they are opened

VARIABLES
    run,        \* the server process: number of restarts
    opened,     \* streams the worker has opened in this run
    live,       \* streams whose close the server has not seen
    sseRes,     \* s.sseRes
    wsConnected,\* s.wsConnected
    seq,        \* s.seq
    reading,    \* the stream the worker reads
    wire,       \* messages on that stream
    got,        \* messages the worker has read
    lost,       \* streams the worker has lost in this run
    listed      \* the status the list last pushed to the owner shows

storeVars == <<sseRes, wsConnected, seq>>
workerVars == <<opened, reading, wire, got, lost>>
vars == <<run, live, storeVars, workerVars, listed>>

Streams == 1 .. MaxStreams
Message == (0 .. MaxRestarts) \X (1 .. MaxSends)

TypeOK ==
    /\ run \in 0 .. MaxRestarts
    /\ opened \in [Sessions -> 0 .. MaxStreams]
    /\ live \in [Sessions -> SUBSET Streams]
    /\ sseRes \in [Sessions -> Streams \cup {None}]
    /\ wsConnected \in [Sessions -> BOOLEAN]
    /\ seq \in [Sessions -> 0 .. MaxSends]
    /\ reading \in [Sessions -> Streams \cup {None}]
    /\ wire \in [Sessions -> Seq(Message)]
    /\ got \in [Sessions -> Seq(Message)]
    /\ lost \in [Sessions -> 0 .. MaxLosses]
    /\ listed \in [Sessions -> BOOLEAN]

Init ==
    /\ run = 0
    /\ opened = [s \in Sessions |-> 0]
    /\ live = [s \in Sessions |-> {}]
    /\ sseRes = [s \in Sessions |-> None]
    /\ wsConnected = [s \in Sessions |-> FALSE]
    /\ seq = [s \in Sessions |-> 0]
    /\ reading = [s \in Sessions |-> None]
    /\ wire = [s \in Sessions |-> <<>>]
    /\ got = [s \in Sessions |-> <<>>]
    /\ lost = [s \in Sessions |-> 0]
    /\ listed = [s \in Sessions |-> FALSE]

\* Mutant of Pushed: a session that went offline is left on the list.
LeftOnList(credential, status) ==
    [s \in Sessions |-> listed[s] \/ (Owner[s] = credential /\ status[s])]

\* pushList: the sockets of one account are sent the status of its sessions.
Pushed(credential, status) ==
    [s \in Sessions |-> IF Owner[s] = credential THEN status[s] ELSE listed[s]]

\* Mutants of attachSse, detachSse and nextSeq: another stream is attached; the
\* closed stream is kept; a number is skipped.
NextSse(s, stream) == [sseRes EXCEPT ![s] = stream + 1]
KeepSse(s) == sseRes
SkipSeq(s) == [seq EXCEPT ![s] = @ + 2]

\* The store's own steps.
markWsConnected(s, connected) == [wsConnected EXCEPT ![s] = connected]
attachSse(s, stream) == [sseRes EXCEPT ![s] = stream]
detachSse(s) == [sseRes EXCEPT ![s] = None]
nextSeq(s) == [seq EXCEPT ![s] = @ + 1]

-----------------------------------------------------------------------------
(* The worker opens, loses and reads its stream.                           *)

\* GET .../worker/events/stream: the newest stream replaces whatever the store
\* held.  A worker opens one only when it has none.
OpenStream(s) ==
    /\ reading[s] = None
    /\ opened[s] < MaxStreams
    /\ opened' = [opened EXCEPT ![s] = @ + 1]
    /\ live' = [live EXCEPT ![s] = @ \cup {opened[s] + 1}]
    /\ wsConnected' = markWsConnected(s, TRUE)
    /\ sseRes' = attachSse(s, opened[s] + 1)
    /\ reading' = [reading EXCEPT ![s] = opened[s] + 1]
    /\ listed' = Pushed(Owner[s], wsConnected')
    /\ UNCHANGED <<run, seq, wire, got, lost>>

\* The worker's end of the stream breaks, or the worker dies.
LoseStream(s) ==
    /\ reading[s] # None
    /\ lost[s] < MaxLosses
    /\ lost' = [lost EXCEPT ![s] = @ + 1]
    /\ reading' = [reading EXCEPT ![s] = None]
    /\ wire' = [wire EXCEPT ![s] = <<>>]
    /\ UNCHANGED <<run, opened, live, storeVars, got, listed>>

\* The 'close' event of a stream: whichever stream it was, the session is
\* detached and marked offline.
CloseFires(s, stream) ==
    /\ stream \in live[s] /\ stream # reading[s]
    /\ live' = [live EXCEPT ![s] = @ \ {stream}]
    /\ sseRes' = detachSse(s)
    /\ wsConnected' = markWsConnected(s, FALSE)
    /\ listed' = Pushed(Owner[s], wsConnected')
    /\ UNCHANGED <<run, seq, workerVars>>

ReadMessage(s) ==
    /\ wire[s] # <<>>
    /\ got' = [got EXCEPT ![s] = Append(@, Head(wire[s]))]
    /\ wire' = [wire EXCEPT ![s] = Tail(@)]
    /\ UNCHANGED <<run, opened, live, storeVars, reading, lost, listed>>

-----------------------------------------------------------------------------
(* The server.                                                             *)

\* sendToChild, with a stream attached.  Without one it returns false and
\* nothing changes.  Writing to a stream whose other end is gone succeeds.
SendToChild(s) ==
    /\ sseRes[s] # None
    /\ seq[s] < MaxSends
    /\ seq' = nextSeq(s)
    /\ wire' = [wire EXCEPT ![s] =
          IF sseRes[s] = reading[s] THEN Append(@, <<run, nextSeq(s)[s]>>) ELSE @]
    /\ UNCHANGED <<run, opened, live, sseRes, wsConnected, reading, got, lost, listed>>

\* DELETE /v1/environments/bridge/{id}: the sessions of the environment are
\* marked offline; their streams stay as they are.
Deregister(e) ==
    /\ wsConnected' = [s \in Sessions |-> EnvOf[s] # e /\ wsConnected[s]]
    /\ listed' = Pushed(EnvOwner[e], wsConnected')
    /\ UNCHANGED <<run, live, sseRes, seq, workerVars>>

\* The process ends and another loads the sessions from PostgreSQL.  Every
\* stream breaks; the phones reconnect and are sent the list again.
Restart ==
    /\ run < MaxRestarts
    /\ run' = run + 1
    /\ opened' = [s \in Sessions |-> 0]
    /\ live' = [s \in Sessions |-> {}]
    /\ sseRes' = [s \in Sessions |-> None]
    /\ wsConnected' = [s \in Sessions |-> FALSE]
    /\ seq' = [s \in Sessions |-> 0]
    /\ reading' = [s \in Sessions |-> None]
    /\ wire' = [s \in Sessions |-> <<>>]
    /\ lost' = [s \in Sessions |-> 0]
    /\ listed' = [s \in Sessions |-> FALSE]
    /\ UNCHANGED got

SessionStep(s) ==
    \/ OpenStream(s) \/ LoseStream(s) \/ ReadMessage(s) \/ SendToChild(s)
    \/ \E stream \in live[s] : CloseFires(s, stream)

Next ==
    \/ Restart
    \/ \E s \in Sessions : SessionStep(s)
    \/ \E e \in Envs : Deregister(e)

Spec == Init /\ [][Next]_vars

-----------------------------------------------------------------------------
(* Properties.                                                             *)

\* A session listed as active can be reached: its messages go to a stream
\* whose close the server has not seen, the newest the worker opened.
OnlineIsReachable ==
    \A s \in Sessions : listed[s] =>
        sseRes[s] \in live[s] /\ \A stream \in live[s] : stream <= sseRes[s]

\* Whatever closes were missed or came late, a message the server accepts never
\* goes to a stream it has seen closed, nor past a worker that reads another.
AttachedToReader ==
    \A s \in Sessions : sseRes[s] # None =>
        sseRes[s] \in live[s] /\ reading[s] \in {None, sseRes[s]}

\* A worker reads what the server sends at most once, in the order it was
\* sent, across reconnects and restarts.
Delivery == INSTANCE ClientEvents WITH queue <- wire
DeliversInOrder == Delivery!Spec

\* store.ts:66, "child's SSE data-plane is open": a worker that reads an open
\* stream is connected.
OpenMeansConnected == \A s \in Sessions : reading[s] # None => wsConnected[s]

=============================================================================
