# A verification development for claude-code-controller

TLA+ models of the server and its stores, the web client, and the programs on the
host that inject and drive claude, checked with TLC on small instances, and
theorems about most of them checked by TLAPS for every instance. Paths below are
relative to the repository root (`src/server/store.ts`, `web/src/model.ts`, ...).

## 1. The system

`control-claude` starts `claude` with its remote-control gates rebound through the
Bun inspector, so that claude's bridge talks to a self-hosted **server**. The
server is one Node process. It plays the control plane of remote control for the
workers and serves a React application to phones and desktops, which watch and
drive the sessions.

```
 control-claude --launch, inspector--> claude (worker)
   (login, gates, reaping)              |  POST /worker/events        ^ event stream
                                        v                             |
 PostgreSQL <--write-through-- Store in the server -- frames on /ws/client --> web client
 (optional)                                        <- subscribe, answer, send -  (reducer, service worker)
```

| Component | State it keeps | Operations | Interacts through | Hard because | Module |
|---|---|---|---|---|---|
| Transcript relay, `web-channel.ts`, `index.ts`, `store.ts` | sockets (`subscribed`, `pending`), history | POST of events, subscribe, backfill, drain, fan-out | calls, frames, PG queries | relay precedes persistence; the subscribe handler is cut in two by its query | WebChannel |
| Worker data plane, `index.ts`, `store.ts` | `sseRes`, `wsConnected`, `seq` | open and close of the event stream, `sendToChild`, deregister, restart | one TCP stream per worker | the two ends of a stream learn of its end at different moments | DataPlane, ClientEvents |
| Digest and approvals, `store.ts`, `model.ts`, `session.ts` | `digest`, `pendingTools`, `currentToolUseId`, the sheet | `foldDigest`, `clearPendingApproval`, flush, load, answer, replay | events, answers | three readers of one stream must agree; answers cross events | Approvals |
| Transcript reducer, `model.ts`, `session.ts` | `TranscriptState` | one case per kind of event; send, answer, stop, reopen | the relay | results in any order, drafts, replays, echoes of what was typed | Transcript, ChatSession |
| Image references, `image-blob.ts`, blob route, `parts.tsx` | payloads with and without bytes | slim, number, look up, tap, load | relay, history, GET | three places count images | Images |
| Accounts, `store.ts`, `db.ts`, `index.ts` | `users`, `byToken`, the `users` table | register, login, load | PG | hashing and queries suspend a request between its check and its effect | Accounts |
| Store, PG and work queue, `store.ts`, `db.ts`, `index.ts` | environments, sessions, `byIngressToken`, rows, `queue`, `inflight` | register, poll, ack, create, bridge, move, flush, age, restart | polling, write-through upserts | memory first, PG after; lost answers; cold sessions | Registry |
| Web client's page, `App.tsx`, `ws.ts`, `auth.ts`, `AuthGate.tsx` | cookie, sockets, timers, subscription | check, login, paste, logout, connect, back-off, reconnect | server, timers | a timer outlives what it was set for | WebApp |
| Service worker, `sw.js`, `main.tsx` | caches per build | install, activate, fetch, reload | browser, network | two workers and two caches live at once | Shell |
| Shape census, `wire-shape.ts`, `db.ts` | `events.shape` | stamp, backfill, report, mark | PG, a second server | a backfill beside INSERTs | Shapes |
| Inspector client, `ws-client.ts` | pending calls, decoder | connect, send, frames, deadlines, close | TCP | segments cut anywhere, late replies | InspectorClient |
| Injection, `gate-rebind.ts` | breakpoints, report | locate, arm, release, pause, rebind, worker attach | inspector | a pause does not say which gate it is | GateRebind |
| Launch and reaping, `attach.ts` | processes | launch, attach, retry, killTree | /proc, signals | forks during the kill | Launch |
| Profiles and anchors, `profiles.ts`, `anchors.ts` | which gates a release has | select, locate | the bundle | a guess for an unknown release | Surface |
| Logins, `control-cli.ts`, `cli-auth.ts` | the config file | resolve, check, log in, remember | files, server | several terminals, one file | CliLogin |
| Prompts, `tui.ts` | raw mode, line queue | select, input | terminal or pipe | one read carries several keys | Terminal |
| Scripted driver, `cli.ts` | the in-flight turn | push, send, answer, give up | server in process | late results | Driver |

What makes each correct is stated by the properties of section 3. Every hazard, with
its line and the properties that watch it, is in `PROJECT.json`, "hazards".

## 2. Plan

Done, in this order: WebChannel, DataPlane over ClientEvents, Approvals, Accounts;
Registry (work queue and persistence), WebApp (control socket), Transcript and
ChatSession, InspectorClient, GateRebind, Launch, Shapes, Images, the pure
algorithms (Surface, CliLogin, Terminal), Shell, Driver; the compositions MCSession,
MCServices and MCHost. Proved (section 4): WebChannel and its two compositions,
DataPlane with its refinement, all of the safety of MCServices, the cards and bubbles of
ChatSession, the two properties of Approvals, Images, and Terminal, CliLogin, Driver,
GateRebind and Launch of MCHost.

Left, the most valuable first:

1. **Proofs.** The decoder of `ClientInStep` (a loop over the cells of a segment, whose
   invariant relates what is buffered to the stream as it was sent) and, of ChatSession,
   `NothingInFlight` (what the worker has open against what the screen shows open).
2. **A phone over the real hop.** ChatSession and Approvals take the relay as a
   queue in order; composing them with WebChannel would show what a gap or an
   overtaken backfill does to a card.
3. **An environment that changes its owner**, and the pushes of the session list.
4. **The frame codec of `/ws/client`** beside the one of the inspector.

## 3. What is modelled and checked

One action is what Node (or the browser) runs between two awaits. With PostgreSQL
(`pool`, `HasPool`) the awaits of the store are real and other callbacks run
meanwhile; without it they resolve at once. Definitions marked "Mutant of" are small
plausible bugs in the definition they name: each shows that a property can fail.

A module is about one component and states its properties. The MC modules run several
of them at once: a behaviour of `MCSession`, `MCServices`, `MCHost` or `MCWebChannel`
picks a `part` in its initial state, the instance it is about, and the variables of
the others stay where they are. Each conjunct of a merged property is an invariant of
its module; a bound that only one property needs is in its part. Deadlock checking
is off wherever the bounds let a system come to rest.

### `webchannel` (WebChannel through MCWebChannel, 301 000 states)

State: `relayed` (events a worker has had fanned out), `posts` (POST handlers at
their await), `db` (stored events), one socket per phone (`online`, `subscribed`,
`pending`, suspended `handlers`), the frames under way (`up`, `down`) and the
transcript the browser shows. Actions: `Relay`, `Persist`, `PersistFails` (POST
/worker/events); `HandleSubscribe`, `QueryRuns`, `QueryFails`, `FinishSubscribe` (the
subscribe case of `handleMsg`); `Connect`, `Disconnect`; `OpenSession`,
`CloseSession`, `Deliver` (browser). An event is a session and a number. `since` is a
history variable: how much had been relayed when a phone's last subscribe was handled.

| Property | Shows | Part and bounds |
|---|---|---|
| `Isolation`, `TypeOK` | no event of one account reaches a phone of another | all parts; "accounts" has 3 sessions of 2 accounts, 2 subscribes in flight, queries that fail |
| `AsSubscribed` | a backfill is ordered and free of deltas whatever INSERTs fail; live events follow it once and in order, exactly those relayed since the subscribe | "pool": 2 sessions, 3 events in one and 2 in the other, batches of 2, history of 2, 1 subscribe at a time |
| `HeldExactly` | a live event races ahead of a backfill that is awaited only once another subscribe of the socket was answered, and is held with none awaited only once a query was rejected | all parts |
| `ExactInMemory` | without a pool the transcript is exact: the newest events, each once, never fewer than the ring holds | "memory": the same sessions, a ring of 1, reconnects |
| `PhoneCatchesUp` (liveness) | a phone that stays gets everything | "pool" |

The bounds let an event fall on every side of a subscribe, let the ring overflow, put a
delta (2) and a notification (3) among the events, and let a phone switch sessions
while frames of the first are under way. Fairness: Node handles a frame that arrived,
PG answers a query, a handler is resumed, TCP delivers on a live socket. Nothing is
assumed of phones or workers. `webchannel_gap` is the *violation* of `NothingDropped`:
an event relayed before the subscribe and stored after the SELECT is never seen.

### `dataplane` (DataPlane, ClientEvents, 713 000 states)

A stream has two ends: `reading` (the worker's) and `live` (streams whose close the
server has not heard). `CloseFires` may come long after `OpenStream` opened another.
`SendToChild` to a stream nobody reads succeeds and loses the message. `Restart` is
`load()`. Checked: an active session is reachable on its newest stream
(`OnlineIsReachable`); nothing is sent past a worker that reads another stream
(`AttachedToReader`); the module
implements **ClientEvents** (`DeliversInOrder`), which says what a worker may rely on:
at most once, in order, lossy, with numbers that start again at a restart. The
refinement maps `queue` to `wire`. Bounds: 2 sessions (bridge and /rc), 3 streams, 2
messages, 1 restart, 2 losses. That every session becomes active again after a restart
is no property: it fails for the reason `dataplane_race`, the *violation* of
`OpenMeansConnected`, shows, the late close of an old stream, which takes a session
offline whose new stream is open.

### `session` (ChatSession over Transcript, Approvals, Images; 1.4 million states)

*Transcript* is the reducer: `reduce` and one operator per kind of event, over items, an
index from call to card, the activity line, task lists, background tasks, questions and
what was sent from this screen. *ChatSession* is a worker that emits what docs/EVENTS.md
and the tests show it to, the live relay, and a user who sends, answers, stops and
reopens. What happens in a behaviour is a *scene*: `TestScenes` bring a few kinds
of events together each, and between them every kind, with 4 to 7 events per scene, 2
sends and 1 reopening; 7 are what two parallel calls with results, a request and the end of
a turn need.

*Approvals*: `Post` relays a batch (`sheet` moves), touches the session and folds
and stores the batch; with a pool and an `init` that changed something it suspends in
between (`ResumePost`). `Fold` is `foldDigest`, `ShowSheet` the reducer's treatment of
`live.permission`, `turnActiveIn` itself; `Flush` and `Restart` keep the status column.
Part "digest" has 2 visible calls and 1 hidden one, batches of 2, answers that cross;
"worker" has PG, 2 turns of 1 call, an exit, and a lost stream, a restart or a
reopening.

*Images*: payloads with images in blocks, in nested results and in the copy of a call;
`slimForRelay`, `stripImageBlobs`, `eventByUuid`, the numbering, and a card that
is tapped and loads. `Payloads` are three, one of which no reference can name; without a
pool memory keeps one of them (`MemoryLimit`), so that references go stale.

The `filter` and the loops of the code that a proof follows are recursive functions
(`SubseqAt` and `Reduce` of Subsequences).

| Property | Shows |
|---|---|
| `CardsInPlace` | the index finds each call's card and no call has two; the activity line names no settled call; one card per task and per question; the newest task list is the list as it is |
| `BubblesInStep` | no text sent or typed is lost or shown twice; "queued" is of a text whose echo has not come |
| `ReplayAgrees` | between turns, reopening changes no card, text or list and answers no question less |
| `NothingInFlight` | between turns nothing claims to run, wait or stream; a task card runs only while its task does |
| `DigestInStep` | the row runs exactly while the newest visible call does; the badge and the sheet are of a request that still waits ("digest") |
| `TurnSettles` | badge and turn settle once a turn is over and reported, the status too unless a restart loaded it; a reported turn offers Stop ("worker") |
| `ImagesResolve` | a reference resolves to the image it replaced; one in a stored payload can be fetched; no bytes are relayed |

Violations: `approvals_stuck` (a flush between touch and fold, then an orderly restart,
bring a finished session back on running), `approvals_crossing` (an answer that
crosses a newer request clears its badge), `chat_twice` (a draft no longer at the tail
stays above its final message).

"digest" has no pool, reopening or exit, because with them the badge and the sheet
go stale (section 5). The two visible calls are symmetric. Digest properties are read in quiet
states (everything emitted is folded), which every bound reaches.

### `services` (Accounts, Registry, WebApp, Shell, Shapes; 141 000 states)

*Accounts*: registrations suspend at the hash and at the INSERT, logins at the check of
the password; a rejected INSERT may or may not have written its row. Part "accounts":
2 names, 3 registrations, 2 logins, 2 restarts, with a pool and without.

*Registry*: the maps of the store, their rows, and `writing`, the requests that await a
write and what they do when it is done. `Register` and `EnvWritten` are POST
/v1/environments/bridge, with `createEnv` and `pushSessionWork`; `Poll` may lose its
answer; `Create`, `Bridge`, `BridgeKnown` are the sessions of /rc; `Moved` is
`applyEventMeta`; `flushActivity`, `Age` and `Restart` are the load window. One
environment, two sessions, 1 failed write, 2 restarts, 1 patch.

*WebApp*: the cookie, App's credential and its check, the gate, and of each
ControlSocket its WebSockets and back-off timers; `Closed` is `onclose`, `Reconnect` the
banner's Retry, `Logout` the cleanup of Home. 1 token, 2 logins, 4 sockets, 3 failures,
1 Retry.

*Shell*: `LoadIndex` and `LoadBundle` are the two answers of the fetch handler, what is
put into the cache un-awaited is in `putting` and ends, or fails, in `Settle`; a
navigation may be answered with an error page and a bundle that is gone with the index
(`serveStatic`), and both are kept. A page goes from its bundle's run (`"shown"`) through
the load event (`Loaded` reads `hadController`) and the answer of `register()` (`Register`)
to the handler of `controllerchange` (`"armed"`), and a new worker may take over at each of
these. `Activate` waits for what the old worker is answering and ends its puts. 3
builds, 2 outages, 2 openings, of which the second may come with nothing but a cache.

*Shapes*: `wireShape` and the decision about a shape, rows with and without one,
`runBackfills` of two servers (`Select`, `Update`), INSERTs beside it, the report and
the reducer's marks. 4 payloads, up to 3 rows, old or new, batches of 2, 1 failed
query.

| Property | Shows |
|---|---|
| `SameTokenForever`, `TokensAccepted` | every token handed out is accepted for ever; with a pool there is one per name, across races, failures and restarts |
| `WorkersKnown` | the token index finds every session; the row of an accepted worker is there for its events and has its token, until a write fails |
| `OneDelivery` | no work is handed out twice, whatever registrations, acknowledgements and restarts come between |
| `SocketInStep` | a ControlSocket is one loop plus one for each Retry that found nothing to close; with one loop, online means that `this.ws` is open or, after a Retry, closing, and a viewed session is subscribed |
| `OfflineLaunch` | a page its worker loaded whole opens again offline, index and bundle, once nothing is being put |
| `CensusTrue` | a finished backfill left no row behind; the report lists the shapes that phones mark |
| `Recovers` | a refused claude of /rc is accepted again |
| `KeepsGoodToken`, `ComesBack` | only a rejected token is dropped; the page is online again and again |
| `Updates` | a page that had a controller, and whose handler is there before a newer worker takes over, comes to the deployed build |
| `BackfillEnds` | the backfill ends although events keep arriving |

Fairness, and why: a claude without a token asks again (its bridge polls), a write ends
one way or the other, a browser fires its timers and ends each attempt to
connect, a fetch is answered or fails, a worker that installs goes on, the network comes
back, a backfill goes on from query to query. Nothing
is assumed of the user, of hosts or of deployments. `shell_missed` is the
*violation* of `NotMissed`: a worker that takes over between the load event of a page
and the answer of `register()` fires `controllerchange` before the handler is there, and
the page, which had a controller, stays at its old build.

### `host` (Terminal, InspectorClient, GateRebind, Driver, Launch, CliLogin, Surface; 225 000 states)

*Terminal*: `menuKey` and `textKey` per key, a read of several, Ctrl-C, raw mode and its
restore, and the line queue of a pipe. A menu and then an input, 4 reads, scripts of up to 4
lines.

*InspectorClient*: bytes are cells that know their frame; the decoder (`takeFrame`,
fragments, control frames between them) sees segments cut anywhere. Part "calls" has 2
calls and replies in any order, "events" 1 call among events and pings.

*GateRebind*: what `runHeadless` and `runInteractive` do between launch and the last
pause: locate, arm, `Inspector.initialized`, the handler of a pause (match, rebind, remove,
resume, which may fail), one worker that starts in the wait state and is attached to, at
any step of which the attach may give up. Gates: two on one
line and one on another, one with two rebinds, one on a cold path (`Sticky`).

*Driver*: `sendAndWait` and its deadline, `onResult`, permission answers, environments that
register again. 2 environments, 3 turns, 1 drop.

*Launch*: attempts, the scan of /proc, the kill from the leaves, processes that fork and end
meanwhile; 2 attempts, 5 processes. What must not survive is the tree by its definition,
not by what the scan returned.

*CliLogin*: `resolveAccount`, the login and the file of two terminals; 2 servers, 1
refusal, 1 retry. *Surface*: `selectProfile` and `locate` over a release before, within and
after the measured ones, with one drifted fact.

| Property | Shows |
|---|---|
| `PromptsInStep` | raw mode exactly while a prompt reads; no line lost; no command key in a text |
| `ClientInStep` | the decoder keeps its place however TCP cuts the stream; a call is pending exactly while its promise waits |
| `GatesRebound` | while claude runs each gate is armed, hit or reported missing; a pause is taken for its own gate; a hot gate is rebound once |
| `TurnsInStep` | a wait is ended by its own result or by a late one of a turn given up; a worker is left asking only if its stream was down |
| `TreeReaped` | nothing of the tree on the snapshot survives a kill; attempts do not pile up |
| `OwnToken` | no launch and no saved login with another backend's token; a password only when needed |
| `ProfileFits` | every measured version is injected whole; a bad guess misses loudly and costs only what drifted |
| `NobodyHangs` (liveness) | prompts, calls and turns end; a pause ends unless the call that resumes it fails, and a worker that waits is released unless the attach to it fails |

Fairness: readline reports the end of its input, a deadline of `ws-client.ts` and of
`sendAndWait` fires, a handler that awaits a call goes on (each call has a deadline), a
registered environment is given its work by a timer. `launch_orphan` is the *violation* of
`NothingLeft`: a worker forked between the scan and the signal survives.

## 4. What is proved

Each theorem holds for every value of the constants that satisfies the named
assumptions; the runs show the same property on small instances.

| Theorem | Property | About |
|---|---|---|
| `WebChannelProofs!TypeCorrect`, `AccountsIsolated` | `TypeOK`, `Isolation` | WebChannel |
| `RelayProofs!HeldBack`, `SentAsSubscribed`, `ShownExactly` | `HeldExactly`, `AsSubscribed`, `ExactInMemory` | MCWebChannel |
| `DataPlaneProofs!DataPlaneTypes`, `ActiveSessionsReachable`, `MessagesGoToTheReader` | `TypeOK`, `OnlineIsReachable`, `AttachedToReader` | DataPlane |
| `DataPlaneProofs!ImplementsClientEvents` | `DeliversInOrder` (refinement) | DataPlane |
| `ServicesProofs!AccountTypes`, `OneTokenPerName`, `TokensStayAccepted` | `TypeOK`, `SameTokenForever`, `TokensAccepted` | Accounts |
| `ServicesProofs!WorkHandedOutOnce`, `WorkersStayKnown` | `OneDelivery`, `WorkersKnown` | Registry |
| `ServicesProofs!CensusStaysTrue` | `CensusTrue` | Shapes |
| `ServicesProofs!SocketStaysInStep`, `GoodTokenStays` | `SocketInStep`, `KeepsGoodToken` (an action property) | WebApp |
| `ServicesProofs!LaunchesOffline` | `OfflineLaunch` | Shell |
| `ApprovalsProofs!RowFollows`, `BadgeDrops`, `SheetStaysLive` | the parts of the next two | Approvals |
| `SessionProofs!RowBadgeAndSheet`, `TurnsSettle` | `DigestInStep`, `TurnSettles` | MCSession |
| `SessionProofs!CardsStayInPlace`, `BubblesStayInStep` | `CardsInPlace`, `BubblesInStep` | ChatSession in MCSession |
| `SessionProofs!ImagesAreRight` | `ImagesResolve` | Images in MCSession |
| `HostProofs!PromptsRestore` | `PromptsInStep` | Terminal |
| `HostProofs!TokensStayHome` | `OwnToken` | CliLogin |
| `HostProofs!WaitsEndInOrder` | `TurnsInStep` | Driver |
| `HostProofs!NoGateIsMissed` | `GatesRebound` | GateRebind |
| `HostProofs!NothingOutlivesAKill` | `TreeReaped` | Launch |

**Assumptions.** Most say that a bound is a number and that `Null` is none of the values
it is the absence of: `NullAssumption`, `RelayAssumption`, `PartsAssumption`
(WebChannel), `AccountsAssumption`, `DataPlaneAssumption`, `HostsAssumption`,
`KeysAssumption`, `BuildsAssumption` (services), `CallsAssumption`, `ChatAssumption`
(session), `EnvsAssumption`, `ProcsAssumption` (host). The others say something of the program:
`RelayAssumption` and `DataPlaneAssumption`, that sessions and environments have one
owner; `CensusAssumption`, that every payload has a shape; `TokensAssumption`, that a
token is of one backend; `PayloadsAssumption`, that the uuid of a payload is its own (as
`image-blob.ts:13` says and measured) and that a worker sends no reference;
`PromptsAssumption`, that a menu has a choice and the bytes of an arrow come in one read;
`GatesAssumption`, that two gates of one line are further apart
than a pause may be off (the slack of a breakpoint that resolves forward, and the 4
columns `gate-rebind.ts:228` tolerates). Without it a pause cannot be told from that of
the next gate, in the code either. TLC evaluates each on every run.

### How

**WebChannel.** `Isolation` is not inductive: a drained buffer is labelled with the
session of its handler, and a snapshot is a read of `db`. The strengthening adds
that the events stored, in batches and in the database, are filed under their own
session (`Filed`) and that each place of a socket holds its own account's sessions
(`Owned`). What follows a backfill needs `Relaying`: on a socket with one subscribe in
flight, what is held back, or shown after the backfill plus the frames under way, is
the stretch of what was relayed since the subscribe (`Contiguous`). That a backfill is
ordered needs `InOrder`: the batch of a worker is later than everything stored
(`Storing`), as a worker awaits the answer of its POST (`MaxPosts = 1`), and a failed
INSERT only leaves a hole. Without a pool `Exact` adds that a handler runs alone (`Alone`) and
the ring is the newest of what was relayed, but for the batch being stored (`Stocked`),
so that nothing is missing. `HeldExactly` is an action property: `HoldsBackStep` goes
through the steps and finds that the buffer is there as long as a subscribe of the
watched session is, unless `Drained` or a rejected query comes between.
`RelayProofs` shows that both instances of MCWebChannel meet the assumptions of
WebChannelProofs and that their steps are steps of it, and combines the three in
`ChannelInv`.

**DataPlane.** The attached stream is live and the newest, a listed session is attached,
and what was read precedes what is on the wire, which precedes what will be numbered
next. The step of `ClientEvents` follows from it: each action maps to `Send`, `Lose`,
`Receive`, `Restart` or a stutter.

**Accounts** (`AccountsInv`). With a pool every token in the cache, under a login or
handed out is the one the table holds for its name (`Rowed`); a row is written only for
a name without one, so nothing in use changes. `Filed` and `Backed` carry the way back
through a restart: no token has two names.

**Registry** (`HostInv`). Work waits in one queue at most, once, and was never handed
out (`QueuedOnce`), and what was not given out yet is nowhere (`Unused`), so new work
is new. The index of the tokens is the inverse of the sessions' tokens, no row has the
token of another session, and so it is an index again after a restart (`Indexed`). A
session in the map has its row or a request that awaits the write (`Written`).

**Shapes** (`CensusInv`). A row has its own shape or none, a new one has its own from the
start, and nothing takes it away, a second server included; a backfill ends when it finds
no row without one, so none is without one from then on (`AllStamped`).

**WebApp** (`AppInv`). Number of loops = sockets that are not closed plus timers, for
each ControlSocket (`Loops`), counted through every drop, firing and Retry; with one
loop its WebSocket is the one the ControlSocket sends on (`Latest`). **Shell**
(`PageInv`). Only the worker in control and the one that waits have an index, and only
the first has bundles (`Workers`), so `caches.match` has one answer; a whole page has its
index and its bundle in the cache or on their way to it, with nothing else on its way
(`Launched`).

**Approvals.** The properties speak of quiet states only, and a quiet state is reached
through states in which they are false. So the invariants speak of *what is on its
way*: `Final` is the digest once the suspended POST and the outbox have been folded
into it, `FinalSheet` the sheet once the outbox has been relayed. A POST moves events
along and changes neither. `RowInv` says that out of a turn `Final` has settled, and in
a turn is the row of the newest visible call; `PhoneInv`, that each request is asked
once and stored before it can be answered, and that `Final`'s badge is of the request
that waits; `SheetInv` the same of `FinalSheet`. `SessionProofs` carries both through the
two instances of MCSession.

**ChatSession** (`ChatInv`). That a call has one card is not inductive: a second live
event that announced the call would make another. So the calls a worker has yet to make,
those the events on the wire announce and those the index knows are kept apart, and so
are the announcements of the log, which a reopening reduces again. A screen always has
its places, tasks, questions and list in order (`Kept`); while no call is announced
twice, every card is the one noted for its call as well (`Exact`). `Goes` says of each
operator of the reducer that it leads from one such screen to another, and of which
calls it announces; operators compose when those are apart, so a batch or a replay is an
induction over its events. `BubInv` adds a balance for each text: bubbles shown and
echoes on the wire are as many as echoes stored and texts pending. `Heard` counts how
an event moves the balance: it shows a bubble for each echo that settles no pending
text, and unqueues the bubble of one that does. Unless a send was lost (`lossy`) a pending
text is with the worker or echoed on the wire, so the echo that settles it is to come.

**Images** (`PicturesInv`). `eachImage` is shown, by induction over the blocks, to meet
each image place once and in order, so that the image at an index has as many images
before it as the index says (`numberOf`, counted block by block, is the position in the
walk). Slimming puts a reference where the bytes were and moves nothing (`SentFor`); so
a card is of an image of a posted payload, with its bytes or its own reference
(`CardOf`), and as uuids are unique `eventByUuid` finds that payload or none.

**Terminal** (`PromptInv`). A read is whole keys (`Whole`), so that neither the loop over
its keys nor the escape sequences it skips leave half an arrow for a text; the terminal
is raw exactly while a prompt reads, and what was piped in is what was taken, what waits
in the queue and what is still in the pipe, in this order (`NoLineLost`).

**CliLogin** (`LoginInv`). A configuration has a backend once, with a token of its own,
in the file and in every copy read of it; at each stage a terminal holds the token of
the backend it is about. **Driver** (`DriveInv`). What is on its way to the worker comes
after what it is in, and that after every result taken: so the results are of later and
later turns. **GateRebind** (`GateInv`, `Own1`, `Own2`). claude runs once no gate is
without a report; a pause is close enough to its own gate that no other is nearer, but
for a gate whose breakpoint could not be removed. **Launch** (`TreeInv`). `seen` is a history variable: the least
set that has the child and the children of its members (`Family`) when a kill begins. The
list is what the recursive `walk` over /proc returns, and it leaves nothing of that set
out: a process is younger than its parent (`Born`), so each turn of `walk` reaches the
next generation and its result is closed under children (`BelowCloses`,
`DescendantsType`). While the kill is on, what of the tree lives is on the list.

**RecursionLemmas** proves, from the least element of a set of naturals and the
library's theorems about finite sets, that primitive recursion and folds are functions,
and what they return: of `SubseqAt`, `Reduce`, `FoldLeft`, `SetToSeq`, `FlattenSeq` and
`Reverse`, and of a function that joins sequences one after the other.
The induction theorems of the library take an operator and cannot be instantiated
here; the predicate is given as the set of its counterexamples instead.

### Only model-checked

- The liveness properties: fairness and ENABLED are out of the prover's reach.
- `ReplayAgrees`: it compares the screen with what the reducer makes of the whole log
  again, two reductions that meet different flags and different cards.
- `NothingInFlight`: it needs, beside `ChatInv`, what is open at the worker after each
  prefix of what is on its way; the scenes bound it.
- `ClientInStep`: a loop over the cells of a segment that consumes several at a time.
- `ProfileFits`: a comparison of concrete versions and strings, which has no parameter to
  be general in.

## 5. Where code and words part

Seven disagreements have a run: `webchannel_gap`, `dataplane_race`, `approvals_stuck`,
`approvals_crossing`, `chat_twice`, `launch_orphan` and `shell_missed` (quotes and
lines in `PROJECT.json`, "findings"). Others were met while modelling. They are why a
property above is checked under a bound or with an exception, and each shows when
that is lifted:

- Two subscribes in flight share `ws.pending`, and a rejected history query leaves it
  set (`web-channel.ts:118`), so that live events do not "queue here" exactly "while a
  backfill is in flight" (25). Part "accounts" has both: `HeldExactly` says that these are the
  only two ways; `AsSubscribed` and `PhoneCatchesUp`, which fail there, are stated of
  "pool", with one subscribe at a time and queries that are answered.
- An answer handled while the POST that relayed its request waits for a save is
  undone by the fold (`HasPool` breaks the badge part of `DigestInStep`).
- A backfill opens the sheet of a request answered from the phone whose call
  still runs (`MaxReopens = 1` breaks `SheetIsLive`, a part of `DigestInStep`), and `worker_shutting_down`
  leaves the sheet and a tool card open (`MayExit` breaks it; `NothingInFlight` speaks of
  the cards of calls only while the worker is there).
- `load()` forgets the requests of workers that survive the restart.
- After the echo of a local command `turnActiveIn` sees a turn and `foldDigest` none:
  only one direction of the equivalence is a property (`StopButtonOffered`).
- Without a pool two registrations of one name both win, because the name is
  checked before the hash is awaited and not after: `SameTokenForever` is stated
  with a pool.
- A Retry, or a close, while a back-off timer is pending does not stop the timer: each
  such Retry adds a loop for good (`used.added` of WebApp counts them), and from then on
  `this.ws` need not be the WebSocket that is open, so that online means nothing for what
  is sent: `OnlineIsOpen` and `Subscribed` are stated of pages with one loop.
- A message sent while `this.ws` is not open (`ws.ts:80`), as between a Retry and the
  `onclose` that follows it, is dropped and its bubble stays queued ("lossy" scenes of
  ChatSession); nothing tells the page.
- `wire-shape.ts:24` says of the gate, the column, the report and the tests that "the four
  can never disagree". A phone also marks notices (`system:status:` and its value,
  `model.ts:387`) and types of blocks inside payloads of a known shape, which the column
  and the report do not have: `CensusTrue` compares the shapes only (`IsShape`).
- `Debugger.resume` that fails is swallowed (`gate-rebind.ts:262`, `440`) and leaves claude
  paused for good, and a worker whose attach gives up (245) is left waiting for a
  debugger: `PausesEnd` and `WorkerRuns` of GateRebind except both.
- The handler of `fetch` caches an answer to a navigation whatever its status
  (`sw.js:63-65`), so an error page, sent while `dist/` is built anew, is what the next
  offline launch shows; and a bundle that is gone is answered with the index and 200
  (`server/index.ts:428`), is `ok`, and is cached under the bundle's name, before which no
  network is asked any more. Puts are not awaited and their failures swallowed. So
  `OfflineLaunch` is stated of a page whose load was whole, with nothing being put.
- A page that was loaded under no worker never reloads (`main.tsx:50`): a build that comes
  later, while it is open, is not shown. `Updates` is stated of the others.
- `connect()` of the inspector client settles neither way when the socket closes cleanly
  before the handshake: `CallsSettle` speaks of calls.
- A gate whose breakpoint could not be removed may be paused at again and taken for the
  next one on its line (the exception in `RightGate`).
- Two terminals that log in at once write the config file back whole, and the later drops the
  earlier's entry; each still uses its own token.

## 6. What is not modelled

- The frame codec of `/ws/client`, which is that of a peer for the browser's own.
- `control-cli.ts`: the parsing of arguments, a `--credential` given on the command line
  (no saved login is then looked at), the pruning of run directories, the log
  file, `main` and the wait of an interactive run: straight-line code over files.
- `gate-rebind.ts`: the dialog of a first run; a second worker. Each hit of the spawner
  starts another attach to the one port, and what a second worker does with a port that is
  taken is not in this code.
- `anchors.ts`: the regular expressions over the minified bundle, and
  `extract-anchors.ts`; Surface says which strings and shapes a release has and what
  the locators make of that.
- `model.ts`: progress detail of a task, labels, token counts, model and mode.
- An environment that changes its owner; the pushes of the session list, and so how old a
  badge on a phone may be (hazard at `web-channel.ts:157`).
- The lock after failed logins, whose guarantee under concurrency the repository
  does not state.
- Escape sequences that a terminal cuts between two reads.
- Wording, styles and views (`md.ts`, `phone.tsx`, `SessionList.tsx`); the legacy ingress
  (`ws-ingress.ts`), which no entry point attaches.
