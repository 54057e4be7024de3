------------------------------ MODULE MCServices ------------------------------
(* What surrounds a session, on small instances, one of them in each behaviour: *)
(*   "accounts" Accounts: two names, three registrations and two logins.        *)
(*   "registry" Registry: one environment of one account, two sessions that     *)
(*              claude, the host and restarts make, lose and make again.        *)
(*   "app"      WebApp: one token, two logins, a page that is retried.          *)
(*   "shell"    Shell: three builds, two outages, two openings of the page.    *)
(*   "shapes"   Shapes: two servers that fill in the column of the old rows.    *)
EXTENDS Accounts

CONSTANTS
    ann, bea, t1, t2, t3, l1, l2, e1, \* names, tokens, logins, ...
    Part, \* the instance of a behaviour
    \* Registry
    Owners, Hosts, MaxSessions, MaxIngress, MaxRefused, MaxPatches, MayAge,
    \* WebApp
    Keys, Objects, MaxSockets, MaxFailures, MaxForced,
    \* Shell
    MaxBuilds, MaxOutages, MaxOpens,
    \* Shapes
    Payloads, Servers, Batch, MaxOld, MaxRows, MaxFails

VARIABLES part,
    envs, sessions, byIngressToken, envRows, rows, writing, host, claude, polled, dealt, spent,
    cookie, cred, checked, asked, good, made, ctrl, socks, subscribed, connection, viewing, used,
    deployed, online, active, arriving, caches, putting, page, opens,
    events, at, batch, fails

registryVars == <<envs, sessions, byIngressToken, envRows, rows, writing, host, claude, polled,
                  dealt, spent>>
appVars    == <<cookie, cred, checked, asked, good, made, ctrl, socks, subscribed, connection,
                viewing, used>>
shellVars  == <<deployed, online, active, arriving, caches, putting, page, opens>>
shapesVars == <<events, at, batch, fails>>
servicesVars == <<part, vars, registryVars, appVars, shellVars, shapesVars>>

Event(type, sub, notice) == [type |-> type, sub |-> sub, notice |-> notice, blocks |-> {}, inner |-> {}]
TestPayloads ==
    {Event("system", "novel", ""), Event("system", "status", "novel"), Event("stream_event", "ping", ""),
     [type |-> "user", sub |-> "", notice |-> "", blocks |-> {"text", "tool_result"}, inner |-> {"document"}]}

Host == INSTANCE Registry WITH
    made <- dealt, used <- spent,
    Accounts <- Owners, Envs <- Hosts, MaxTokens <- MaxIngress, MaxFailures <- MaxRefused

\* Null, a model value, is no credential, environment, number or record, and no
\* environment has the name of what a request goes on with.
ASSUME HostsAssumption ==
    /\ Null \notin Owners \cup Hosts \cup {"created", "bridged", "moved"}
    /\ Null \notin Nat
    /\ Null \notin Host!Row \cup Host!Session \cup Host!Env
    /\ Hosts \cap {"created", "bridged", "moved"} = {}
    /\ {MaxSessions, MaxIngress, MaxRefused, MaxRestarts, MaxPatches} \subseteq Nat

\* Null is no token; ControlSockets and builds are numbered from 1.
ASSUME KeysAssumption ==
    /\ Null \notin Keys
    /\ Objects \subseteq Nat \ {0}
    /\ {MaxSockets, MaxForced} \subseteq Nat
ASSUME BuildsAssumption == MaxBuilds \in Nat \ {0}

App == INSTANCE WebApp WITH Tokens <- Keys

Page == INSTANCE Shell WITH used <- opens

Census == INSTANCE Shapes WITH rows <- events

\* Null is the absence of a shape, and a batch has a row.
ASSUME CensusAssumption ==
    /\ \A p \in Payloads : Census!shapeOf(p) # Null
    /\ Batch \in Nat \ {0} /\ MaxOld \in Nat

\* A part that another behaviour is about is at one of its initial states.
ServicesInit ==
    /\ part \in Part
    /\ Init /\ Host!Init /\ App!Init /\ Page!Init /\ Census!Init
    /\ part \notin {"accounts", "registry"} => pool
    /\ part # "shapes" => events = <<>>
    /\ part # "app" => cookie = Null

usersVars == <<users, byToken, table, register, login, issued, restarts>>

ServicesNext ==
    \/ /\ part = "accounts" /\ Next
       /\ UNCHANGED <<part, registryVars, appVars, shellVars, shapesVars>>
    \/ /\ part = "registry" /\ Host!Next
       /\ UNCHANGED <<part, usersVars, appVars, shellVars, shapesVars>>
    \/ /\ part = "app" /\ App!Next
       /\ UNCHANGED <<part, vars, registryVars, shellVars, shapesVars>>
    \/ /\ part = "shell" /\ Page!Next
       /\ UNCHANGED <<part, vars, registryVars, appVars, shapesVars>>
    \/ /\ part = "shapes" /\ Census!Next
       /\ UNCHANGED <<part, vars, registryVars, appVars, shellVars>>

\* The fairness of each module, of the behaviours it is in.
ServicesFairness ==
    /\ \A s \in Host!SessionIds : WF_registryVars(part = "registry" /\ Host!Bridges(s))
    /\ WF_registryVars(part = "registry" /\ \E w \in writing : Host!SessionWritten(w))
    /\ \A o \in Objects : WF_appVars(part = "app" /\ App!Timer(o))
    /\ \A w \in App!Ids : /\ WF_appVars(part = "app" /\ App!Opened(w))
                          /\ WF_appVars(part = "app" /\ App!Closed(w))
    /\ WF_appVars(part = "app" /\ App!Checked)
    /\ WF_shellVars(part = "shell" /\ Page!LoadIndex)
    /\ WF_shellVars(part = "shell" /\ Page!LoadBundle)
    /\ WF_shellVars(part = "shell" /\ Page!Loaded)
    /\ WF_shellVars(part = "shell" /\ Page!Register)
    /\ WF_shellVars(part = "shell" /\ page.state = "armed" /\ Page!Check)
    /\ WF_shellVars(part = "shell" /\ Page!Install)
    /\ WF_shellVars(part = "shell" /\ Page!Activate)
    /\ WF_shellVars(part = "shell" /\ ~online /\ Page!Network)
    /\ \A s \in Servers : /\ WF_shapesVars(part = "shapes" /\ Census!Boot(s))
                         /\ WF_shapesVars(part = "shapes" /\ Census!Select(s))
                         /\ WF_shapesVars(part = "shapes" /\ Census!Update(s))

ServicesSpec ==
    /\ ServicesInit
    /\ [][ServicesNext]_servicesVars
    /\ ServicesFairness

\* What the server knows of a worker (store.ts): byIngressToken finds every
\* session by the token it has; the row of an accepted worker's session is there
\* for its events ("row must exist", the foreign key of schema.sql); and that
\* row has its token, so that it "re-authenticates against the new process"
\* (INTERNALS.md:297).  The last two until a write fails, and the last when no
\* write is under way.
WorkersKnown == part = "registry" =>
    Host!TypeOK /\ Host!TokenIndexed /\ Host!PostsFindRow /\ Host!TokenPersisted

\* Work is handed out once (store.ts, nextWork), whatever registrations,
\* acknowledgements and restarts come between: no two claudes run one session.
OneDelivery == part = "registry" => Host!OneDelivery

\* INTERNALS.md:300, "a cold session is recoverable, not lost": a claude of
\* /rc that knows its session's id is accepted again, whatever restarts, writes
\* that fail and time take away.
Recovers == \A s \in Host!SessionIds :
    (part = "registry" /\ s \in dealt.rc /\ Host!Refused(s)) ~> Host!Accepted(s)

\* A ControlSocket (ws.ts) is one loop, a WebSocket or a timer, plus one for each
\* Retry that found nothing to close.  While it has one loop, the page that says
\* online writes to a WebSocket of its own, which is open unless a Retry is closing
\* it; and "Re-subscribe after a reconnect so the transcript backfills instead of
\* going quiet": a session looked at over an open connection is subscribed.
SocketInStep == part = "app" =>
    App!TypeOK /\ App!LoopsConserved /\ App!OnlineIsOpen /\ App!Subscribed

\* "Only an outright rejection logs the user out" (App.tsx): a token the server
\* accepts stays in the cookie until the user logs out.
KeepsGoodToken == App!KeepsGoodToken

\* "The socket's own reconnect loop handles the outage" (App.tsx): while the
\* user stays and the token is good, the page is online again and again.
ComesBack == \A t \in Keys :
    (part = "app" /\ cred = t /\ checked) ~> (connection = "online" \/ cred # t \/ t \notin good)

\* "An offline launch" (sw.js, PRECACHE): a page that was loaded whole by the
\* worker in control can be opened again without a network, index and bundle,
\* when nothing is being put any more.
OfflineLaunch == part = "shell" => Page!TypeOK /\ Page!OfflineLaunch

\* "Poll for a new worker ourselves, and reload the page when one takes over"
\* (main.tsx): a page that a worker loaded, and that polls, does not stay at an
\* old build while a newer worker is to be had.
Updates ==
    (part = "shell" /\ Page!Stale /\ page.state = "armed" /\ page.had /\ active # deployed)
        ~> ~Page!Stale

\* "The queue is a predicate, not a bookmark" (db.ts): a backfill that ran to its
\* end has left no row behind, whatever another server did meanwhile; and "one
\* implementation, so the four can never disagree" (wire-shape.ts): once the rows
\* are stamped, the report lists the shapes that phones mark, but for the notices
\* and blocks that phones mark inside a payload of a known shape.
CensusTrue == part = "shapes" => Census!TypeOK /\ Census!DoneMeansStamped /\ Census!ReportAgrees

\* The backfill (db.ts) comes to an end while events keep arriving, unless a
\* query fails or the server stops.
BackfillEnds == Census!BackfillEnds

=============================================================================
