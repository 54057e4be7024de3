------------------------------- MODULE Registry -------------------------------
(***************************************************************************)
(* What the server knows of environments, of the sessions their hosts are  *)
(* given to run, and of the /rc sessions a claude brings along: the maps   *)
(* of the store, the rows of PostgreSQL behind them, the work queue and    *)
(* the tokens (src/server/store.ts, db.ts, index.ts).                      *)
(*                                                                         *)
(* A method changes its map and then awaits its write; the request goes on *)
(* when the write is done, or ends with a 500.  Writes of several requests *)
(* may be done in any order: each has a connection of its own.             *)
(*                                                                         *)
(* Hosts and claudes are external.  One host registers, polls with the     *)
(* environment it was given and comes back with it; a claude whose token   *)
(* is refused asks for another with the id it kept.                        *)
(***************************************************************************)
EXTENDS Naturals, Sequences, FiniteSets

CONSTANTS
    Accounts,     \* credentials
    Envs,         \* environment ids
    Null,
    MaxSessions,  \* bound: sessions created
    MaxTokens,    \* bound: ingress tokens issued
    MaxFailures,  \* bound: writes that fail
    MaxRestarts,  \* bound: restarts of the server
    MaxPatches,   \* bound: times a session is said to be in another directory
    MayAge        \* sessions may fall out of the load window

VARIABLES
    pool,      \* a PostgreSQL pool is configured
    envs,      \* store.envs: the owner of each, and its queue and inflight
    sessions,  \* store.sessions
    byIngressToken,
    envRows, rows, \* the tables
    writing,   \* requests that await a write
    host,      \* the environment the host was given, and whether it awaits one
    claude,    \* of each session, the token its claude holds: 0, its id only
    polled,    \* times the work of each session was handed out
    made,      \* sessions and tokens made so far, and the sessions of /rc
    used       \* counts of failures, restarts and patches

vars == <<pool, envs, sessions, byIngressToken, envRows, rows, writing, host,
          claude, polled, made, used>>

SessionIds == 1 .. MaxSessions
IngressTokens == 1 .. MaxTokens
Session == [owner : Accounts, env : Envs \cup {Null}, token : IngressTokens, dir : 0 .. MaxPatches]
Row == [owner : Accounts, env : Envs \cup {Null}, token : IngressTokens, dir : 0 .. MaxPatches,
        recent : BOOLEAN]
Env == [owner : Accounts, queue : Seq(SessionIds), inflight : SUBSET SessionIds]

TypeOK ==
    /\ envs \in [Envs -> Env \cup {Null}]
    /\ sessions \in [SessionIds -> Session \cup {Null}]
    /\ byIngressToken \in [IngressTokens -> SessionIds \cup {Null}]
    /\ rows \in [SessionIds -> Row \cup {Null}] /\ envRows \in [Envs -> Accounts \cup {Null}]
    /\ claude \in [SessionIds -> IngressTokens \cup {0, Null}]
    /\ polled \in [SessionIds -> Nat] /\ made.rc \subseteq SessionIds

Nothing(S) == [x \in S |-> Null]

Init ==
    /\ pool \in BOOLEAN
    /\ envs = Nothing(Envs) /\ sessions = Nothing(SessionIds)
    /\ byIngressToken = Nothing(IngressTokens)
    /\ envRows = Nothing(Envs) /\ rows = Nothing(SessionIds)
    /\ writing = {}
    /\ host = [env |-> Null, waits |-> FALSE]
    /\ claude = Nothing(SessionIds) /\ polled = [s \in SessionIds |-> 0]
    /\ made = [sessions |-> 0, tokens |-> 0, rc |-> {}]
    /\ used = [failures |-> 0, restarts |-> 0, patches |-> 0]

-----------------------------------------------------------------------------
(* The store.                                                              *)

\* The row a write carries is the record as it is when the write is called.
RowOf(session) ==
    [owner |-> session.owner, env |-> session.env, token |-> session.token, dir |-> session.dir,
     recent |-> TRUE]

\* Mutant of upsertSession: it finds no row to change.
updateSession(s, session) == IF rows[s] = Null THEN rows ELSE [rows EXCEPT ![s] = RowOf(session)]

\* Mutant of upsertSession: the time of the last activity is left out.
insertSession(s, session) == [rows EXCEPT ![s] = session]

\* Mutant of upsertSession: a row that is there keeps its token.
upsertButToken(s, session) ==
    [rows EXCEPT ![s] = [RowOf(session) EXCEPT !.token = IF rows[s] = Null THEN @ ELSE rows[s].token]]

upsertSession(s, session) == [rows EXCEPT ![s] = RowOf(session)]

Write(what, s, session, next) ==
    [what |-> what, s |-> s, session |-> session, next |-> next]
Await(w) == writing' = writing \cup {w}

\* createEnv: with the id a host kept, too, the queue starts empty.
createEnv(e, owner) ==
    [envs EXCEPT ![e] = [owner |-> owner, queue |-> <<>>, inflight |-> {}]]

\* A session with a new token, in the maps.
Enter(s, owner, env) ==
    LET token == made.tokens + 1
    IN  /\ token \in IngressTokens
        /\ sessions' = [sessions EXCEPT ![s] =
               [owner |-> owner, env |-> env, token |-> token, dir |-> 0]]
        /\ byIngressToken' = [byIngressToken EXCEPT ![token] = s]

\* patchSession and the write of what it changed.
Patch(s, next) ==
    /\ used.patches < MaxPatches
    /\ used' = [used EXCEPT !.patches = @ + 1]
    /\ sessions' = [sessions EXCEPT ![s].dir = used.patches + 1]
    /\ Await(Write("session", s, sessions'[s], next))

\* Mutant of nextWork: the work stays at the head of the queue.
nextWorkAgain(env) == [env EXCEPT !.inflight = @ \cup {Head(env.queue)}]

nextWork(env) == [env EXCEPT !.queue = Tail(@), !.inflight = @ \cup {Head(env.queue)}]

-----------------------------------------------------------------------------
(* POST /v1/environments/bridge.                                           *)

\* The host registers, with the environment it has or for a new one.
Register(a, e) ==
    /\ ~host.waits
    /\ IF host.env = Null THEN envs[e] = Null /\ envRows[e] = Null ELSE e = host.env
    /\ envs' = createEnv(e, a)
    /\ Await(Write("env", Null, Null, e))
    /\ host' = [host EXCEPT !.waits = TRUE]
    /\ UNCHANGED <<pool, sessions, byIngressToken, envRows, rows, claude, polled, made, used>>

\* The environment is written; pushSessionWork finds it in the map.
EnvWritten(w) ==
    LET e == w.next
        s == made.sessions + 1
        owner == envs[e].owner
    IN  /\ w.what = "env" /\ s \in SessionIds
        /\ envRows' = IF pool THEN [envRows EXCEPT ![e] = owner] ELSE envRows
        /\ Enter(s, owner, e)
        /\ made' = [made EXCEPT !.sessions = s, !.tokens = @ + 1]
        /\ envs' = [envs EXCEPT ![e].queue = Append(@, s)]
        /\ writing' = (writing \ {w}) \cup {Write("session", s, sessions'[s], e)}
        /\ UNCHANGED <<pool, rows, host, claude, polled, used>>

-----------------------------------------------------------------------------
(* The work queue.                                                         *)

\* GET .../work/poll; the answer may be lost on its way.
Poll ==
    /\ ~host.waits /\ host.env # Null /\ envs[host.env] # Null
    /\ envs[host.env].queue # <<>>
    /\ LET s == Head(envs[host.env].queue)
       IN  /\ envs' = [envs EXCEPT ![host.env] = nextWork(@)]
           /\ \/ claude' = [claude EXCEPT ![s] = sessions[s].token]
              \/ UNCHANGED claude
           /\ polled' = [polled EXCEPT ![s] = @ + 1]
    /\ UNCHANGED <<pool, sessions, byIngressToken, envRows, rows, writing, host, made, used>>

\* POST .../ack, of work whose claude runs.
Ack(s) ==
    /\ host.env # Null /\ envs[host.env] # Null
    /\ s \in envs[host.env].inflight /\ claude[s] # Null
    /\ envs' = [envs EXCEPT ![host.env].inflight = @ \ {s}]
    /\ UNCHANGED <<pool, sessions, byIngressToken, envRows, rows, writing, host,
                   claude, polled, made, used>>

-----------------------------------------------------------------------------
(* /v1/code/sessions: the sessions of /rc.                                 *)

\* POST /v1/code/sessions.
Create(a) ==
    LET s == made.sessions + 1
    IN  /\ s \in SessionIds
        /\ Enter(s, a, Null)
        /\ made' = [sessions |-> s, tokens |-> made.tokens + 1, rc |-> made.rc \cup {s}]
        /\ Await(Write("session", s, sessions'[s], "created"))
        /\ UNCHANGED <<pool, envs, envRows, rows, host, claude, polled, used>>

Accepted(s) == claude[s] \in IngressTokens /\ byIngressToken[claude[s]] = s
Refused(s) == claude[s] # Null /\ ~Accepted(s)
Answer(s) == claude' = [claude EXCEPT ![s] = sessions[s].token]

\* Mutant of Bridge: a session that is not in the map is not found.
BridgeNotFound(s, a) == FALSE

\* Never seen by this process, or too old to be loaded.
Unknown(s) == sessions[s] = Null

\* POST .../bridge, by a claude that has no token or is refused: an id that is
\* not in the map is made a session again.
Bridge(s, a) ==
    /\ s \in made.rc /\ Refused(s) /\ Unknown(s)
    /\ Enter(s, a, Null)
    /\ made' = [made EXCEPT !.tokens = @ + 1]
    /\ Await(Write("session", s, sessions'[s], "bridged"))
    /\ UNCHANGED <<pool, envs, envRows, rows, host, claude, polled, used>>

\* The session of an account is there: a machine or directory it did not have
\* is written before the answer.  A claude has one such request out at a time.
BridgeKnown(s) ==
    /\ s \in made.rc /\ Refused(s) /\ ~Unknown(s)
    /\ \A w \in writing : w.s = s => w.next = "moved"
    /\ \/ /\ Answer(s)
          /\ UNCHANGED <<sessions, writing, used>>
       \/ /\ UNCHANGED claude
          /\ Patch(s, "bridged")
    /\ UNCHANGED <<pool, envs, byIngressToken, envRows, rows, host, polled, made>>

-----------------------------------------------------------------------------
(* POST .../worker/events, with a token that is accepted.                  *)

\* applyEventMeta: an init that names another directory saves the session.
Moved(s) ==
    /\ Accepted(s)
    /\ Patch(s, "moved")
    /\ UNCHANGED <<pool, envs, byIngressToken, envRows, rows, host, claude, polled, made>>

\* The flush timer, for a session that was touched.
flushActivity(s) ==
    /\ pool /\ Accepted(s) /\ rows[s] # Null /\ ~rows[s].recent
    /\ rows' = [rows EXCEPT ![s].recent = TRUE]
    /\ UNCHANGED <<pool, envs, sessions, byIngressToken, envRows, writing, host,
                   claude, polled, made, used>>

-----------------------------------------------------------------------------
(* Writes end.                                                             *)

Answered(w) ==
    IF w.next \in Envs THEN host' = [env |-> w.next, waits |-> FALSE] /\ UNCHANGED claude
    ELSE /\ UNCHANGED host
         /\ CASE w.next = "bridged" -> Answer(w.s)
              [] w.next = "created" -> claude' = [claude EXCEPT ![w.s] = 0]
              [] OTHER -> UNCHANGED claude

SessionWritten(w) ==
    /\ w.what = "session"
    /\ rows' = IF pool THEN upsertSession(w.s, w.session) ELSE rows
    /\ writing' = writing \ {w}
    /\ Answered(w)
    /\ UNCHANGED <<pool, envs, sessions, byIngressToken, envRows, polled, made, used>>

\* A write fails: the request ends with a 500, and the maps stay as they are.
WriteFails(w) ==
    /\ pool /\ used.failures < MaxFailures
    /\ used' = [used EXCEPT !.failures = @ + 1]
    /\ writing' = writing \ {w}
    /\ host' = IF w.next \in Envs THEN [host EXCEPT !.waits = FALSE] ELSE host
    /\ UNCHANGED <<pool, envs, sessions, byIngressToken, envRows, rows, claude, polled, made>>

-----------------------------------------------------------------------------
(* Time and restarts.                                                      *)

\* A session nobody touches falls out of the load window.
Age(s) ==
    /\ MayAge /\ rows[s] # Null /\ rows[s].recent
    /\ \A w \in writing : w.s # s
    /\ rows' = [rows EXCEPT ![s].recent = FALSE]
    /\ UNCHANGED <<pool, envs, sessions, byIngressToken, envRows, writing, host,
                   claude, polled, made, used>>

Loaded(s) == rows[s] # Null /\ rows[s].recent

\* Mutant of TokenIndex: no token is known before its session is made again.
TokenIndexOfNone == Nothing(IngressTokens)

TokenIndex ==
    [t \in IngressTokens |->
        IF \E s \in SessionIds : Loaded(s) /\ rows[s].token = t
        THEN CHOOSE s \in SessionIds : Loaded(s) /\ rows[s].token = t
        ELSE Null]

\* The process ends, at any moment, and another loads what is recent.  Every
\* request is cut short; hosts and claudes live on.  An environment too old to be
\* loaded would have an empty queue, like those that are.
Restart ==
    /\ used.restarts < MaxRestarts
    /\ used' = [used EXCEPT !.restarts = @ + 1]
    /\ envs' = [e \in Envs |-> IF envRows[e] = Null THEN Null
                               ELSE [owner |-> envRows[e], queue |-> <<>>, inflight |-> {}]]
    /\ sessions' = [s \in SessionIds |-> IF ~Loaded(s) THEN Null
                       ELSE [owner |-> rows[s].owner, env |-> rows[s].env,
                             token |-> rows[s].token, dir |-> rows[s].dir]]
    /\ byIngressToken' = TokenIndex
    /\ writing' = {}
    /\ host' = [host EXCEPT !.waits = FALSE]
    /\ UNCHANGED <<pool, envRows, rows, claude, polled, made>>

Written(w) == EnvWritten(w) \/ SessionWritten(w)
Bridges(s) == BridgeKnown(s) \/ \E a \in Accounts : Bridge(s, a)

Next ==
    \/ \E a \in Accounts : Create(a) \/ \E e \in Envs : Register(a, e)
    \/ Poll \/ Restart
    \/ \E w \in writing : Written(w) \/ WriteFails(w)
    \/ \E s \in SessionIds : Ack(s) \/ Bridges(s) \/ Moved(s) \/ flushActivity(s) \/ Age(s)

Spec == Init /\ [][Next]_vars

\* A claude goes on asking, and a write ends.
Fairness ==
    /\ \A s \in SessionIds : WF_vars(Bridges(s))
    /\ WF_vars(\E w \in writing : SessionWritten(w))
FairSpec == Spec /\ Fairness

-----------------------------------------------------------------------------
(* Properties.                                                             *)

\* sessionByIngressToken finds every session in the map by the token it has:
\* after a restart and after a session was made again, too.
TokenIndexed ==
    \A s \in SessionIds : sessions[s] # Null => byIngressToken[sessions[s].token] = s

\* Work is handed out once, whatever registrations, acknowledgements and
\* restarts come between: no two claudes run one session.
OneDelivery == \A s \in SessionIds : polled[s] <= 1

\* "row must exist" for the events of an accepted worker (the foreign key of
\* schema.sql): work is queued before its row is written, but until a write
\* fails no worker has its token sooner.
PostsFindRow ==
    pool /\ used.failures = 0 => \A s \in SessionIds : Accepted(s) => rows[s] # Null

\* INTERNALS.md:300, "a cold session is recoverable, not lost": a claude of
\* /rc that knows its session's id is accepted again, whatever restarts, writes
\* that fail and time take away.
Recovers == \A s \in SessionIds : (s \in made.rc /\ Refused(s)) ~> Accepted(s)

\* INTERNALS.md:297, "ingress_token is persisted, so a running claude's
\* data-plane re-authenticates against the new process": when no write is under
\* way and none has failed, the row of an accepted worker has its token.
TokenPersisted ==
    pool /\ writing = {} /\ used.failures = 0 =>
        \A s \in SessionIds : Accepted(s) => rows[s].token = claude[s]

===============================================================================
