------------------------------- MODULE WebApp -------------------------------
(***************************************************************************)
(* One page of the web client (web/src/App.tsx, ws.ts, auth.ts,            *)
(* AuthGate.tsx): the token in its cookie, the check of it, the gate, and  *)
(* the ControlSocket of each Home with its WebSockets, its back-off timers *)
(* and its subscription.                                                   *)
(*                                                                         *)
(* Left out: how long a back-off is, the list of sessions, and which       *)
(* session is looked at.  The server is external: it accepts some tokens,  *)
(* may be out of reach a number of times, and may forget its accounts      *)
(* (a restart without PostgreSQL).                                         *)
(***************************************************************************)
EXTENDS Naturals, FiniteSets

CONSTANTS
    Tokens,      \* account tokens
    Null,
    Objects,     \* numbers of ControlSockets; bound: logins
    MaxSockets,  \* bound: WebSockets at one time
    MaxFailures, \* bound: connections that fail or drop, answers that do not come
    MaxForced    \* bound: uses of Retry

VARIABLES
    cookie,      \* ccc_credential
    cred,        \* App's credential state
    checked,     \* App's checked state
    asked,       \* the request whose answer App or the gate awaits
    good,        \* external: the tokens the server accepts
    made,        \* ControlSockets made so far; the last is Home's, if any
    ctrl,        \* of each: its token, closed, this.ws and its timers
    socks,       \* WebSockets: whose, and in which state
    subscribed,  \* WebSockets the session looked at was subscribed on
    connection,  \* Home's connection state
    viewing,     \* a session is being looked at
    used         \* counts of failures and of Retry, and of sockets it added

vars == <<cookie, cred, checked, asked, good, made, ctrl, socks, subscribed, connection,
          viewing, used>>

Ids == 1 .. MaxSockets
NoRequest == [kind |-> "none", token |-> Null]
Control == [cred : Tokens, closed : BOOLEAN, ws : Ids, timers : 0 .. MaxForced + 1]

TypeOK ==
    /\ {cookie, cred} \subseteq Tokens \cup {Null} /\ checked \in BOOLEAN
    /\ asked \in [kind : {"none", "check", "login", "paste"}, token : Tokens \cup {Null}]
    /\ good \subseteq Tokens /\ made \in Objects \cup {0}
    /\ ctrl \in [1 .. made -> Control]
    /\ socks \in [Ids -> [of : Objects \cup {0}, state : {"connecting", "open", "closing", "closed"}]]
    /\ subscribed \subseteq Ids /\ connection \in {"connecting", "online", "offline"}
    /\ viewing \in BOOLEAN /\ (cred # Null => cookie = cred)

Init ==
    /\ cookie \in Tokens \cup {Null} /\ cred = cookie /\ checked = (cookie = Null)
    /\ asked = IF cookie = Null THEN NoRequest ELSE [kind |-> "check", token |-> cookie]
    /\ good = Tokens /\ made = 0 /\ ctrl = <<>>
    /\ socks = [w \in Ids |-> [of |-> 0, state |-> "closed"]]
    /\ subscribed = {} /\ connection = "connecting" /\ viewing = FALSE
    /\ used = [failures |-> 0, forced |-> 0, added |-> 0]

-----------------------------------------------------------------------------
(* ControlSocket.                                                          *)

Alive(o) == {w \in Ids : socks[w].of = o /\ socks[w].state # "closed"}
Free == {w \in Ids : socks[w].state = "closed" /\ \A o \in 1 .. made : ctrl[o].ws # w}
\* Home's socket, while there is a Home.
Home(o) == cred # Null /\ checked /\ o = made
Fails == used.failures < MaxFailures /\ used' = [used EXCEPT !.failures = @ + 1]


\* connect, with this object's state c: it asks nothing of what it finds, and
\* takes this.ws over.
connect(o, c) ==
    \E w \in Free :
        /\ \A v \in Free : w <= v
        /\ socks' = [socks EXCEPT ![w] = [of |-> o, state |-> "connecting"]]
        /\ ctrl' = [p \in DOMAIN ctrl \cup {o} |-> IF p = o THEN [c EXCEPT !.ws = w] ELSE ctrl[p]]
        /\ subscribed' = subscribed \ {w}

Timer(o) ==
    /\ o \in 1 .. made /\ ctrl[o].timers > 0
    /\ connect(o, [ctrl[o] EXCEPT !.timers = @ - 1])
    /\ connection' = IF Home(o) THEN "connecting" ELSE connection
    /\ UNCHANGED <<cookie, cred, checked, asked, good, made, viewing, used>>

\* Mutant of Resubscribed: nothing subscribes again.
SubscribedOnce(o, open) == subscribed

\* The effect that subscribes when the connection has come back: on this.ws,
\* which need not be the WebSocket that opened.
Resubscribed(o, open) ==
    IF Home(o) /\ viewing /\ connection # "online" /\ ctrl[o].ws \in open
    THEN subscribed \cup {ctrl[o].ws} ELSE subscribed

OpenSocks == {w \in Ids : socks[w].state = "open"}
Opened(w) ==
    /\ socks[w].state = "connecting" /\ ctrl[socks[w].of].cred \in good
    /\ socks' = [socks EXCEPT ![w].state = "open"]
    /\ subscribed' = Resubscribed(socks[w].of, OpenSocks \cup {w})
    /\ connection' = IF Home(socks[w].of) THEN "online" ELSE connection
    /\ UNCHANGED <<cookie, cred, checked, asked, good, made, ctrl, viewing, used>>

\* Mutant of BackOff: a socket that dropped does not connect again.
BackOffNever(c) == c.timers
BackOff(c) == IF c.closed THEN c.timers ELSE c.timers + 1

\* Mutant of Status: Home is not told.
StatusSame(o) == connection
Status(o) == IF Home(o) /\ ~ctrl[o].closed THEN "offline" ELSE connection

\* onclose: a WebSocket that was being closed, or is refused, or drops.
Closed(w) ==
    LET o == socks[w].of
    IN  /\ \/ socks[w].state = "closing" /\ UNCHANGED used
           \/ socks[w].state = "connecting" /\ ctrl[o].cred \notin good /\ UNCHANGED used
           \/ socks[w].state \in {"connecting", "open"} /\ Fails
        /\ socks' = [socks EXCEPT ![w] = [of |-> 0, state |-> "closed"]]
        /\ ctrl' = [ctrl EXCEPT ![o].timers = BackOff(ctrl[o])]
        /\ subscribed' = subscribed \ {w}
        /\ connection' = Status(o)
    /\ UNCHANGED <<cookie, cred, checked, asked, good, made, viewing>>

\* reconnect, from the banner's Retry: close() if there is one to close, and
\* onclose does the rest; else connect at once.
OpenOrOpening(o) == socks[ctrl[o].ws].of = o /\ socks[ctrl[o].ws].state \in {"connecting", "open"}
Reconnect ==
    /\ used.forced < MaxForced /\ \E o \in 1 .. made : Home(o)
    /\ IF OpenOrOpening(made)
       THEN /\ used' = [used EXCEPT !.forced = @ + 1]
            /\ socks' = [socks EXCEPT ![ctrl[made].ws].state = "closing"]
            /\ UNCHANGED <<ctrl, subscribed, connection>>
       ELSE /\ used' = [used EXCEPT !.forced = @ + 1, !.added = @ + 1]
            /\ connect(made, ctrl[made]) /\ connection' = "connecting"
    /\ UNCHANGED <<cookie, cred, checked, asked, good, made, viewing>>

\* useSession's own subscribe: sent if this.ws is open, else not at all.
Open ==
    /\ ~viewing /\ viewing' = TRUE /\ \E o \in 1 .. made : Home(o)
    /\ subscribed' = subscribed \cup ({ctrl[made].ws} \cap OpenSocks)
    /\ UNCHANGED <<cookie, cred, checked, asked, good, made, ctrl, socks, connection, used>>

-----------------------------------------------------------------------------
(* App and the gate.                                                       *)

\* Home appears with a token: a ControlSocket, connected at once.
Mount(token) ==
    /\ made + 1 \in Objects /\ made' = made + 1
    /\ connect(made + 1, [cred |-> token, closed |-> FALSE, ws |-> 1, timers |-> 0])
    /\ connection' = "connecting" /\ viewing' = FALSE /\ used' = [used EXCEPT !.added = 0]

\* What the server says of a token: it may be out of reach.
Says(token) == IF token \in good THEN "ok" ELSE "rejected"
\* Mutant of Dead: a server out of reach is taken for a refusal.
DeadOrAway(status) == status # "ok"
Dead(status) == status = "rejected"

\* The answer to App's check: only an outright rejection logs out.
CheckAnswered(status) ==
    /\ asked.kind = "check" /\ asked' = NoRequest
    /\ status = "unreachable" \/ status = Says(asked.token)
    /\ checked' = TRUE
    /\ IF Dead(status)
       THEN /\ cookie' = Null /\ cred' = Null
            /\ UNCHANGED <<made, ctrl, socks, subscribed, connection, viewing, used>>
       ELSE Mount(cred) /\ UNCHANGED <<cookie, cred>>
    /\ UNCHANGED good

\* The gate: a name and password, or a token that is pasted and checked.
Submit(kind, token) ==
    /\ cred = Null /\ checked /\ asked = NoRequest /\ made + 1 \in Objects
    /\ asked' = [kind |-> kind, token |-> token]
    /\ UNCHANGED <<cookie, cred, checked, good, made, ctrl, socks, subscribed, connection,
                   viewing, used>>

\* Mutant of Keep: the token is used and not kept.
UseOnly(token) == cred' = token /\ UNCHANGED cookie
\* setCredential, and the state of App.
Keep(token) == cred' = token /\ cookie' = token

Granted ==
    /\ asked.kind \in {"login", "paste"} /\ asked.token \in good
    /\ asked' = NoRequest
    /\ Keep(asked.token)
    /\ Mount(asked.token)
    /\ UNCHANGED <<checked, good>>

NotGranted ==
    /\ asked.kind \in {"login", "paste"} /\ asked' = NoRequest
    /\ UNCHANGED <<cookie, cred, checked, good, made, ctrl, socks, subscribed, connection,
                   viewing, used>>

\* onLogout, and the cleanup of Home: close(), which leaves the timers.
Closing(o) ==
    IF socks[ctrl[o].ws].of = o /\ socks[ctrl[o].ws].state \in {"connecting", "open"}
    THEN [socks EXCEPT ![ctrl[o].ws].state = "closing"] ELSE socks
Logout ==
    /\ \E o \in 1 .. made : Home(o)
    /\ cookie' = Null /\ cred' = Null /\ viewing' = FALSE
    /\ ctrl' = [ctrl EXCEPT ![made].closed = TRUE]
    /\ socks' = Closing(made)
    /\ UNCHANGED <<checked, asked, good, made, subscribed, connection, used>>

\* External: the server loses an account.
Forget(token) ==
    /\ token \in good /\ Fails
    /\ good' = good \ {token}
    /\ UNCHANGED <<cookie, cred, checked, asked, made, ctrl, socks, subscribed, connection, viewing>>

Gate == \E k \in {"login", "paste"}, t \in Tokens : Submit(k, t)
Checked == \E s \in {"ok", "rejected", "unreachable"} : CheckAnswered(s)

Next ==
    \/ \E o \in Objects : Timer(o)
    \/ \E w \in Ids : Opened(w) \/ Closed(w)
    \/ Reconnect \/ Open \/ Checked \/ Gate \/ Granted \/ NotGranted \/ Logout
    \/ \E t \in Tokens : Forget(t)

Spec == Init /\ [][Next]_vars

\* The browser fires its timers and ends each attempt to connect, one way or
\* the other; the check of a token is a fetch.
Fairness ==
    /\ \A o \in Objects : WF_vars(Timer(o))
    /\ \A w \in Ids : WF_vars(Opened(w)) /\ WF_vars(Closed(w))
    /\ WF_vars(Checked)
FairSpec == Spec /\ Fairness

-----------------------------------------------------------------------------
(* Properties.                                                             *)

\* A ControlSocket is one loop: a WebSocket or a timer, never both and never
\* neither, plus one for each Retry that found nothing to close.  (Each of
\* those is a loop of its own from then on, and hears every event again.)
LoopsConserved ==
    \A o \in 1 .. made : Home(o) => Cardinality(Alive(o)) + ctrl[o].timers = 1 + used.added

\* With one loop, the page that says online, and so lets the user write, writes to
\* a WebSocket of its own: this.ws is the one that opened.  After a Retry it may be
\* on its way to being closed: what is sent until its onclose is dropped (ws.ts:80).
OnlineIsOpen ==
    \A o \in 1 .. made : Home(o) /\ connection = "online" /\ used.added = 0 =>
        /\ socks[ctrl[o].ws].of = o /\ socks[ctrl[o].ws].state \in {"open", "closing"}
        /\ socks[ctrl[o].ws].state = "closing" => used.forced > 0

\* "Re-subscribe after a reconnect so the transcript backfills instead of going
\* quiet" (App.tsx): with one loop, a session looked at over a connection that
\* is open is subscribed.
Subscribed ==
    \A o \in 1 .. made : Home(o) /\ viewing /\ used.added = 0 =>
        \A w \in Alive(o) : socks[w].state = "open" => w \in subscribed

\* "Only an outright rejection logs the user out" (App.tsx): a token the server
\* accepts stays in the cookie until the user logs out.
KeepsGoodToken ==
    [][cookie # Null /\ cookie' = Null => cookie \notin good \/ \E o \in 1 .. made : Home(o) /\ ctrl'[o].closed]_vars

\* "The socket's own reconnect loop handles the outage" (App.tsx): while the
\* user stays and the token is good, the page is online again and again.
ComesBack ==
    \A t \in Tokens : (cred = t /\ checked) ~> (connection = "online" \/ cred # t \/ t \notin good)

===============================================================================
