----------------------------- MODULE ServicesProofs -----------------------------
(*****************************************************************************)
(* What the server's parts and the page of MCServices promise, for any       *)
(* number of credentials, environments, sessions, tokens, failures, restarts,*)
(* events, servers, ControlSockets, WebSockets, builds and openings.         *)
(*                                                                           *)
(* Registry (HostInv).  The index of the ingress tokens is the inverse of    *)
(* the tokens of the sessions in the map, and no row has the token of        *)
(* another session, so that what a restart loads is an index again           *)
(* (Indexed); what was not given out is nowhere, so that a new id and a      *)
(* new token are new (Unused); work that waits was never handed out and      *)
(* waits in one place (QueuedOnce); a host awaits its own write, one at a    *)
(* time (Writes); and until a write fails a session in the map has its row   *)
(* or a request that awaits it, and work that waits has its row before the   *)
(* host polls again (Written).                                               *)
(*                                                                           *)
(* Shapes (CensusInv).  An event has no shape or its own, and none loses     *)
(* it; so that none lacks one after a backfill found none that does.         *)
(*                                                                           *)
(* Accounts (AccountsInv, of Accounts alone).  With a pool every token in    *)
(* the cache, handed out or about to be is the one the users table holds     *)
(* for its name, and the table never changes a row (Rowed); with or          *)
(* without a pool the way back from a token leads to the name it was         *)
(* registered for (Backed, Filed).                                           *)
(*                                                                           *)
(* WebApp (AppInv).  The token the page uses is the cookie's, and what it    *)
(* asks of the server it asks before there is a Home (Asking); only Home's   *)
(* ControlSocket is not closed, and what has a state belongs to one          *)
(* (Owned); a ControlSocket runs as many loops, WebSockets and timers        *)
(* together, as it was given: one, and one for each Retry that found         *)
(* nothing to close (Loops); while there is one loop, its WebSocket is the   *)
(* one the ControlSocket would send on (Latest); and without a Retry none    *)
(* of Home's is closing (Unretried).                                         *)
(*                                                                           *)
(* Shell (PageInv).  Only the worker in control and the one that waits      *)
(* have an index, and only the first has bundles (Workers), so that          *)
(* caches.match finds its own before another's; and the index and the        *)
(* bundle of a page this worker loaded whole are cached, or on their way to  *)
(* the cache with nothing else (Launched).                                   *)
(*****************************************************************************)
EXTENDS MCServices, RecursionLemmas

-----------------------------------------------------------------------------
(* Registry: the invariant.                                                *)

Ids == Host!SessionIds
\* What a request that writes a session does when no host awaits it.
Keep == {"created", "bridged", "moved"}

\* The two writes of store.ts that are awaited.
EnvWrite == [what : {"env"}, s : {Null}, session : {Null}, next : Hosts]
SessionWrite == [what : {"session"}, s : Ids, session : Host!Session, next : Hosts \cup Keep]

\* The types of what TypeOK of Registry leaves open.
HostTypes ==
    /\ Host!TypeOK /\ pool \in BOOLEAN
    /\ host \in [env : Hosts \cup {Null}, waits : BOOLEAN]
    /\ dealt \in [sessions : 0 .. MaxSessions, tokens : 0 .. MaxIngress, rc : SUBSET Ids]
    /\ \A s \in dealt.rc : s <= dealt.sessions
    /\ spent \in [failures : Nat, restarts : Nat, patches : 0 .. MaxPatches]
    /\ writing \subseteq EnvWrite \cup SessionWrite

\* An id or a token that was not given out is nowhere.
Unused ==
    /\ \A s \in Ids : s > dealt.sessions =>
          sessions[s] = Null /\ rows[s] = Null /\ claude[s] = Null /\ polled[s] = 0
    /\ \A s \in Ids : /\ sessions[s] # Null => sessions[s].token <= dealt.tokens
                      /\ rows[s] # Null => rows[s].token <= dealt.tokens
                      /\ claude[s] # Null => claude[s] <= dealt.tokens

\* The index is the inverse of the tokens of the sessions in the map, and no
\* row has the token of another session.
Indexed ==
    /\ \A t \in Host!IngressTokens, s \in Ids :
          byIngressToken[t] = s <=> sessions[s] # Null /\ sessions[s].token = t
    /\ \A s, r \in Ids : rows[r] # Null =>
          /\ rows[s] # Null /\ rows[s].token = rows[r].token => s = r
          /\ sessions[s] # Null /\ sessions[s].token = rows[r].token => s = r

\* Work that waits was never handed out and waits once.
Queued(s, e) == envs[e] # Null /\ \E i \in DOMAIN envs[e].queue : envs[e].queue[i] = s
QueuedOnce ==
    /\ \A s \in Ids, e \in Hosts : Queued(s, e) => polled[s] = 0 /\ sessions[s] # Null
    /\ \A s \in Ids, e, f \in Hosts : Queued(s, e) /\ Queued(s, f) => e = f
    /\ \A e \in Hosts : envs[e] # Null =>
          \A i, j \in DOMAIN envs[e].queue : envs[e].queue[i] = envs[e].queue[j] => i = j
    /\ \A s \in Ids : polled[s] <= 1

\* What is being written is in the maps; the host awaits its own write.
Writes ==
    /\ \A w \in writing : w.what = "session" =>
          sessions[w.s] # Null /\ w.session.token = sessions[w.s].token
    /\ \A w \in writing : w.what = "env" => envs[w.next] # Null
    /\ \A w \in writing : w.next \in Hosts => host.waits
    /\ \A v, w \in writing : v.next \in Hosts /\ w.next \in Hosts => v = w

\* Until a write fails a session has its row, or the request that made it
\* awaits it; the session of an accepted worker has it.
HasRow(s) == rows[s] # Null /\ rows[s].token = sessions[s].token
Written ==
    pool /\ spent.failures = 0 =>
        /\ \A s \in Ids : sessions[s] # Null =>
              HasRow(s) \/ \E w \in writing : w.what = "session" /\ w.s = s /\ w.next # "moved"
        /\ \A s \in Ids, e \in Hosts : Queued(s, e) =>
              rows[s] # Null \/ \E w \in writing : w.s = s /\ w.next = e
        /\ \A s \in Ids : Host!Accepted(s) => rows[s] # Null

HostInv == HostTypes /\ Unused /\ Indexed /\ QueuedOnce /\ Writes /\ Written
PartHostInv == part = "registry" => HostInv

Ingress == Host!IngressTokens

\* What follows of the constants.
LEMMA Constants ==
    /\ MaxSessions \in Nat /\ MaxIngress \in Nat /\ MaxPatches \in Nat
    /\ Ids = 1 .. MaxSessions /\ Ingress = 1 .. MaxIngress
    /\ Null \notin Ids /\ Null \notin Ingress /\ Null \notin Hosts /\ Null # 0
    /\ Null \notin Host!Session /\ Null \notin Host!Row /\ Null \notin Host!Env
    /\ \A k \in Keep : k \notin Hosts /\ k # Null
BY HostsAssumption DEF Keep, Ids, Ingress, Host!SessionIds, Host!IngressTokens

\* Enter.
LEMMA EnterFacts ==
    ASSUME HostTypes, NEW s \in Ids, NEW owner \in Owners, NEW env \in Hosts \cup {Null},
           Host!Enter(s, owner, env)
    PROVE  /\ sessions' \in [Ids -> Host!Session \cup {Null}]
           /\ byIngressToken' \in [Ingress -> Ids \cup {Null}]
           /\ dealt.tokens \in Nat /\ dealt.tokens + 1 \in Ingress
           /\ sessions'[s] \in Host!Session /\ sessions'[s].token = dealt.tokens + 1
           /\ \A r \in Ids \ {s} : sessions'[r] = sessions[r]
           /\ byIngressToken'[dealt.tokens + 1] = s
           /\ \A t \in Ingress \ {dealt.tokens + 1} : byIngressToken'[t] = byIngressToken[t]
<1> DEFINE x == [owner |-> owner, env |-> env, token |-> dealt.tokens + 1, dir |-> 0]
<1>1. /\ sessions' = [sessions EXCEPT ![s] = x]
      /\ byIngressToken' = [byIngressToken EXCEPT ![dealt.tokens + 1] = s]
      /\ dealt.tokens + 1 \in Ingress
  BY DEF Host!Enter, Ingress
<1>2. dealt.tokens \in Nat
  BY Constants DEF HostTypes
<1>3. x \in Host!Session
  BY <1>1, Constants DEF Host!Session, Ingress
<1>4. /\ sessions \in [Ids -> Host!Session \cup {Null}]
      /\ byIngressToken \in [Ingress -> Ids \cup {Null}]
  BY DEF HostTypes, Host!TypeOK, Ids, Ingress
<1>5. x.token = dealt.tokens + 1
  OBVIOUS
<1> HIDE DEF x
<1>6. QED BY <1>1, <1>2, <1>3, <1>4, <1>5

\* patchSession.
LEMMA PatchFacts ==
    ASSUME HostTypes, NEW s \in Ids, NEW next \in Keep, sessions[s] # Null, Host!Patch(s, next)
    PROVE  /\ sessions' \in [Ids -> Host!Session \cup {Null}]
           /\ sessions'[s] \in Host!Session /\ sessions'[s].token = sessions[s].token
           /\ \A r \in Ids \ {s} : sessions'[r] = sessions[r]
           /\ spent' \in [failures : Nat, restarts : Nat, patches : 0 .. MaxPatches]
           /\ spent'.failures = spent.failures
           /\ writing' = writing \cup
                {[what |-> "session", s |-> s, session |-> sessions'[s], next |-> next]}
<1>1. /\ sessions \in [Ids -> Host!Session \cup {Null}]
      /\ spent \in [failures : Nat, restarts : Nat, patches : 0 .. MaxPatches]
  BY DEF HostTypes, Host!TypeOK, Ids
<1>2. /\ spent.patches < MaxPatches
      /\ spent' = [spent EXCEPT !.patches = @ + 1]
      /\ sessions' = [sessions EXCEPT ![s].dir = spent.patches + 1]
      /\ writing' = writing \cup
           {[what |-> "session", s |-> s, session |-> sessions'[s], next |-> next]}
  BY DEF Host!Patch, Host!Await, Host!Write
<1>3. spent.patches + 1 \in 0 .. MaxPatches
  BY <1>1, <1>2, Constants
<1>4. sessions[s] \in Host!Session
  BY <1>1
<1>5. [sessions[s] EXCEPT !.dir = spent.patches + 1] \in Host!Session
  BY <1>3, <1>4 DEF Host!Session
<1>6. [sessions[s] EXCEPT !.dir = spent.patches + 1].token = sessions[s].token
  BY <1>4 DEF Host!Session
<1>7. sessions'[s] = [sessions[s] EXCEPT !.dir = spent.patches + 1]
  BY <1>1, <1>2
<1>8. spent' \in [failures : Nat, restarts : Nat, patches : 0 .. MaxPatches] /\ spent'.failures = spent.failures
  BY <1>1, <1>2, <1>3
<1>9. sessions' \in [Ids -> Host!Session \cup {Null}]
  BY <1>1, <1>2, <1>5
<1>10. QED BY <1>1, <1>2, <1>5, <1>6, <1>7, <1>8, <1>9

-----------------------------------------------------------------------------
(* Registry: every step keeps it.                                          *)

\* The server starts with nothing.
LEMMA HostInit == Host!Init => HostInv
<1> SUFFICES ASSUME Host!Init PROVE HostInv OBVIOUS
<1>1. HostTypes
  BY HostsAssumption DEF Host!Init, Host!Nothing, HostTypes, EnvWrite, SessionWrite, Host!TypeOK, Ids, Host!SessionIds, Host!IngressTokens
<1>2. Unused /\ Writes
  BY HostsAssumption DEF Host!Init, Host!Nothing, Unused, Writes, Ids, Host!SessionIds
<1>3. Indexed
  BY HostsAssumption DEF Host!Init, Host!Nothing, Indexed, Ids, Host!SessionIds, Host!IngressTokens
<1>4. QueuedOnce
  BY HostsAssumption DEF Host!Init, Host!Nothing, QueuedOnce, Queued, Ids, Host!SessionIds
<1>5. Written
  BY HostsAssumption DEF Host!Init, Host!Nothing, Written, HasRow, Queued, Host!Accepted, Ids, Host!SessionIds, Host!IngressTokens
<1>6. QED BY <1>1, <1>2, <1>3, <1>4, <1>5 DEF HostInv

\* No session leaves the map or changes its token.
Stays == \A r \in Ids : sessions[r] # Null => sessions'[r] # Null /\ sessions'[r].token = sessions[r].token

\* A write of a session is one.
LEMMA IsSessionWrite ==
    ASSUME NEW s \in Ids, NEW x \in Host!Session, NEW next \in Hosts \cup Keep
    PROVE  [what |-> "session", s |-> s, session |-> x, next |-> next] \in SessionWrite
BY DEF SessionWrite

\* A write is of an environment or of a session.
LEMMA WritingTypes ==
    ASSUME HostTypes, NEW w \in writing
    PROVE  /\ w.what \in {"env", "session"}
           /\ w.what = "env" => w.next \in Hosts /\ w.s = Null
           /\ w.what = "session" => w.s \in Ids /\ w.session \in Host!Session /\ w.next \in Hosts \cup Keep
BY DEF HostTypes, EnvWrite, SessionWrite

\* A token that is in use is one.
LEMMA TokenTypes ==
    ASSUME HostTypes, NEW s \in Ids
    PROVE  /\ sessions[s] # Null => sessions[s] \in Host!Session /\ sessions[s].token \in Ingress
           /\ rows[s] # Null => rows[s] \in Host!Row /\ rows[s].token \in Ingress
           /\ claude[s] # Null => claude[s] \in Ingress \cup {0}
<1>1. sessions[s] \in Host!Session \cup {Null} /\ rows[s] \in Host!Row \cup {Null}
      /\ claude[s] \in Ingress \cup {0, Null}
  BY DEF HostTypes, Host!TypeOK, Ids, Ingress
<1>2. QED BY <1>1 DEF Host!Session, Host!Row, Ingress

\* A session made with a new token is found by it, and no other is.
LEMMA EnterIndexed ==
    ASSUME HostInv, NEW s \in Ids, NEW owner \in Owners, NEW env \in Hosts \cup {Null},
           Host!Enter(s, owner, env), sessions[s] = Null,
           dealt' \in [sessions : 0 .. MaxSessions, tokens : 0 .. MaxIngress, rc : SUBSET Ids],
           dealt'.tokens = dealt.tokens + 1, dealt'.sessions >= dealt.sessions,
           s <= dealt'.sessions, UNCHANGED <<rows, claude, polled>>
    PROVE  Unused' /\ Indexed' /\ Stays
<1> DEFINE n == dealt.tokens + 1
<1>0. n \in Nat /\ dealt.tokens \in Nat
  BY Constants DEF HostInv, HostTypes
<1>1. /\ n \in Nat /\ n \in Ingress /\ dealt.tokens \in Nat
      /\ sessions'[s] \in Host!Session /\ sessions'[s].token = n
      /\ \A r \in Ids \ {s} : sessions'[r] = sessions[r]
      /\ byIngressToken'[n] = s
      /\ \A t \in Ingress \ {n} : byIngressToken'[t] = byIngressToken[t]
  BY EnterFacts DEF HostInv
<1>2. sessions'[s] # Null
  BY <1>1, Constants
<1>3. /\ Ids \subseteq Nat /\ Ingress \subseteq Nat /\ dealt.sessions \in Nat /\ dealt'.sessions \in Nat
  BY Constants DEF HostInv, HostTypes
<1>4. ASSUME NEW r \in Ids, sessions[r] # Null PROVE sessions[r].token \in Nat /\ sessions[r].token < n
  <2>1. sessions[r].token <= dealt.tokens BY <1>4 DEF HostInv, Unused
  <2>2. sessions[r].token \in Ingress BY <1>4, TokenTypes DEF HostInv
  <2>3. QED BY <1>0, <2>1, <2>2, Constants
<1>5. ASSUME NEW r \in Ids, rows[r] # Null PROVE rows[r].token \in Nat /\ rows[r].token < n
  <2>1. rows[r].token <= dealt.tokens BY <1>5 DEF HostInv, Unused
  <2>2. rows[r].token \in Ingress BY <1>5, TokenTypes DEF HostInv
  <2>3. QED BY <1>0, <2>1, <2>2, Constants
<1>6. ASSUME NEW r \in Ids, claude[r] # Null PROVE claude[r] \in Nat /\ claude[r] < n
  <2>1. claude[r] <= dealt.tokens BY <1>6 DEF HostInv, Unused
  <2>2. claude[r] \in Ingress \cup {0} BY <1>6, TokenTypes DEF HostInv
  <2>3. QED BY <1>0, <2>1, <2>2, Constants
<1>7. Unused'
  <2>1. \A r \in Ids : r > dealt'.sessions =>
           sessions'[r] = Null /\ rows[r] = Null /\ claude[r] = Null /\ polled[r] = 0
    <3>1. ASSUME NEW r \in Ids, r > dealt'.sessions PROVE r # s /\ r > dealt.sessions
      BY <1>3, <3>1
    <3>2. QED BY <1>1, <3>1 DEF HostInv, Unused
  <2>2. \A r \in Ids : sessions'[r] # Null => sessions'[r].token <= dealt'.tokens
    BY <1>1, <1>4
  <2>3. QED BY <1>5, <1>6, <2>1, <2>2 DEF Unused
<1>8. Indexed'
  <2>1. ASSUME NEW t \in Ingress, NEW r \in Ids
        PROVE  byIngressToken'[t] = r <=> sessions'[r] # Null /\ sessions'[r].token = t
    <3>1. byIngressToken[t] = r <=> sessions[r] # Null /\ sessions[r].token = t
      BY DEF HostInv, Indexed, Ingress
    <3>2. CASE t = n BY <1>1, <1>2, <1>3, <1>4, <3>2
    <3>3. CASE t # n BY <1>1, <1>2, <1>3, <3>1, <3>3
    <3>4. QED BY <3>2, <3>3
  <2>2. ASSUME NEW q \in Ids, NEW r \in Ids, rows[r] # Null
        PROVE  /\ rows[q] # Null /\ rows[q].token = rows[r].token => q = r
               /\ sessions'[q] # Null /\ sessions'[q].token = rows[r].token => q = r
    <3>1. CASE q = s BY <1>1, <1>5, <2>2, <3>1 DEF HostInv, Indexed
    <3>2. CASE q # s BY <1>1, <2>2, <3>2 DEF HostInv, Indexed
    <3>3. QED BY <3>1, <3>2
  <2>3. QED BY <2>1, <2>2 DEF Indexed, Ingress
<1>9. Stays
  BY <1>1 DEF Stays
<1>10. QED BY <1>7, <1>8, <1>9

\* Queues that nobody touches.
LEMMA QueuesStay ==
    ASSUME QueuedOnce, Stays, UNCHANGED <<envs, polled>>
    PROVE  QueuedOnce'
BY DEF QueuedOnce, Queued, Stays

\* A session is written that no host awaits.
LEMMA WriteAdded ==
    ASSUME HostTypes, Writes, Stays, NEW s \in Ids, NEW next \in Keep, sessions'[s] \in Host!Session,
           writing' = writing \cup
             {[what |-> "session", s |-> s, session |-> sessions'[s], next |-> next]},
           UNCHANGED <<envs, host>>
    PROVE  Writes' /\ writing' \subseteq EnvWrite \cup SessionWrite
<1> DEFINE v == [what |-> "session", s |-> s, session |-> sessions'[s], next |-> next]
<1>1. v \in SessionWrite
  BY IsSessionWrite
<1>2. v.what = "session" /\ v.s = s /\ v.session = sessions'[s] /\ v.next \notin Hosts
  BY Constants
<1>3. sessions'[s] # Null
  BY Constants
<1> HIDE DEF v
<1>4. \A w \in writing : w.what = "session" => w.s \in Ids
  BY WritingTypes
<1>5. writing' = writing \cup {v} /\ writing \subseteq EnvWrite \cup SessionWrite
  BY DEF HostTypes, v
<1>6. \A w \in writing' : w.what = "session" =>
         sessions'[w.s] # Null /\ w.session.token = sessions'[w.s].token
  BY <1>2, <1>3, <1>4, <1>5 DEF Writes, Stays
<1>7. \A w \in writing' : w.next \in Hosts => w \in writing
  BY <1>2, <1>5
<1>8. \A w \in writing' : w.what = "env" => w \in writing
  BY <1>2, <1>5
<1>9. Writes'
  BY <1>6, <1>7, <1>8 DEF Writes
<1>10. QED BY <1>1, <1>5, <1>9

\* Until a write fails: what a step that makes or keeps sessions preserves.
LEMMA WrittenStays ==
    ASSUME HostInv, Stays, UNCHANGED <<pool, rows, envs>>, spent'.failures = spent.failures,
           writing \subseteq writing',
           \A s \in Ids : sessions'[s] # Null /\ sessions[s] = Null =>
              \E w \in writing' : w.what = "session" /\ w.s = s /\ w.next # "moved",
           \A s \in Ids : Host!Accepted(s)' => Host!Accepted(s) \/ rows[s] # Null
    PROVE  Written'
<1> SUFFICES ASSUME pool, spent.failures = 0 PROVE Written'
  BY DEF Written
<1>1. ASSUME NEW s \in Ids, sessions'[s] # Null
      PROVE  HasRow(s)' \/ \E w \in writing' : w.what = "session" /\ w.s = s /\ w.next # "moved"
  <2>1. CASE sessions[s] = Null BY <1>1, <2>1
  <2>2. CASE sessions[s] # Null
    <3>1. HasRow(s) \/ \E w \in writing : w.what = "session" /\ w.s = s /\ w.next # "moved"
      BY <2>2 DEF HostInv, Written
    <3>2. HasRow(s) => HasRow(s)'
      BY <2>2 DEF Stays, HasRow
    <3>3. QED BY <3>1, <3>2
  <2>3. QED BY <2>1, <2>2
<1>2. \A s \in Ids, e \in Hosts : Queued(s, e)' =>
         rows'[s] # Null \/ \E w \in writing' : w.s = s /\ w.next = e
  BY DEF HostInv, Written, Queued
<1>3. \A s \in Ids : Host!Accepted(s)' => rows'[s] # Null
  BY DEF HostInv, Written
<1>4. QED BY <1>1, <1>2, <1>3 DEF Written

\* An id that was not given out is a session's own.
LEMMA NextId ==
    ASSUME HostInv, dealt.sessions + 1 \in Ids
    PROVE  /\ dealt.sessions \in Nat /\ dealt.sessions + 1 \in 0 .. MaxSessions
           /\ sessions[dealt.sessions + 1] = Null /\ rows[dealt.sessions + 1] = Null
           /\ claude[dealt.sessions + 1] = Null /\ polled[dealt.sessions + 1] = 0
<1>1. dealt.sessions \in Nat
  BY Constants DEF HostInv, HostTypes
<1>2. QED BY <1>1, Constants DEF HostInv, Unused

\* After Enter a claude is accepted only if it was before.
LEMMA EnterAccepted ==
    ASSUME HostInv, NEW s \in Ids, NEW owner \in Owners, NEW env \in Hosts \cup {Null},
           Host!Enter(s, owner, env), sessions[s] = Null, UNCHANGED claude
    PROVE  \A r \in Ids : Host!Accepted(r)' => Host!Accepted(r)
<1> SUFFICES ASSUME NEW r \in Ids, Host!Accepted(r)' PROVE Host!Accepted(r)
  OBVIOUS
<1>1. claude[r] \in Ingress /\ byIngressToken'[claude[r]] = r
  BY DEF Host!Accepted, Ingress
<1>2. claude[r] <= dealt.tokens /\ dealt.tokens \in Nat
  BY <1>1, Constants DEF HostInv, HostTypes, Unused
<1>3. claude[r] # dealt.tokens + 1
  BY <1>1, <1>2, Constants
<1>4. byIngressToken'[claude[r]] = byIngressToken[claude[r]]
  BY <1>1, <1>3, EnterFacts DEF HostInv
<1>5. QED BY <1>1, <1>4 DEF Host!Accepted, Ingress

\* POST /v1/code/sessions.
LEMMA CreateKeeps ==
    ASSUME HostInv, NEW a \in Owners, Host!Create(a)
    PROVE  HostInv'
<1> DEFINE s == dealt.sessions + 1
           v == [what |-> "session", s |-> s, session |-> sessions'[s], next |-> "created"]
<1>1. /\ s \in Ids /\ Host!Enter(s, a, Null)
      /\ dealt' = [sessions |-> s, tokens |-> dealt.tokens + 1, rc |-> dealt.rc \cup {s}]
      /\ writing' = writing \cup {v}
      /\ UNCHANGED <<pool, envs, envRows, rows, host, claude, polled, spent>>
  BY DEF Host!Create, Host!Await, Host!Write, Ids
<1>2. s \in 0 .. MaxSessions /\ dealt.sessions \in Nat /\ sessions[s] = Null
  BY <1>1, NextId
<1>3. /\ sessions' \in [Ids -> Host!Session \cup {Null}]
      /\ byIngressToken' \in [Ingress -> Ids \cup {Null}]
      /\ dealt.tokens \in Nat /\ dealt.tokens + 1 \in Ingress
      /\ sessions'[s] \in Host!Session
      /\ \A r \in Ids \ {s} : sessions'[r] = sessions[r]
  BY <1>1, EnterFacts DEF HostInv
<1>4. dealt' \in [sessions : 0 .. MaxSessions, tokens : 0 .. MaxIngress, rc : SUBSET Ids]
      /\ \A r \in dealt'.rc : r <= dealt'.sessions
  <2>1. dealt.tokens + 1 \in 0 .. MaxIngress BY <1>3, Constants
  <2>2. dealt.rc \in SUBSET Ids /\ \A r \in dealt.rc : r <= dealt.sessions BY DEF HostInv, HostTypes
  <2>3. QED BY <1>1, <1>2, <2>1, <2>2, Constants
<1>5. Unused' /\ Indexed' /\ Stays
  BY <1>1, <1>2, <1>4, EnterIndexed
<1>6. v \in SessionWrite /\ v.s = s /\ v.next = "created" /\ v.what = "session"
  BY <1>1, <1>3, IsSessionWrite DEF Keep
<1>7. Writes' /\ writing' \subseteq EnvWrite \cup SessionWrite
  BY <1>1, <1>3, <1>5, WriteAdded DEF HostInv, Keep
<1> HIDE DEF v, s
<1>8. HostTypes'
  BY <1>1, <1>3, <1>4, <1>7 DEF HostInv, HostTypes, Host!TypeOK, Ids, Ingress
<1>9. QueuedOnce'
  BY <1>1, <1>5, QueuesStay DEF HostInv
<1>10. Written'
  BY <1>1, <1>2, <1>3, <1>5, <1>6, EnterAccepted, WrittenStays
<1>11. QED BY <1>5, <1>7, <1>8, <1>9, <1>10 DEF HostInv

\* POST .../bridge of an id that is not in the map.
LEMMA BridgeKeeps ==
    ASSUME HostInv, NEW s \in Ids, NEW a \in Owners, Host!Bridge(s, a)
    PROVE  HostInv'
<1> DEFINE v == [what |-> "session", s |-> s, session |-> sessions'[s], next |-> "bridged"]
<1>1. /\ s \in dealt.rc /\ sessions[s] = Null /\ Host!Enter(s, a, Null)
      /\ dealt' = [dealt EXCEPT !.tokens = @ + 1]
      /\ writing' = writing \cup {v}
      /\ UNCHANGED <<pool, envs, envRows, rows, host, claude, polled, spent>>
  BY DEF Host!Bridge, Host!Unknown, Host!Await, Host!Write
<1>2. /\ sessions' \in [Ids -> Host!Session \cup {Null}]
      /\ byIngressToken' \in [Ingress -> Ids \cup {Null}]
      /\ dealt.tokens \in Nat /\ dealt.tokens + 1 \in Ingress
      /\ sessions'[s] \in Host!Session
      /\ \A r \in Ids \ {s} : sessions'[r] = sessions[r]
  BY <1>1, EnterFacts DEF HostInv
<1>3. /\ dealt' \in [sessions : 0 .. MaxSessions, tokens : 0 .. MaxIngress, rc : SUBSET Ids]
      /\ dealt'.sessions = dealt.sessions /\ dealt'.rc = dealt.rc
      /\ dealt'.tokens = dealt.tokens + 1 /\ s <= dealt.sessions /\ dealt.sessions \in Nat
  <2>1. dealt.tokens + 1 \in 0 .. MaxIngress BY <1>2, Constants
  <2>2. dealt \in [sessions : 0 .. MaxSessions, tokens : 0 .. MaxIngress, rc : SUBSET Ids]
        /\ \A r \in dealt.rc : r <= dealt.sessions BY DEF HostInv, HostTypes
  <2>3. QED BY <1>1, <2>1, <2>2, Constants
<1>4. Unused' /\ Indexed' /\ Stays
  BY <1>1, <1>3, EnterIndexed
<1>5. v \in SessionWrite /\ v.s = s /\ v.next = "bridged" /\ v.what = "session"
  BY <1>2, IsSessionWrite DEF Keep
<1>6. Writes' /\ writing' \subseteq EnvWrite \cup SessionWrite
  BY <1>1, <1>2, <1>4, WriteAdded DEF HostInv, Keep
<1> HIDE DEF v
<1>7. HostTypes'
  BY <1>1, <1>2, <1>3, <1>6 DEF HostInv, HostTypes, Host!TypeOK, Ids, Ingress
<1>8. QueuedOnce'
  BY <1>1, <1>4, QueuesStay DEF HostInv
<1>9. Written'
  BY <1>1, <1>2, <1>4, <1>5, EnterAccepted, WrittenStays
<1>10. QED BY <1>4, <1>6, <1>7, <1>8, <1>9 DEF HostInv

\* The maps have environments.
LEMMA EnvTypes ==
    ASSUME HostTypes, NEW e \in Hosts, envs[e] # Null
    PROVE  /\ envs[e] \in Host!Env /\ envs[e].owner \in Owners
           /\ envs[e].queue \in Seq(Ids) /\ envs[e].inflight \in SUBSET Ids
<1>1. envs[e] \in Host!Env
  BY DEF HostTypes, Host!TypeOK
<1>2. QED BY <1>1 DEF Host!Env, Ids

\* A queue loses its head.
LEMMA QueueTail ==
    ASSUME NEW q \in Seq(Ids), q # <<>>
    PROVE  /\ Head(q) \in Ids /\ Tail(q) \in Seq(Ids) /\ 1 \in DOMAIN q /\ q[1] = Head(q)
           /\ \A i \in DOMAIN Tail(q) : i \in Nat /\ i # 0 /\ i + 1 \in DOMAIN q /\ Tail(q)[i] = q[i + 1]
OBVIOUS

\* nextWork, of the host's environment.
LEMMA PollFacts ==
    ASSUME HostTypes, Host!Poll, NEW e, e = host.env, NEW s, s = Head(envs[e].queue)
    PROVE  /\ ~host.waits /\ e \in Hosts /\ envs[e] # Null /\ s \in Ids
           /\ 1 \in DOMAIN envs[e].queue /\ envs[e].queue[1] = s
           /\ envs' \in [Hosts -> Host!Env \cup {Null}] /\ envs'[e] # Null
           /\ \A i \in DOMAIN envs'[e].queue : /\ i \in Nat /\ i # 0 /\ i + 1 \in DOMAIN envs[e].queue
                                               /\ envs'[e].queue[i] = envs[e].queue[i + 1]
           /\ \A f \in Hosts \ {e} : envs'[f] = envs[f]
<1>1. /\ ~host.waits /\ e # Null /\ envs[e] # Null /\ envs[e].queue # <<>>
      /\ envs' = [envs EXCEPT ![e] = Host!nextWork(envs[e])]
  BY DEF Host!Poll
<1>2. e \in Hosts /\ envs \in [Hosts -> Host!Env \cup {Null}]
  BY <1>1 DEF HostTypes, Host!TypeOK
<1>3. envs[e] \in Host!Env /\ envs[e].queue \in Seq(Ids) /\ envs[e].inflight \in SUBSET Ids
  BY <1>1, <1>2, EnvTypes
<1> DEFINE q == envs[e].queue
           x == [envs[e] EXCEPT !.queue = Tail(q), !.inflight = envs[e].inflight \cup {Head(q)}]
<1>4. /\ s \in Ids /\ Tail(q) \in Seq(Ids) /\ 1 \in DOMAIN q /\ q[1] = s
      /\ \A i \in DOMAIN Tail(q) : i \in Nat /\ i # 0 /\ i + 1 \in DOMAIN q /\ Tail(q)[i] = q[i + 1]
  BY <1>1, <1>3, QueueTail
<1>5. x \in Host!Env /\ x.queue = Tail(q)
  BY <1>3, <1>4 DEF Host!Env, Ids
<1>6. envs' = [envs EXCEPT ![e] = x]
  BY <1>1 DEF Host!nextWork
<1>7. envs'[e] = x /\ \A f \in Hosts \ {e} : envs'[f] = envs[f]
  BY <1>2, <1>6
<1>8. envs' \in [Hosts -> Host!Env \cup {Null}] /\ x # Null
  BY <1>2, <1>5, <1>6, Constants
<1>9. envs'[e].queue = Tail(q)
  BY <1>5, <1>7
<1>10. \A i \in DOMAIN envs'[e].queue : /\ i \in Nat /\ i # 0 /\ i + 1 \in DOMAIN q
                                        /\ envs'[e].queue[i] = q[i + 1]
  BY <1>4, <1>9
<1> HIDE DEF x
<1>11. QED BY <1>1, <1>2, <1>4, <1>7, <1>8, <1>10

\* GET .../work/poll.
LEMMA PollKeeps ==
    ASSUME HostInv, Host!Poll
    PROVE  HostInv'
<1> DEFINE e == host.env
           s == Head(envs[e].queue)
<1>1. /\ ~host.waits /\ e \in Hosts /\ envs[e] # Null /\ s \in Ids
      /\ 1 \in DOMAIN envs[e].queue /\ envs[e].queue[1] = s
      /\ envs' \in [Hosts -> Host!Env \cup {Null}] /\ envs'[e] # Null
      /\ \A i \in DOMAIN envs'[e].queue : /\ i \in Nat /\ i # 0 /\ i + 1 \in DOMAIN envs[e].queue
                                          /\ envs'[e].queue[i] = envs[e].queue[i + 1]
      /\ \A f \in Hosts \ {e} : envs'[f] = envs[f]
  BY PollFacts DEF HostInv
<1>2. /\ claude' = [claude EXCEPT ![s] = sessions[s].token] \/ claude' = claude
      /\ polled' = [polled EXCEPT ![s] = @ + 1]
      /\ UNCHANGED <<pool, sessions, byIngressToken, envRows, rows, writing, host, dealt, spent>>
  BY DEF Host!Poll
<1>3. Queued(s, e) /\ polled[s] = 0 /\ sessions[s] # Null
  BY <1>1 DEF HostInv, QueuedOnce, Queued
<1> HIDE DEF e, s
<1>4. claude \in [Ids -> Ingress \cup {0, Null}] /\ polled \in [Ids -> Nat]
  BY DEF HostInv, HostTypes, Host!TypeOK, Ids, Ingress
<1>5. sessions[s].token \in Ingress /\ sessions[s].token <= dealt.tokens
  BY <1>1, <1>3, TokenTypes DEF HostInv, Unused
<1>6. /\ claude' \in [Ids -> Ingress \cup {0, Null}]
      /\ claude'[s] = sessions[s].token \/ claude'[s] = claude[s]
      /\ \A r \in Ids \ {s} : claude'[r] = claude[r]
  BY <1>1, <1>2, <1>4, <1>5
<1>7. polled' \in [Ids -> Nat] /\ polled'[s] = 1 /\ \A r \in Ids \ {s} : polled'[r] = polled[r]
  BY <1>1, <1>2, <1>3, <1>4
<1>8. HostTypes'
  BY <1>1, <1>2, <1>6, <1>7 DEF HostInv, HostTypes, Host!TypeOK, Ids, Ingress
<1>9. s <= dealt.sessions
  <2>1. dealt.sessions \in Nat BY Constants DEF HostInv, HostTypes
  <2>2. QED BY <1>1, <1>3, <2>1, Constants DEF HostInv, Unused
<1>10. Unused'
  <2>1. \A r \in Ids : claude'[r] # Null => claude'[r] <= dealt.tokens
    BY <1>5, <1>6 DEF HostInv, Unused
  <2>2. dealt.sessions \in Nat BY Constants DEF HostInv, HostTypes
  <2>3. \A r \in Ids : r > dealt.sessions => claude'[r] = Null /\ polled'[r] = 0
    BY <1>6, <1>7, <1>9, <2>2, <1>1, Constants DEF HostInv, Unused
  <2>4. QED BY <1>2, <2>1, <2>3 DEF HostInv, Unused
<1>11. Indexed'
  BY <1>2 DEF HostInv, Indexed
<1>12. ASSUME NEW r \in Ids, NEW f \in Hosts, Queued(r, f)'
       PROVE  Queued(r, f) /\ r # s
  <2>1. CASE f = e
    <3>1. PICK i \in DOMAIN envs'[e].queue : envs'[e].queue[i] = r
      BY <1>12, <2>1 DEF Queued
    <3>2. /\ i \in Nat /\ i # 0 /\ i + 1 \in DOMAIN envs[e].queue
          /\ envs[e].queue[i + 1] = r
      BY <1>1, <3>1
    <3>3. r # s
      BY <1>1, <3>2 DEF HostInv, QueuedOnce
    <3>4. QED BY <1>1, <2>1, <3>2, <3>3 DEF Queued
  <2>2. CASE f # e
    <3>1. Queued(r, f) BY <1>1, <1>12, <2>2 DEF Queued
    <3>2. QED BY <1>1, <1>3, <2>2, <3>1 DEF HostInv, QueuedOnce
  <2>3. QED BY <2>1, <2>2
<1>13. QueuedOnce'
  <2>1. \A r \in Ids, f \in Hosts : Queued(r, f)' => polled'[r] = 0 /\ sessions'[r] # Null
    BY <1>2, <1>7, <1>12 DEF HostInv, QueuedOnce
  <2>2. \A r \in Ids, f, g \in Hosts : Queued(r, f)' /\ Queued(r, g)' => f = g
    BY <1>12 DEF HostInv, QueuedOnce
  <2>3. ASSUME NEW f \in Hosts, envs'[f] # Null, NEW i \in DOMAIN envs'[f].queue,
               NEW j \in DOMAIN envs'[f].queue, envs'[f].queue[i] = envs'[f].queue[j]
        PROVE  i = j
    <3>1. CASE f = e
      <4>1. /\ i + 1 \in DOMAIN envs[e].queue /\ j + 1 \in DOMAIN envs[e].queue
            /\ envs[e].queue[i + 1] = envs[e].queue[j + 1] /\ i \in Nat /\ j \in Nat
        BY <1>1, <2>3, <3>1
      <4>2. i + 1 = j + 1 BY <1>1, <4>1 DEF HostInv, QueuedOnce
      <4>3. QED BY <4>1, <4>2
    <3>2. CASE f # e BY <1>1, <2>3, <3>2 DEF HostInv, QueuedOnce
    <3>3. QED BY <3>1, <3>2
  <2>4. \A r \in Ids : polled'[r] <= 1
    BY <1>7 DEF HostInv, QueuedOnce
  <2>5. QED BY <2>1, <2>2, <2>3, <2>4 DEF QueuedOnce
<1>14. Writes'
  BY <1>1, <1>2, WritingTypes DEF HostInv, Writes
<1>15. Written'
  <2> SUFFICES ASSUME pool, spent.failures = 0 PROVE Written'
    BY <1>2 DEF Written
  <2>1. \A w \in writing : w.next \notin Hosts
    BY <1>1 DEF HostInv, Writes
  <2>2. \A r \in Ids, f \in Hosts : Queued(r, f) => rows[r] # Null
    BY <2>1 DEF HostInv, Written
  <2>3. \A r \in Ids : Host!Accepted(r)' => rows[r] # Null
    BY <1>1, <1>2, <1>3, <1>6, <2>2 DEF HostInv, Written, Host!Accepted
  <2>4. \A r \in Ids : sessions'[r] # Null => HasRow(r)' \/
            \E w \in writing' : w.what = "session" /\ w.s = r /\ w.next # "moved"
    BY <1>2 DEF HostInv, Written, HasRow
  <2>5. QED BY <1>2, <1>12, <2>2, <2>3, <2>4 DEF Written
<1>16. QED BY <1>8, <1>10, <1>11, <1>13, <1>14, <1>15 DEF HostInv

\* POST .../ack.
LEMMA AckKeeps ==
    ASSUME HostInv, NEW s \in Ids, Host!Ack(s)
    PROVE  HostInv'
<1> DEFINE e == host.env
           x == [envs[e] EXCEPT !.inflight = @ \ {s}]
<1>1. /\ e # Null /\ envs[e] # Null /\ envs' = [envs EXCEPT ![e] = x]
      /\ UNCHANGED <<pool, sessions, byIngressToken, envRows, rows, writing, host, claude,
                     polled, dealt, spent>>
  BY DEF Host!Ack
<1>2. e \in Hosts /\ envs \in [Hosts -> Host!Env \cup {Null}]
  BY <1>1 DEF HostInv, HostTypes, Host!TypeOK
<1>3. envs[e] \in Host!Env /\ envs[e].inflight \in SUBSET Ids
  BY <1>1, <1>2, EnvTypes DEF HostInv
<1>4. x \in Host!Env /\ x.queue = envs[e].queue
  BY <1>3 DEF Host!Env, Ids
<1> HIDE DEF e, x
<1>5. /\ envs' \in [Hosts -> Host!Env \cup {Null}]
      /\ \A f \in Hosts : /\ envs'[f] = Null <=> envs[f] = Null
                          /\ envs[f] # Null => envs'[f].queue = envs[f].queue
  BY <1>1, <1>2, <1>4, Constants
<1>6. HostTypes'
  BY <1>1, <1>5 DEF HostInv, HostTypes, Host!TypeOK
<1>7. Unused' /\ Indexed'
  BY <1>1 DEF HostInv, Unused, Indexed
<1>8. \A r \in Ids, f \in Hosts : Queued(r, f)' <=> Queued(r, f)
  BY <1>5 DEF Queued
<1>9. QueuedOnce'
  <2>1. \A f \in Hosts : envs'[f] # Null => \A i, j \in DOMAIN envs'[f].queue :
            envs'[f].queue[i] = envs'[f].queue[j] => i = j
    BY <1>5 DEF HostInv, QueuedOnce
  <2>2. QED BY <1>1, <1>8, <2>1 DEF HostInv, QueuedOnce
<1>10. Writes'
  BY <1>1, <1>2, <1>5, WritingTypes DEF HostInv, Writes
<1>11. Written'
  BY <1>1, <1>8 DEF HostInv, Written, HasRow, Host!Accepted
<1>12. QED BY <1>6, <1>7, <1>9, <1>10, <1>11 DEF HostInv

\* A queue gets one more.
LEMMA QueueAppend ==
    ASSUME NEW q \in Seq(Ids), NEW s \in Ids
    PROVE  /\ Append(q, s) \in Seq(Ids)
           /\ \A i \in DOMAIN Append(q, s) :
                 \/ i \in DOMAIN q /\ Append(q, s)[i] = q[i]
                 \/ i = Len(q) + 1 /\ Append(q, s)[i] = s
OBVIOUS

\* POST /v1/environments/bridge.
LEMMA RegisterKeeps ==
    ASSUME HostInv, NEW a \in Owners, NEW e \in Hosts, Host!Register(a, e)
    PROVE  HostInv'
<1> DEFINE x == [owner |-> a, queue |-> <<>>, inflight |-> {}]
           v == [what |-> "env", s |-> Null, session |-> Null, next |-> e]
<1>1. /\ ~host.waits /\ envs' = [envs EXCEPT ![e] = x] /\ writing' = writing \cup {v}
      /\ host' = [host EXCEPT !.waits = TRUE]
      /\ UNCHANGED <<pool, sessions, byIngressToken, envRows, rows, claude, polled, dealt, spent>>
  BY DEF Host!Register, Host!createEnv, Host!Await, Host!Write
<1>2. x \in Host!Env /\ DOMAIN x.queue = {}
  BY DEF Host!Env
<1>3. v \in EnvWrite /\ v.what = "env" /\ v.next = e
  BY DEF EnvWrite
<1> HIDE DEF x, v
<1>4. /\ envs' \in [Hosts -> Host!Env \cup {Null}] /\ envs'[e] = x /\ x # Null
      /\ \A f \in Hosts \ {e} : envs'[f] = envs[f]
  BY <1>1, <1>2, Constants DEF HostInv, HostTypes, Host!TypeOK
<1>5. host' \in [env : Hosts \cup {Null}, waits : BOOLEAN] /\ host'.waits
  BY <1>1 DEF HostInv, HostTypes
<1>6. HostTypes'
  BY <1>1, <1>3, <1>4, <1>5 DEF HostInv, HostTypes, Host!TypeOK
<1>7. Unused' /\ Indexed'
  BY <1>1 DEF HostInv, Unused, Indexed
<1>8. \A r \in Ids, f \in Hosts : Queued(r, f)' => Queued(r, f)
  BY <1>2, <1>4 DEF Queued
<1>9. QueuedOnce'
  <2>1. \A f \in Hosts : envs'[f] # Null => \A i, j \in DOMAIN envs'[f].queue :
            envs'[f].queue[i] = envs'[f].queue[j] => i = j
    BY <1>2, <1>4 DEF HostInv, QueuedOnce
  <2>2. QED BY <1>1, <1>8, <2>1 DEF HostInv, QueuedOnce
<1>10. Writes'
  <2>1. \A w \in writing : w.next \notin Hosts
    BY <1>1 DEF HostInv, Writes
  <2>2. \A w \in writing : w.what # "env"
    BY <2>1, WritingTypes DEF HostInv
  <2>3. QED BY <1>1, <1>3, <1>4, <1>5, <2>1, <2>2 DEF HostInv, Writes
<1>11. Written'
  BY <1>1, <1>8 DEF HostInv, Written, HasRow, Host!Accepted
<1>12. QED BY <1>6, <1>7, <1>9, <1>10, <1>11 DEF HostInv

\* pushSessionWork, once the environment is written.
LEMMA EnvWrittenFacts ==
    ASSUME HostInv, NEW w \in writing, Host!EnvWritten(w), NEW e, e = w.next,
           NEW s, s = dealt.sessions + 1
    PROVE  /\ w.what = "env" /\ e \in Hosts /\ envs[e] # Null /\ s \in Ids
           /\ envRows' \in [Hosts -> Owners \cup {Null}]
           /\ envs' \in [Hosts -> Host!Env \cup {Null}] /\ envs'[e] # Null
           /\ \A i \in DOMAIN envs'[e].queue :
                 \/ i \in DOMAIN envs[e].queue /\ envs'[e].queue[i] = envs[e].queue[i]
                 \/ i = Len(envs[e].queue) + 1 /\ envs'[e].queue[i] = s
           /\ \A f \in Hosts \ {e} : envs'[f] = envs[f]
           /\ Host!Enter(s, envs[e].owner, e) /\ envs[e].owner \in Owners
<1> DEFINE q == envs[e].queue
           x == [envs[e] EXCEPT !.queue = Append(q, s)]
<1>1. w.what = "env" /\ e \in Hosts /\ envs[e] # Null
  BY WritingTypes DEF HostInv, Writes, Host!EnvWritten
<1>2. /\ envs' = [envs EXCEPT ![e] = x] /\ s \in Ids /\ Host!Enter(s, envs[e].owner, e)
      /\ envRows' = IF pool THEN [envRows EXCEPT ![e] = envs[e].owner] ELSE envRows
  BY DEF Host!EnvWritten, Ids
<1>3. envs[e] \in Host!Env /\ q \in Seq(Ids) /\ envs[e].owner \in Owners
  BY <1>1, EnvTypes DEF HostInv
<1>4. x \in Host!Env /\ x.queue = Append(q, s)
  BY <1>2, <1>3, QueueAppend DEF Host!Env, Ids
<1>5. \A i \in DOMAIN Append(q, s) : \/ i \in DOMAIN q /\ Append(q, s)[i] = q[i]
                                     \/ i = Len(q) + 1 /\ Append(q, s)[i] = s
  BY <1>2, <1>3, QueueAppend
<1> HIDE DEF x
<1>6. /\ envs' \in [Hosts -> Host!Env \cup {Null}] /\ envs'[e] = x /\ x # Null
      /\ \A f \in Hosts \ {e} : envs'[f] = envs[f]
  BY <1>1, <1>2, <1>4, Constants DEF HostInv, HostTypes, Host!TypeOK
<1>7. envRows' \in [Hosts -> Owners \cup {Null}]
  BY <1>1, <1>2, <1>3 DEF HostInv, HostTypes, Host!TypeOK
<1>8. QED BY <1>1, <1>2, <1>3, <1>4, <1>5, <1>6, <1>7, SMTT(20)

\* The first work of an environment enters its queue before its row is written.
LEMMA EnvWrittenKeeps ==
    ASSUME HostInv, NEW w \in writing, Host!EnvWritten(w)
    PROVE  HostInv'
<1> DEFINE e == w.next
           s == dealt.sessions + 1
           v == [what |-> "session", s |-> s, session |-> sessions'[s], next |-> e]
<1>1. /\ w.what = "env" /\ e \in Hosts /\ envs[e] # Null /\ s \in Ids
      /\ envRows' \in [Hosts -> Owners \cup {Null}]
      /\ envs' \in [Hosts -> Host!Env \cup {Null}] /\ envs'[e] # Null
      /\ \A i \in DOMAIN envs'[e].queue :
            \/ i \in DOMAIN envs[e].queue /\ envs'[e].queue[i] = envs[e].queue[i]
            \/ i = Len(envs[e].queue) + 1 /\ envs'[e].queue[i] = s
      /\ \A f \in Hosts \ {e} : envs'[f] = envs[f]
      /\ Host!Enter(s, envs[e].owner, e) /\ envs[e].owner \in Owners
  BY EnvWrittenFacts
<1>2. /\ dealt' = [dealt EXCEPT !.sessions = s, !.tokens = @ + 1]
      /\ writing' = (writing \ {w}) \cup {v}
      /\ UNCHANGED <<pool, rows, host, claude, polled, spent>>
  BY DEF Host!EnvWritten, Host!Write
<1>3. /\ s \in 0 .. MaxSessions /\ dealt.sessions \in Nat /\ sessions[s] = Null
      /\ rows[s] = Null /\ claude[s] = Null /\ polled[s] = 0
  BY <1>1, NextId
<1>4. /\ sessions' \in [Ids -> Host!Session \cup {Null}]
      /\ byIngressToken' \in [Ingress -> Ids \cup {Null}]
      /\ dealt.tokens \in Nat /\ dealt.tokens + 1 \in Ingress
      /\ sessions'[s] \in Host!Session
      /\ \A r \in Ids \ {s} : sessions'[r] = sessions[r]
  BY <1>1, EnterFacts DEF HostInv
<1>5. /\ dealt' \in [sessions : 0 .. MaxSessions, tokens : 0 .. MaxIngress, rc : SUBSET Ids]
      /\ dealt'.sessions = s /\ dealt'.tokens = dealt.tokens + 1
      /\ \A r \in dealt'.rc : r <= dealt'.sessions
  <2>1. dealt.tokens + 1 \in 0 .. MaxIngress BY <1>4, Constants
  <2>2. dealt \in [sessions : 0 .. MaxSessions, tokens : 0 .. MaxIngress, rc : SUBSET Ids]
        /\ \A r \in dealt.rc : r <= dealt.sessions BY DEF HostInv, HostTypes
  <2>3. dealt' \in [sessions : 0 .. MaxSessions, tokens : 0 .. MaxIngress, rc : SUBSET Ids]
        /\ dealt'.sessions = s /\ dealt'.tokens = dealt.tokens + 1 /\ dealt'.rc = dealt.rc
    BY <1>2, <1>3, <2>1, <2>2
  <2>4. \A r \in dealt.rc : r \in Nat /\ r <= dealt.sessions
    BY <2>2, Constants
  <2>5. QED BY <1>3, <2>3, <2>4
<1>6. Unused' /\ Indexed' /\ Stays
  BY <1>1, <1>2, <1>3, <1>5, EnterIndexed
<1>7. v \in SessionWrite /\ v.s = s /\ v.session = sessions'[s] /\ v.next = e /\ v.what = "session"
  BY <1>1, <1>4, IsSessionWrite
<1>8. s \in Nat /\ sessions'[s] # Null
  BY <1>1, <1>4, Constants
<1> HIDE DEF v, s, e
<1>9. HostTypes'
  BY <1>1, <1>2, <1>4, <1>5, <1>7 DEF HostInv, HostTypes, Host!TypeOK, Ids, Ingress
<1>10. \A r \in Ids, f \in Hosts : Queued(r, f)' => Queued(r, f) \/ (r = s /\ f = e)
  BY <1>1 DEF Queued
<1>11. \A f \in Hosts : ~Queued(s, f)
  BY <1>1, <1>3 DEF HostInv, QueuedOnce
<1>12. QueuedOnce'
  <2>1. \A r \in Ids, f \in Hosts : Queued(r, f)' => polled'[r] = 0 /\ sessions'[r] # Null
    BY <1>2, <1>3, <1>6, <1>8, <1>10 DEF HostInv, QueuedOnce, Stays
  <2>2. \A r \in Ids, f, g \in Hosts : Queued(r, f)' /\ Queued(r, g)' => f = g
    BY <1>10, <1>11 DEF HostInv, QueuedOnce
  <2>3. ASSUME NEW f \in Hosts, envs'[f] # Null, NEW i \in DOMAIN envs'[f].queue,
               NEW j \in DOMAIN envs'[f].queue, envs'[f].queue[i] = envs'[f].queue[j]
        PROVE  i = j
    <3>1. CASE f = e
      <4>1. \A k \in DOMAIN envs[e].queue : envs[e].queue[k] # s
        BY <1>1, <1>11 DEF Queued
      <4>2. QED BY <1>1, <2>3, <3>1, <4>1 DEF HostInv, QueuedOnce
    <3>2. CASE f # e BY <1>1, <2>3, <3>2 DEF HostInv, QueuedOnce
    <3>3. QED BY <3>1, <3>2
  <2>4. \A r \in Ids : polled'[r] <= 1
    BY <1>2 DEF HostInv, QueuedOnce
  <2>5. QED BY <2>1, <2>2, <2>3, <2>4 DEF QueuedOnce
<1>13. \A u \in writing : u.next \in Hosts => u = w
  BY <1>1 DEF HostInv, Writes, e
<1>14. Writes'
  <2>1. host.waits
    BY <1>1 DEF HostInv, Writes, e
  <2>2. ASSUME NEW u \in writing', u.what = "session"
        PROVE  sessions'[u.s] # Null /\ u.session.token = sessions'[u.s].token
    <3>1. CASE u = v BY <1>7, <1>8, <3>1
    <3>2. CASE u # v
      <4>1. u \in writing /\ u.s \in Ids BY <1>2, <2>2, <3>2, WritingTypes DEF HostInv
      <4>2. sessions[u.s] # Null /\ u.session.token = sessions[u.s].token
        BY <2>2, <4>1 DEF HostInv, Writes
      <4>3. QED BY <1>6, <4>1, <4>2 DEF Stays
    <3>3. QED BY <3>1, <3>2
  <2>3. \A u \in writing' : u.next \in Hosts => u = v
    BY <1>2, <1>13
  <2>4. \A u \in writing' : u.what # "env"
    <3>1. \A u \in writing : u.what = "env" => u = w BY <1>13, WritingTypes DEF HostInv
    <3>2. QED BY <1>2, <1>7, <3>1
  <2>5. QED BY <1>2, <2>1, <2>2, <2>3, <2>4 DEF Writes
<1>15. Written'
  <2> SUFFICES ASSUME pool, spent.failures = 0 PROVE Written'
    BY <1>2 DEF Written
  <2>1. ASSUME NEW r \in Ids, sessions'[r] # Null
        PROVE  HasRow(r)' \/ \E u \in writing' : u.what = "session" /\ u.s = r /\ u.next # "moved"
    <3>1. CASE r = s
      <4>1. v \in writing' /\ v.next # "moved" BY <1>1, <1>2, <1>7, Constants DEF Keep
      <4>2. QED BY <1>7, <3>1, <4>1
    <3>2. CASE r # s
      <4>1. sessions[r] # Null BY <1>4, <2>1, <3>2
      <4>2. HasRow(r) \/ \E u \in writing : u.what = "session" /\ u.s = r /\ u.next # "moved"
        BY <4>1 DEF HostInv, Written
      <4>3. HasRow(r) => HasRow(r)' BY <1>2, <1>6, <4>1 DEF HasRow, Stays
      <4>4. QED BY <1>1, <1>2, <4>2, <4>3
    <3>3. QED BY <3>1, <3>2
  <2>2. ASSUME NEW r \in Ids, NEW f \in Hosts, Queued(r, f)'
        PROVE  rows'[r] # Null \/ \E u \in writing' : u.s = r /\ u.next = f
    <3>1. CASE r = s /\ f = e
      <4>1. v \in writing' BY <1>2
      <4>2. QED BY <1>7, <3>1, <4>1
    <3>2. CASE ~(r = s /\ f = e)
      <4>1. Queued(r, f) BY <1>10, <2>2, <3>2
      <4>2. rows[r] # Null \/ \E u \in writing : u.s = r /\ u.next = f
        BY <4>1 DEF HostInv, Written
      <4>3. w.s \notin Ids BY <1>1, WritingTypes, Constants DEF HostInv
      <4>4. QED BY <1>2, <4>2, <4>3
    <3>3. QED BY <3>1, <3>2
  <2>3. \A r \in Ids : Host!Accepted(r)' => rows'[r] # Null
    <3>1. \A r \in Ids : Host!Accepted(r)' => Host!Accepted(r)
      BY <1>1, <1>2, <1>3, EnterAccepted
    <3>2. QED BY <1>2, <3>1 DEF HostInv, Written
  <2>4. QED BY <2>1, <2>2, <2>3 DEF Written
<1>16. QED BY <1>6, <1>9, <1>12, <1>14, <1>15 DEF HostInv

\* After a session is said to be elsewhere, what knows of it knows it still.
LEMMA PatchKeeps ==
    ASSUME HostInv, NEW s \in Ids, NEW next \in Keep, sessions[s] # Null, Host!Patch(s, next),
           UNCHANGED <<pool, envs, byIngressToken, envRows, rows, host, claude, polled, dealt>>
    PROVE  HostInv'
<1> DEFINE v == [what |-> "session", s |-> s, session |-> sessions'[s], next |-> next]
<1>1. /\ sessions' \in [Ids -> Host!Session \cup {Null}]
      /\ sessions'[s] \in Host!Session /\ sessions'[s].token = sessions[s].token
      /\ \A r \in Ids \ {s} : sessions'[r] = sessions[r]
      /\ spent' \in [failures : Nat, restarts : Nat, patches : 0 .. MaxPatches]
      /\ spent'.failures = spent.failures
      /\ writing' = writing \cup {v}
  BY PatchFacts DEF HostInv
<1>2. sessions'[s] # Null
  BY <1>1, Constants
<1>3. /\ \A r \in Ids : sessions'[r] = Null <=> sessions[r] = Null
      /\ \A r \in Ids : sessions[r] # Null => sessions'[r].token = sessions[r].token
  BY <1>1, <1>2
<1>4. Stays
  BY <1>3 DEF Stays
<1>5. Writes' /\ writing' \subseteq EnvWrite \cup SessionWrite
  BY <1>1, <1>4, WriteAdded DEF HostInv
<1> HIDE DEF v
<1>6. HostTypes'
  BY <1>1, <1>5 DEF HostInv, HostTypes, Host!TypeOK, Ids
<1>7. Unused'
  <2>1. \A r \in Ids : sessions'[r] # Null => sessions'[r].token <= dealt.tokens
    BY <1>3 DEF HostInv, Unused
  <2>2. QED BY <1>3, <2>1 DEF HostInv, Unused
<1>8. Indexed'
  <2>1. \A t \in Ingress, r \in Ids : byIngressToken[t] = r <=> sessions'[r] # Null /\ sessions'[r].token = t
    BY <1>3 DEF HostInv, Indexed, Ingress
  <2>2. \A q, r \in Ids :
           rows[r] # Null /\ sessions'[q] # Null /\ sessions'[q].token = rows[r].token => q = r
    BY <1>3 DEF HostInv, Indexed
  <2>3. QED BY <2>1, <2>2 DEF HostInv, Indexed, Ingress
<1>9. QueuedOnce'
  BY <1>4, QueuesStay DEF HostInv
<1>10. Written'
  BY <1>1, <1>3, <1>4, WrittenStays DEF Host!Accepted
<1>11. QED BY <1>5, <1>6, <1>7, <1>8, <1>9, <1>10 DEF HostInv

\* POST .../worker/events with a new directory.
LEMMA MovedKeeps ==
    ASSUME HostInv, NEW s \in Ids, Host!Moved(s)
    PROVE  HostInv'
<1>1. /\ Host!Accepted(s) /\ Host!Patch(s, "moved")
      /\ UNCHANGED <<pool, envs, byIngressToken, envRows, rows, host, claude, polled, dealt>>
  BY DEF Host!Moved
<1>2. sessions[s] # Null
  BY <1>1 DEF Host!Accepted, HostInv, Indexed
<1>3. "moved" \in Keep
  BY DEF Keep
<1>4. QED BY <1>1, <1>2, <1>3, PatchKeeps

\* A claude is told the token of its session.
LEMMA AnswerKeeps ==
    ASSUME HostInv, NEW s \in Ids, sessions[s] # Null, Host!Answer(s), s <= dealt.sessions
    PROVE  /\ claude' \in [Ids -> Ingress \cup {0, Null}]
           /\ \A r \in Ids : claude'[r] # Null => claude'[r] <= dealt.tokens
           /\ \A r \in Ids : r > dealt.sessions => claude'[r] = Null
           /\ \A r \in Ids \ {s} : claude'[r] = claude[r]
<1>1. claude' = [claude EXCEPT ![s] = sessions[s].token]
  BY DEF Host!Answer
<1>2. sessions[s].token \in Ingress /\ sessions[s].token <= dealt.tokens
  BY TokenTypes DEF HostInv, Unused
<1>3. claude \in [Ids -> Ingress \cup {0, Null}]
  BY DEF HostInv, HostTypes, Host!TypeOK, Ids, Ingress
<1>4. /\ claude'[s] = sessions[s].token /\ \A r \in Ids \ {s} : claude'[r] = claude[r]
      /\ claude' \in [Ids -> Ingress \cup {0, Null}]
  BY <1>1, <1>2, <1>3
<1>5. dealt.sessions \in Nat
  BY Constants DEF HostInv, HostTypes
<1>6. QED BY <1>2, <1>4, <1>5, Constants DEF HostInv, Unused

\* A session in the map was given out.
LEMMA InMap ==
    ASSUME HostInv, NEW s \in Ids, sessions[s] # Null
    PROVE  s <= dealt.sessions
<1>1. dealt.sessions \in Nat
  BY Constants DEF HostInv, HostTypes
<1>2. QED BY <1>1, Constants DEF HostInv, Unused

\* POST .../bridge of a session that is in the map.
LEMMA BridgeKnownKeeps ==
    ASSUME HostInv, NEW s \in Ids, Host!BridgeKnown(s)
    PROVE  HostInv'
<1>1. /\ sessions[s] # Null /\ \A w \in writing : w.s = s => w.next = "moved"
      /\ UNCHANGED <<pool, envs, byIngressToken, envRows, rows, host, polled, dealt>>
  BY DEF Host!BridgeKnown, Host!Unknown
<1>2. CASE UNCHANGED claude /\ Host!Patch(s, "bridged")
  BY <1>1, <1>2, PatchKeeps DEF Keep
<1>3. CASE Host!Answer(s) /\ UNCHANGED <<sessions, writing, spent>>
  <2>1. /\ claude' \in [Ids -> Ingress \cup {0, Null}]
        /\ \A r \in Ids : claude'[r] # Null => claude'[r] <= dealt.tokens
        /\ \A r \in Ids : r > dealt.sessions => claude'[r] = Null
        /\ \A r \in Ids \ {s} : claude'[r] = claude[r]
    BY <1>1, <1>3, InMap, AnswerKeeps
  <2>2. HostTypes'
    BY <1>1, <1>3, <2>1 DEF HostInv, HostTypes, Host!TypeOK, Ids, Ingress
  <2>3. Unused'
    BY <1>1, <1>3, <2>1 DEF HostInv, Unused
  <2>4. Indexed' /\ Writes'
    BY <1>1, <1>3 DEF HostInv, Indexed, Writes
  <2>5. QueuedOnce'
    BY <1>1, <1>3 DEF HostInv, QueuedOnce, Queued
  <2>6. Written'
    <3> SUFFICES ASSUME pool, spent.failures = 0 PROVE Written'
      BY <1>1, <1>3 DEF Written
    <3>1. rows[s] # Null
      BY <1>1 DEF HostInv, Written, HasRow
    <3>2. \A r \in Ids : Host!Accepted(r)' => rows[r] # Null
      BY <1>1, <2>1, <3>1 DEF HostInv, Written, Host!Accepted
    <3>3. QED BY <1>1, <1>3, <3>2 DEF HostInv, Written, HasRow, Queued
  <2>7. QED BY <2>2, <2>3, <2>4, <2>5, <2>6 DEF HostInv
<1>4. QED BY <1>2, <1>3 DEF Host!BridgeKnown

\* The time of the last activity of a row changes.
LEMMA RecentKeeps ==
    ASSUME HostInv, NEW s \in Ids, rows[s] # Null, NEW b \in BOOLEAN,
           rows' = [rows EXCEPT ![s].recent = b],
           UNCHANGED <<pool, envs, sessions, byIngressToken, envRows, writing, host, claude,
                       polled, dealt, spent>>
    PROVE  HostInv'
<1> DEFINE x == [rows[s] EXCEPT !.recent = b]
<1>1. rows \in [Ids -> Host!Row \cup {Null}] /\ rows[s] \in Host!Row
  BY DEF HostInv, HostTypes, Host!TypeOK, Ids
<1>2. x \in Host!Row /\ x.token = rows[s].token
  BY <1>1 DEF Host!Row
<1>3. rows' = [rows EXCEPT ![s] = x]
  OBVIOUS
<1> HIDE DEF x
<1>4. /\ rows' \in [Ids -> Host!Row \cup {Null}]
      /\ \A r \in Ids : rows'[r] = Null <=> rows[r] = Null
      /\ \A r \in Ids : rows[r] # Null => rows'[r].token = rows[r].token
  BY <1>1, <1>2, <1>3, Constants
<1>5. HostTypes'
  BY <1>4 DEF HostInv, HostTypes, Host!TypeOK, Ids
<1>6. Unused'
  BY <1>4 DEF HostInv, Unused
<1>7. Indexed'
  <2>1. ASSUME NEW q \in Ids, NEW r \in Ids, rows'[r] # Null
        PROVE  /\ rows'[q] # Null /\ rows'[q].token = rows'[r].token => q = r
               /\ sessions[q] # Null /\ sessions[q].token = rows'[r].token => q = r
    BY <1>4, <2>1 DEF HostInv, Indexed
  <2>2. QED BY <2>1 DEF HostInv, Indexed
<1>8. QueuedOnce'
  BY DEF HostInv, QueuedOnce, Queued
<1>9. Writes'
  BY DEF HostInv, Writes
<1>10. Written'
  BY <1>4 DEF HostInv, Written, HasRow, Queued, Host!Accepted
<1>11. QED BY <1>5, <1>6, <1>7, <1>8, <1>9, <1>10 DEF HostInv

\* The flush timer writes the time of the last activity.
LEMMA FlushKeeps ==
    ASSUME HostInv, NEW s \in Ids, Host!flushActivity(s)
    PROVE  HostInv'
BY RecentKeeps DEF Host!flushActivity

\* A row falls out of the load window.
LEMMA AgeKeeps ==
    ASSUME HostInv, NEW s \in Ids, Host!Age(s)
    PROVE  HostInv'
BY RecentKeeps DEF Host!Age

\* The write of a session is done: what its row, and what its claude, hold.
LEMMA SessionWrittenFacts ==
    ASSUME HostInv, NEW w \in writing, Host!SessionWritten(w), NEW s, s = w.s
    PROVE  /\ w.what = "session" /\ s \in Ids /\ w.next \in Hosts \cup Keep /\ sessions[s] # Null
           /\ rows' \in [Ids -> Host!Row \cup {Null}]
           /\ \A r \in Ids \ {s} : rows'[r] = rows[r]
           /\ pool => rows'[s] # Null
           /\ rows'[s] # Null => rows'[s].token = sessions[s].token \/ rows' = rows
           /\ ~pool => rows' = rows
           /\ pool => rows'[s].token = sessions[s].token
           /\ claude' \in [Ids -> Ingress \cup {0, Null}]
           /\ \A r \in Ids \ {s} : claude'[r] = claude[r]
           /\ \A r \in Ids : claude'[r] # Null => claude'[r] <= dealt.tokens
           /\ \A r \in Ids : r > dealt.sessions => claude'[r] = Null
<1>1. /\ w.what = "session" /\ rows' = IF pool THEN [rows EXCEPT ![s] = Host!RowOf(w.session)] ELSE rows
      /\ Host!Answered(w)
  BY DEF Host!SessionWritten, Host!upsertSession
<1>2. /\ s \in Ids /\ w.session \in Host!Session /\ w.next \in Hosts \cup Keep
      /\ sessions[s] # Null /\ w.session.token = sessions[s].token
  BY <1>1, WritingTypes DEF HostInv, Writes
<1> DEFINE x == Host!RowOf(w.session)
<1>3. x \in Host!Row /\ x.token = sessions[s].token
  BY <1>2 DEF Host!RowOf, Host!Row, Host!Session
<1>4. rows \in [Ids -> Host!Row \cup {Null}] /\ claude \in [Ids -> Ingress \cup {0, Null}]
  BY DEF HostInv, HostTypes, Host!TypeOK, Ids, Ingress
<1> HIDE DEF x
<1>5. rows' = IF pool THEN [rows EXCEPT ![s] = x] ELSE rows
  BY <1>1 DEF x
<1>6. /\ rows' \in [Ids -> Host!Row \cup {Null}]
      /\ \A r \in Ids \ {s} : rows'[r] = rows[r]
      /\ pool => rows'[s] # Null
      /\ rows'[s] # Null => rows'[s].token = sessions[s].token \/ rows' = rows
      /\ ~pool => rows' = rows
      /\ pool => rows'[s].token = sessions[s].token
  BY <1>2, <1>3, <1>4, <1>5, Constants
<1>7. s <= dealt.sessions
  BY <1>2, InMap
<1>8. /\ claude' \in [Ids -> Ingress \cup {0, Null}]
      /\ \A r \in Ids \ {s} : claude'[r] = claude[r]
      /\ \A r \in Ids : claude'[r] # Null => claude'[r] <= dealt.tokens
      /\ \A r \in Ids : r > dealt.sessions => claude'[r] = Null
  <2>1. CASE claude' = claude
    BY <1>4, <2>1 DEF HostInv, Unused
  <2>2. CASE Host!Answer(s)
    BY <1>2, <1>7, <2>2, AnswerKeeps
  <2>3. CASE claude' = [claude EXCEPT ![s] = 0]
    <3>1. dealt.sessions \in Nat /\ dealt.tokens \in Nat BY Constants DEF HostInv, HostTypes
    <3>2. claude'[s] = 0 /\ \A r \in Ids \ {s} : claude'[r] = claude[r] BY <1>2, <1>4, <2>3
    <3>3. 0 <= dealt.tokens /\ ~(s > dealt.sessions) BY <1>2, <1>7, <3>1, Constants
    <3>4. claude' \in [Ids -> Ingress \cup {0, Null}] BY <1>4, <2>3
    <3>5. QED BY <3>2, <3>3, <3>4 DEF HostInv, Unused
  <2>4. QED BY <1>1, <2>1, <2>2, <2>3 DEF Host!Answered
<1>9. QED BY <1>1, <1>2, <1>6, <1>8

\* A write is over, done or failed: the host's, if it was its own, no more.
LEMMA WriteEnds ==
    ASSUME HostInv, NEW w \in writing, writing' = writing \ {w}, UNCHANGED <<sessions, envs>>,
           host' \in [env : Hosts \cup {Null}, waits : BOOLEAN],
           w.next \notin Hosts => host' = host
    PROVE  Writes' /\ writing' \subseteq EnvWrite \cup SessionWrite
<1>1. writing' \subseteq EnvWrite \cup SessionWrite
  BY DEF HostInv, HostTypes
<1>2. \A v \in writing' : v.next \in Hosts => w.next \notin Hosts
  BY DEF HostInv, Writes
<1>3. QED BY <1>1, <1>2 DEF HostInv, Writes

\* upsertSession is done and the request goes on.
LEMMA SessionWrittenKeeps ==
    ASSUME HostInv, NEW w \in writing, Host!SessionWritten(w)
    PROVE  HostInv'
<1> DEFINE s == w.s
<1>1. /\ w.what = "session" /\ s \in Ids /\ w.next \in Hosts \cup Keep /\ sessions[s] # Null
      /\ rows' \in [Ids -> Host!Row \cup {Null}]
      /\ \A r \in Ids \ {s} : rows'[r] = rows[r]
      /\ pool => rows'[s] # Null
      /\ rows'[s] # Null => rows'[s].token = sessions[s].token \/ rows' = rows
      /\ ~pool => rows' = rows
      /\ pool => rows'[s].token = sessions[s].token
      /\ claude' \in [Ids -> Ingress \cup {0, Null}]
      /\ \A r \in Ids \ {s} : claude'[r] = claude[r]
      /\ \A r \in Ids : claude'[r] # Null => claude'[r] <= dealt.tokens
      /\ \A r \in Ids : r > dealt.sessions => claude'[r] = Null
  BY SessionWrittenFacts
<1>2. /\ writing' = writing \ {w}
      /\ UNCHANGED <<pool, envs, sessions, byIngressToken, envRows, polled, dealt, spent>>
  BY DEF Host!SessionWritten
<1>3. host' \in [env : Hosts \cup {Null}, waits : BOOLEAN] /\ (w.next \notin Hosts => host' = host)
  <2>1. host \in [env : Hosts \cup {Null}, waits : BOOLEAN] BY DEF HostInv, HostTypes
  <2>2. CASE w.next \in Hosts
    <3>1. Host!Answered(w) BY DEF Host!SessionWritten
    <3>2. host' = [env |-> w.next, waits |-> FALSE] BY <2>2, <3>1 DEF Host!Answered
    <3>3. QED BY <2>2, <3>2
  <2>3. CASE w.next \notin Hosts BY <2>1, <2>3 DEF Host!SessionWritten, Host!Answered
  <2>4. QED BY <2>2, <2>3
<1>4. Writes' /\ writing' \subseteq EnvWrite \cup SessionWrite
  BY <1>2, <1>3, WriteEnds
<1>5. s <= dealt.sessions /\ s \in Nat /\ dealt.sessions \in Nat
  BY <1>1, InMap, Constants DEF HostInv, HostTypes
<1> HIDE DEF s
<1>6. HostTypes'
  BY <1>1, <1>2, <1>3, <1>4 DEF HostInv, HostTypes, Host!TypeOK, Ids, Ingress
<1>7. Unused'
  <2>1. \A r \in Ids : rows'[r] # Null => rows'[r].token <= dealt.tokens
    BY <1>1 DEF HostInv, Unused
  <2>2. \A r \in Ids : r > dealt.sessions => rows'[r] = Null
    BY <1>1, <1>5 DEF HostInv, Unused
  <2>3. QED BY <1>1, <1>2, <2>1, <2>2 DEF HostInv, Unused
<1>8. Indexed'
  <2>1. ASSUME NEW q \in Ids, NEW r \in Ids, sessions[q] # Null, sessions[r] # Null,
               sessions[q].token = sessions[r].token
        PROVE  q = r
    <3>1. sessions[q].token \in Ingress BY <2>1, TokenTypes DEF HostInv
    <3>2. byIngressToken[sessions[q].token] = q /\ byIngressToken[sessions[q].token] = r
      BY <2>1, <3>1 DEF HostInv, Indexed, Ingress
    <3>3. QED BY <3>2
  <2>2. CASE rows' = rows
    BY <1>2, <2>2 DEF HostInv, Indexed
  <2>3. CASE rows'[s] # Null /\ rows'[s].token = sessions[s].token
    <3>1. ASSUME NEW q \in Ids, NEW r \in Ids, rows'[r] # Null
          PROVE  /\ rows'[q] # Null /\ rows'[q].token = rows'[r].token => q = r
                 /\ sessions[q] # Null /\ sessions[q].token = rows'[r].token => q = r
      <4>1. CASE r = s BY <1>1, <2>1, <2>3, <3>1, <4>1 DEF HostInv, Indexed
      <4>2. CASE r # s /\ q = s BY <1>1, <2>3, <3>1, <4>2 DEF HostInv, Indexed
      <4>3. CASE r # s /\ q # s BY <1>1, <3>1, <4>3 DEF HostInv, Indexed
      <4>4. QED BY <4>1, <4>2, <4>3
    <3>2. QED BY <1>2, <3>1 DEF HostInv, Indexed
  <2>4. QED BY <1>1, <2>2, <2>3
<1>9. QueuedOnce'
  BY <1>2 DEF HostInv, QueuedOnce, Queued
<1>10. Written'
  <2> SUFFICES ASSUME pool, spent.failures = 0 PROVE Written'
    BY <1>2 DEF Written
  <2>1. ASSUME NEW r \in Ids, sessions[r] # Null
        PROVE  HasRow(r)' \/ \E u \in writing' : u.what = "session" /\ u.s = r /\ u.next # "moved"
    <3>1. CASE r = s BY <1>1, <1>2, <3>1 DEF HasRow
    <3>2. CASE r # s
      <4>1. HasRow(r) \/ \E u \in writing : u.what = "session" /\ u.s = r /\ u.next # "moved"
        BY <2>1 DEF HostInv, Written
      <4>2. QED BY <1>1, <1>2, <3>2, <4>1 DEF HasRow, s
    <3>3. QED BY <3>1, <3>2
  <2>2. ASSUME NEW r \in Ids, NEW e \in Hosts, Queued(r, e)
        PROVE  rows'[r] # Null \/ \E u \in writing' : u.s = r /\ u.next = e
    <3>1. CASE r = s BY <1>1, <3>1
    <3>2. CASE r # s
      <4>1. rows[r] # Null \/ \E u \in writing : u.s = r /\ u.next = e
        BY <2>2 DEF HostInv, Written
      <4>2. QED BY <1>1, <1>2, <3>2, <4>1 DEF s
    <3>3. QED BY <3>1, <3>2
  <2>3. \A r \in Ids : Host!Accepted(r)' => rows'[r] # Null
    BY <1>1, <1>2 DEF HostInv, Written, Host!Accepted
  <2>4. QED BY <1>2, <2>1, <2>2, <2>3 DEF Written, Queued
<1>11. QED BY <1>4, <1>6, <1>7, <1>8, <1>9, <1>10 DEF HostInv

\* A request ends with a 500.
LEMMA WriteFailsKeeps ==
    ASSUME HostInv, NEW w \in writing, Host!WriteFails(w)
    PROVE  HostInv'
<1>1. /\ pool /\ spent' = [spent EXCEPT !.failures = @ + 1] /\ writing' = writing \ {w}
      /\ host' = IF w.next \in Hosts THEN [host EXCEPT !.waits = FALSE] ELSE host
      /\ UNCHANGED <<pool, envs, sessions, byIngressToken, envRows, rows, claude, polled, dealt>>
  BY DEF Host!WriteFails
<1>2. spent' \in [failures : Nat, restarts : Nat, patches : 0 .. MaxPatches] /\ spent'.failures # 0
  BY <1>1 DEF HostInv, HostTypes
<1>3. host' \in [env : Hosts \cup {Null}, waits : BOOLEAN]
  BY <1>1 DEF HostInv, HostTypes
<1>4. Writes' /\ writing' \subseteq EnvWrite \cup SessionWrite
  BY <1>1, <1>3, WriteEnds
<1>5. HostTypes'
  BY <1>1, <1>2, <1>3, <1>4 DEF HostInv, HostTypes, Host!TypeOK
<1>6. Unused' /\ Indexed'
  BY <1>1 DEF HostInv, Unused, Indexed
<1>7. QueuedOnce'
  BY <1>1 DEF HostInv, QueuedOnce, Queued
<1>8. Written'
  BY <1>2 DEF Written
<1>9. QED BY <1>4, <1>5, <1>6, <1>7, <1>8 DEF HostInv

\* What a new process loads of a session.
LEMMA LoadedSession ==
    ASSUME HostInv, Host!Restart, NEW s \in Ids
    PROVE  /\ sessions'[s] # Null <=> Host!Loaded(s)
           /\ Host!Loaded(s) => sessions'[s] \in Host!Session /\ sessions'[s].token = rows[s].token
<1> DEFINE x == [owner |-> rows[s].owner, env |-> rows[s].env, token |-> rows[s].token, dir |-> rows[s].dir]
<1>1. sessions'[s] = IF ~Host!Loaded(s) THEN Null ELSE x
  BY DEF Host!Restart, Ids
<1>2. Host!Loaded(s) => rows[s] \in Host!Row
  BY TokenTypes DEF HostInv, Host!Loaded
<1>3. Host!Loaded(s) => x \in Host!Session
  BY <1>2 DEF Host!Row, Host!Session
<1>4. x.token = rows[s].token
  OBVIOUS
<1> HIDE DEF x
<1>5. QED BY <1>1, <1>3, <1>4, Constants

\* Its index.
LEMMA LoadedIndex ==
    ASSUME HostInv, Host!Restart
    PROVE  /\ byIngressToken' \in [Ingress -> Ids \cup {Null}]
           /\ \A t \in Ingress, s \in Ids : byIngressToken'[t] = s <=> Host!Loaded(s) /\ rows[s].token = t
<1> DEFINE Has(s, t) == Host!Loaded(s) /\ rows[s].token = t
<1>1. byIngressToken' = [t \in Ingress |-> IF \E s \in Ids : Has(s, t) THEN CHOOSE s \in Ids : Has(s, t) ELSE Null]
  BY DEF Host!Restart, Host!TokenIndex, Ingress, Ids
<1>2. \A t \in Ingress, r, s \in Ids : Has(r, t) /\ Has(s, t) => r = s
  BY DEF HostInv, Indexed, Host!Loaded
<1> HIDE DEF Has
<1>3. byIngressToken' \in [Ingress -> Ids \cup {Null}]
  BY <1>1
<1>4. \A t \in Ingress, s \in Ids : byIngressToken'[t] = s <=> Has(s, t)
  BY <1>1, <1>2, Constants
<1>5. QED BY <1>3, <1>4 DEF Has

\* Another process loads what is recent.
LEMMA RestartKeeps ==
    ASSUME HostInv, Host!Restart
    PROVE  HostInv'
<1>1. /\ spent' = [spent EXCEPT !.restarts = @ + 1] /\ writing' = {}
      /\ envs' = [e \in Hosts |-> IF envRows[e] = Null THEN Null
                                  ELSE [owner |-> envRows[e], queue |-> <<>>, inflight |-> {}]]
      /\ sessions' = [s \in Ids |-> sessions'[s]]
      /\ host' = [host EXCEPT !.waits = FALSE]
      /\ UNCHANGED <<pool, envRows, rows, claude, polled, dealt>>
  BY DEF Host!Restart, Ids
<1>2. /\ spent' \in [failures : Nat, restarts : Nat, patches : 0 .. MaxPatches]
      /\ spent'.failures = spent.failures
  BY <1>1 DEF HostInv, HostTypes
<1>3. host' \in [env : Hosts \cup {Null}, waits : BOOLEAN]
  BY <1>1 DEF HostInv, HostTypes
<1>4. \A s \in Ids : /\ sessions'[s] # Null <=> Host!Loaded(s)
                     /\ Host!Loaded(s) => sessions'[s] \in Host!Session /\ sessions'[s].token = rows[s].token
  BY LoadedSession
<1>5. sessions' \in [Ids -> Host!Session \cup {Null}]
  BY <1>1, <1>4
<1>6. /\ byIngressToken' \in [Ingress -> Ids \cup {Null}]
      /\ \A t \in Ingress, s \in Ids : byIngressToken'[t] = s <=> Host!Loaded(s) /\ rows[s].token = t
  BY LoadedIndex
<1>7. \A e \in Hosts : /\ envs'[e] \in Host!Env \cup {Null}
                       /\ envs'[e] # Null => envs'[e].queue = <<>>
  <2>1. \A e \in Hosts : envRows[e] \in Owners \cup {Null}
    BY DEF HostInv, HostTypes, Host!TypeOK
  <2>2. QED BY <1>1, <2>1 DEF Host!Env
<1>8. envs' \in [Hosts -> Host!Env \cup {Null}]
  BY <1>1, <1>7
<1>9. HostTypes'
  BY <1>1, <1>2, <1>3, <1>5, <1>6, <1>8 DEF HostInv, HostTypes, Host!TypeOK, Ids, Ingress
<1>10. Unused'
  <2>1. \A s \in Ids : sessions'[s] # Null => rows[s] # Null /\ sessions'[s].token = rows[s].token
    BY <1>4 DEF Host!Loaded
  <2>2. QED BY <1>1, <2>1 DEF HostInv, Unused
<1>11. Indexed'
  <2>1. \A t \in Ingress, s \in Ids : byIngressToken'[t] = s <=> sessions'[s] # Null /\ sessions'[s].token = t
    BY <1>4, <1>6
  <2>2. \A q, r \in Ids :
           rows[r] # Null /\ sessions'[q] # Null /\ sessions'[q].token = rows[r].token => q = r
    BY <1>4 DEF HostInv, Indexed, Host!Loaded
  <2>3. QED BY <1>1, <2>1, <2>2 DEF HostInv, Indexed, Ingress
<1>12. \A s \in Ids, e \in Hosts : ~Queued(s, e)'
  BY <1>7 DEF Queued
<1>13. QueuedOnce'
  <2>1. \A e \in Hosts : envs'[e] # Null => DOMAIN envs'[e].queue = {}
    BY <1>7
  <2>2. QED BY <1>1, <1>12, <2>1 DEF HostInv, QueuedOnce
<1>14. Writes'
  BY <1>1 DEF Writes
<1>15. Written'
  <2> SUFFICES ASSUME pool, spent.failures = 0 PROVE Written'
    BY <1>1, <1>2 DEF Written
  <2>1. \A s \in Ids : sessions'[s] # Null => HasRow(s)'
    BY <1>1, <1>4 DEF HasRow, Host!Loaded
  <2>2. \A s \in Ids : Host!Accepted(s)' => rows'[s] # Null
    BY <1>1, <1>6 DEF Host!Accepted, Host!Loaded, Ingress
  <2>3. QED BY <1>12, <2>1, <2>2 DEF Written
<1>16. QED BY <1>9, <1>10, <1>11, <1>13, <1>14, <1>15 DEF HostInv

\* A step of the server, a host or a claude.
LEMMA HostStep == HostInv /\ Host!Next => HostInv'
<1> SUFFICES ASSUME HostInv, Host!Next PROVE HostInv'
  OBVIOUS
<1>1. CASE \E a \in Owners : Host!Create(a) \/ \E e \in Hosts : Host!Register(a, e)
  BY <1>1, CreateKeeps, RegisterKeeps
<1>2. CASE Host!Poll \/ Host!Restart
  BY <1>2, PollKeeps, RestartKeeps
<1>3. CASE \E w \in writing : Host!Written(w) \/ Host!WriteFails(w)
  BY <1>3, EnvWrittenKeeps, SessionWrittenKeeps, WriteFailsKeeps DEF Host!Written
<1>4. CASE \E s \in Ids : Host!Ack(s) \/ Host!Bridges(s) \/ Host!Moved(s) \/ Host!flushActivity(s) \/ Host!Age(s)
  BY <1>4, AckKeeps, BridgeKnownKeeps, BridgeKeeps, MovedKeeps, FlushKeeps, AgeKeeps DEF Host!Bridges
<1>5. QED BY <1>1, <1>2, <1>3, <1>4 DEF Host!Next, Ids

\* A step elsewhere.
LEMMA HostStutters == HostInv /\ UNCHANGED <<pool, registryVars>> => HostInv'
BY DEF HostInv, HostTypes, Unused, Indexed, QueuedOnce, Writes, Written, registryVars,
       Host!TypeOK, Queued, HasRow, Host!Accepted

\* The variables of ServicesSpec.
\* The invariant holds in every state of the registry.
LEMMA RegistryInvariant == ServicesSpec => []PartHostInv
<1>1. ServicesInit => PartHostInv
  BY HostInit DEF ServicesInit, PartHostInv
<1>2. PartHostInv /\ [ServicesNext]_servicesVars => PartHostInv'
  <2> SUFFICES ASSUME PartHostInv, [ServicesNext]_servicesVars, part' = "registry" PROVE HostInv'
    BY DEF PartHostInv
  <2>1. CASE UNCHANGED servicesVars
    BY <2>1, HostStutters DEF PartHostInv, servicesVars, vars
  <2>2. CASE ServicesNext
    <3>1. part = "registry" BY <2>2 DEF ServicesNext
    <3>2. Host!Next BY <2>2, <3>1 DEF ServicesNext
    <3>3. QED BY <3>1, <3>2, HostStep DEF PartHostInv
  <2>3. QED BY <2>1, <2>2
<1>3. QED BY <1>1, <1>2, PTL DEF ServicesSpec, servicesVars

\* Work is handed out once (store.ts, nextWork), whatever registrations,
\* acknowledgements and restarts come between.
THEOREM WorkHandedOutOnce == ServicesSpec => []OneDelivery
<1>1. PartHostInv => OneDelivery
  BY DEF PartHostInv, HostInv, QueuedOnce, OneDelivery, Host!OneDelivery, Ids
<1>2. QED BY <1>1, RegistryInvariant, PTL

\* sessionByIngressToken finds every session by the token it has, the events of
\* an accepted worker find their row, and that row has its token.
THEOREM WorkersStayKnown == ServicesSpec => []WorkersKnown
<1>1. PartHostInv => WorkersKnown
  <2> SUFFICES ASSUME HostInv PROVE Host!TypeOK /\ Host!TokenIndexed /\ Host!PostsFindRow /\ Host!TokenPersisted
    BY DEF PartHostInv, WorkersKnown
  <2>1. Host!TypeOK
    BY DEF HostInv, HostTypes
  <2>2. Host!TokenIndexed
    BY TokenTypes DEF HostInv, Indexed, Host!TokenIndexed, Ids, Ingress
  <2>3. Host!PostsFindRow
    BY DEF HostInv, Written, Host!PostsFindRow, Ids
  <2>4. Host!TokenPersisted
    <3> SUFFICES ASSUME pool, writing = {}, spent.failures = 0, NEW s \in Ids, Host!Accepted(s)
                 PROVE  rows[s].token = claude[s]
      BY DEF Host!TokenPersisted, Ids
    <3>1. sessions[s] # Null /\ sessions[s].token = claude[s]
      BY DEF HostInv, Indexed, Host!Accepted
    <3>2. QED BY <3>1 DEF HostInv, Written, HasRow
  <2>5. QED BY <2>1, <2>2, <2>3, <2>4
<1>2. QED BY <1>1, RegistryInvariant, PTL

-----------------------------------------------------------------------------
(* Shapes: the invariant.                                                  *)

ShapeNames == {Census!shapeOf(p) : p \in Payloads}
EventRow == [payload : Payloads, shape : ShapeNames \cup {Null}]

\* The events have their own shape or none, and each server a batch of theirs.
Column ==
    /\ events \in Seq(EventRow)
    /\ \A i \in DOMAIN events :
          events[i].shape # Null => events[i].shape = Census!shapeOf(events[i].payload)
    /\ at \in [Servers -> {"off", "select", "update", "done", "stopped"}]
    /\ batch \in [Servers -> Seq(DOMAIN events)]
    /\ \A s \in Servers : Len(batch[s]) <= Batch /\ ((at[s] = "update") = (batch[s] # <<>>))

\* Every event has its shape once one backfill came to its end.
AllStamped == \A i \in DOMAIN events : events[i].shape # Null

CensusInv == Column /\ ((\E s \in Servers : at[s] = "done") => AllStamped)
PartCensusInv == part = "shapes" => CensusInv

\* The ids a backfill selects are those of the rows without a shape.
LEMMA UnstampedContents ==
    ASSUME Column
    PROVE  /\ Census!Unstamped \in Seq(DOMAIN events)
           /\ Census!Unstamped = <<>> <=> AllStamped
<1> DEFINE ids == [i \in DOMAIN events |-> i]
           I == {i \in DOMAIN events : events[i].shape = Null}
<1>1. ids \in Seq(DOMAIN events) /\ DOMAIN ids = DOMAIN events /\ \A i \in DOMAIN events : ids[i] = i
  BY DEF Column
<1>2. Census!Unstamped = SubseqAt(ids, I)
  BY DEF Census!Unstamped, Census!SubseqAt, SubseqAt
<1>3. I \subseteq DOMAIN ids
  BY <1>1
<1> HIDE DEF ids, I
<1>4. PICK q : q = SubseqAt(ids, I)
  OBVIOUS
<1>5. /\ q \in Seq(DOMAIN events)
      /\ \A j \in DOMAIN q : \E i \in DOMAIN ids : i \in I /\ q[j] = ids[i]
      /\ \A i \in DOMAIN ids : i \in I => \E j \in DOMAIN q : q[j] = ids[i]
  BY <1>1, <1>4, SubseqAtContents
<1>6. q = <<>> <=> I = {}
  <2>1. q = <<>> => I = {}
    <3>1. q = <<>> => DOMAIN q = {}
      BY <1>5
    <3>2. QED BY <1>3, <1>5, <3>1
  <2>2. q # <<>> => I # {}
    <3>1. q # <<>> => 1 \in DOMAIN q
      BY <1>5
    <3>2. QED BY <1>5, <3>1
  <2>3. QED BY <2>1, <2>2
<1>7. QED BY <1>2, <1>4, <1>5, <1>6 DEF AllStamped, I

\* A batch is the first of them, and not empty when there is one.
LEMMA TakenContents ==
    ASSUME NEW E, NEW ids \in Seq(E)
    PROVE  /\ Census!Taken(ids) \in Seq(E) /\ Len(Census!Taken(ids)) <= Batch
           /\ Census!Taken(ids) = <<>> <=> ids = <<>>
<1>1. PICK n \in Nat : n = IF Len(ids) < Batch THEN Len(ids) ELSE Batch
  BY CensusAssumption
<1>2. n <= Len(ids) /\ n <= Batch /\ (n = 0 <=> Len(ids) = 0)
  BY <1>1, CensusAssumption
<1>3. PICK q : q = SubSeq(ids, 1, n)
  OBVIOUS
<1>4. q \in Seq(E) /\ Len(q) = n
  BY <1>2, <1>3, FirstOf
<1>5. Census!Taken(ids) = q
  BY <1>1, <1>3 DEF Census!Taken
<1>6. q = <<>> <=> ids = <<>>
  BY <1>2, <1>4
<1>7. QED BY <1>2, <1>4, <1>5, <1>6

\* Before the first server starts, the old rows have no shape.
LEMMA CensusInit == Census!Init => CensusInv
<1> SUFFICES ASSUME Census!Init PROVE CensusInv
  OBVIOUS
<1>1. PICK n \in 0 .. MaxOld : events \in [1 .. n -> [payload : Payloads, shape : {Null}]]
  BY DEF Census!Init
<1>2. n \in Nat
  BY <1>1, CensusAssumption
<1>3. /\ DOMAIN events = 1 .. n /\ \A i \in 1 .. n : events[i].shape = Null
      /\ \A i \in 1 .. n : events[i] \in EventRow
  BY <1>1 DEF EventRow
<1>4. events \in Seq(EventRow)
  BY <1>1, <1>2, <1>3
<1>5. \A s \in Servers : at[s] = "off" /\ batch[s] = <<>> /\ Len(batch[s]) = 0
  BY DEF Census!Init
<1>6. <<>> \in Seq(DOMAIN events) /\ batch \in [Servers -> Seq(DOMAIN events)]
  BY DEF Census!Init
<1>7. QED BY <1>3, <1>4, <1>5, <1>6, CensusAssumption DEF Census!Init, CensusInv, Column

\* A server starts, gives up or stops: the rows stay.
LEMMA IdleKeeps ==
    ASSUME CensusInv, NEW s \in Servers, NEW a \in {"select", "stopped", "off"},
           at' = [at EXCEPT ![s] = a], batch' = [batch EXCEPT ![s] = <<>>], UNCHANGED events
    PROVE  CensusInv'
<1>1. <<>> \in Seq(DOMAIN events) /\ Len(<<>>) = 0
  OBVIOUS
<1>2. /\ at' \in [Servers -> {"off", "select", "update", "done", "stopped"}]
      /\ batch' \in [Servers -> Seq(DOMAIN events)]
      /\ at'[s] = a /\ batch'[s] = <<>>
      /\ \A z \in Servers : z # s => at'[z] = at[z] /\ batch'[z] = batch[z]
  BY <1>1 DEF CensusInv, Column
<1>3. \A z \in Servers : Len(batch'[z]) <= Batch /\ ((at'[z] = "update") = (batch'[z] # <<>>))
  BY <1>1, <1>2, CensusAssumption DEF CensusInv, Column
<1>4. (\E z \in Servers : at'[z] = "done") => AllStamped
  BY <1>2 DEF CensusInv
<1>5. QED BY <1>2, <1>3, <1>4 DEF CensusInv, Column, AllStamped

\* A server starts, a query of its backfill fails, or it stops.
LEMMA BootKeeps ==
    ASSUME CensusInv, NEW s \in Servers, Census!Boot(s) \/ Census!Fail(s) \/ Census!Stop(s)
    PROVE  CensusInv'
<1>1. CASE Census!Boot(s)
  <2>1. batch[s] = <<>>
    BY <1>1 DEF Census!Boot, CensusInv, Column
  <2>2. batch' = [batch EXCEPT ![s] = <<>>]
    BY <1>1, <2>1 DEF Census!Boot, CensusInv, Column
  <2>3. QED BY <1>1, <2>2, IdleKeeps DEF Census!Boot
<1>2. CASE Census!Fail(s)
  BY <1>2, IdleKeeps DEF Census!Fail
<1>3. CASE Census!Stop(s)
  BY <1>3, IdleKeeps DEF Census!Stop
<1>4. QED BY <1>1, <1>2, <1>3

\* A backfill reads its next batch, or comes to its end.
LEMMA SelectKeeps ==
    ASSUME CensusInv, NEW s \in Servers, Census!Select(s)
    PROVE  CensusInv'
<1>1. PICK q : q = Census!Unstamped
  OBVIOUS
<1>2. PICK b : b = Census!Taken(q)
  OBVIOUS
<1>3. q \in Seq(DOMAIN events) /\ (q = <<>> <=> AllStamped)
  BY <1>1, UnstampedContents DEF CensusInv
<1>4. b \in Seq(DOMAIN events) /\ Len(b) <= Batch /\ (b = <<>> <=> q = <<>>)
  BY <1>2, <1>3, TakenContents
<1>5. /\ batch' = [batch EXCEPT ![s] = b] /\ UNCHANGED events
      /\ at' = [at EXCEPT ![s] = IF q = <<>> THEN "done" ELSE "update"]
  BY <1>1, <1>2 DEF Census!Select
<1>6. /\ at' \in [Servers -> {"off", "select", "update", "done", "stopped"}]
      /\ batch' \in [Servers -> Seq(DOMAIN events)]
      /\ batch'[s] = b /\ at'[s] = IF q = <<>> THEN "done" ELSE "update"
      /\ \A z \in Servers : z # s => at'[z] = at[z] /\ batch'[z] = batch[z]
  BY <1>4, <1>5 DEF CensusInv, Column
<1>7. (at'[s] = "update") = (batch'[s] # <<>>) /\ (at'[s] = "done" => AllStamped)
  BY <1>3, <1>4, <1>6
<1>8. \A z \in Servers : Len(batch'[z]) <= Batch /\ ((at'[z] = "update") = (batch'[z] # <<>>))
  BY <1>4, <1>6, <1>7 DEF CensusInv, Column
<1>9. (\E z \in Servers : at'[z] = "done") => AllStamped
  BY <1>6, <1>7 DEF CensusInv
<1>10. QED BY <1>5, <1>6, <1>8, <1>9 DEF CensusInv, Column, AllStamped

\* A batch is stamped: no row loses its shape.
LEMMA UpdateKeeps ==
    ASSUME CensusInv, NEW s \in Servers, Census!Update(s)
    PROVE  CensusInv'
<1>1. PICK S : S = Census!ToSet(batch[s])
  OBVIOUS
<1>2. events' = [i \in DOMAIN events |->
        IF i \in S THEN [events[i] EXCEPT !.shape = Census!shapeOf(events[i].payload)] ELSE events[i]]
  BY <1>1 DEF Census!Update, Census!stamped
<1>3. PICK n \in Nat : DOMAIN events = 1 .. n
  BY DEF CensusInv, Column
<1>4. ASSUME NEW i \in DOMAIN events
      PROVE  /\ events'[i] \in EventRow /\ (events[i].shape # Null => events'[i].shape # Null)
             /\ events'[i].shape # Null => events'[i].shape = Census!shapeOf(events'[i].payload)
  <2>1. events[i] \in EventRow
    BY <1>3 DEF CensusInv, Column
  <2>2. PICK h : h = Census!shapeOf(events[i].payload)
    OBVIOUS
  <2>3. h \in ShapeNames /\ h # Null
    BY <2>1, <2>2, CensusAssumption DEF EventRow, ShapeNames
  <2>4. CASE i \in S
    <3>1. events'[i] = [events[i] EXCEPT !.shape = h]
      BY <1>2, <2>2, <2>4
    <3>2. events'[i] \in EventRow /\ events'[i].shape = h /\ events'[i].payload = events[i].payload
      BY <2>1, <2>3, <3>1 DEF EventRow
    <3>3. QED BY <2>2, <2>3, <3>2
  <2>5. CASE i \notin S
    <3>1. events'[i] = events[i]
      BY <1>2, <2>5
    <3>2. QED BY <2>1, <3>1 DEF CensusInv, Column
  <2>6. QED BY <2>4, <2>5
<1>5. DOMAIN events' = DOMAIN events
  BY <1>2
<1>6. events' \in Seq(EventRow)
  <2>1. events' \in [1 .. n -> EventRow]
    BY <1>2, <1>3, <1>4, <1>5
  <2>2. QED BY <1>3, <2>1
<1>7. <<>> \in Seq(DOMAIN events) /\ Len(<<>>) = 0
  OBVIOUS
<1>8. /\ at' \in [Servers -> {"off", "select", "update", "done", "stopped"}]
      /\ batch' \in [Servers -> Seq(DOMAIN events)]
      /\ at'[s] = "select" /\ batch'[s] = <<>>
      /\ \A z \in Servers : z # s => at'[z] = at[z] /\ batch'[z] = batch[z]
  BY <1>7 DEF Census!Update, Census!Then, CensusInv, Column
<1>9. \A z \in Servers : Len(batch'[z]) <= Batch /\ ((at'[z] = "update") = (batch'[z] # <<>>))
  BY <1>7, <1>8, CensusAssumption DEF CensusInv, Column
<1>10. (\E z \in Servers : at'[z] = "done") => AllStamped'
  <2>1. AllStamped => AllStamped'
    BY <1>4, <1>5 DEF AllStamped
  <2>2. QED BY <1>8, <2>1 DEF CensusInv
<1>11. QED BY <1>4, <1>5, <1>6, <1>8, <1>9, <1>10 DEF CensusInv, Column

\* A worker posts: the new row has its shape.
LEMMA InsertEventKeeps ==
    ASSUME CensusInv, NEW p \in Payloads, Census!InsertEvent(p)
    PROVE  CensusInv'
<1>1. PICK e : e = [payload |-> p, shape |-> Census!shapeOf(p)]
  OBVIOUS
<1>2. e \in EventRow /\ e.shape = Census!shapeOf(e.payload) /\ e.shape # Null
  BY <1>1, CensusAssumption DEF EventRow, ShapeNames
<1>3. events' = Append(events, e)
  BY <1>1 DEF Census!InsertEvent
<1>4. PICK n \in Nat : n = Len(events) /\ DOMAIN events = 1 .. n
  BY DEF CensusInv, Column
<1>5. events' \in Seq(EventRow) /\ DOMAIN events' = 1 .. n + 1
      /\ events'[n + 1] = e /\ \A i \in 1 .. n : events'[i] = events[i]
  BY <1>2, <1>3, <1>4 DEF CensusInv, Column
<1>6. 1 .. n + 1 = 1 .. n \cup {n + 1}
  BY <1>4
<1>7. \A i \in DOMAIN events' :
        events'[i].shape # Null => events'[i].shape = Census!shapeOf(events'[i].payload)
  BY <1>2, <1>4, <1>5, <1>6 DEF CensusInv, Column
<1>8. AllStamped => AllStamped'
  BY <1>2, <1>4, <1>5, <1>6 DEF AllStamped
<1>9. \A q \in Seq(DOMAIN events) : q \in Seq(DOMAIN events')
  BY <1>4, <1>5, <1>6
<1>10. UNCHANGED <<at, batch>>
  BY DEF Census!InsertEvent
<1>11. batch' \in [Servers -> Seq(DOMAIN events')]
  BY <1>9, <1>10 DEF CensusInv, Column
<1>12. QED BY <1>5, <1>7, <1>8, <1>10, <1>11 DEF CensusInv, Column

\* The invariant holds in every behaviour that is about the shapes.
LEMMA CensusInvariant == ServicesSpec => []PartCensusInv
<1>1. ServicesInit => PartCensusInv
  BY CensusInit DEF ServicesInit, PartCensusInv
<1>2. PartCensusInv /\ [ServicesNext]_servicesVars => PartCensusInv'
  <2> SUFFICES ASSUME PartCensusInv, [ServicesNext]_servicesVars, part' = "shapes" PROVE CensusInv'
    BY DEF PartCensusInv
  <2>1. CASE UNCHANGED servicesVars
    BY <2>1 DEF PartCensusInv, CensusInv, Column, AllStamped, servicesVars, shapesVars
  <2>2. CASE ServicesNext
    <3>1. part = "shapes" BY <2>2 DEF ServicesNext
    <3>2. Census!Next /\ CensusInv BY <2>2, <3>1 DEF ServicesNext, PartCensusInv
    <3>3. QED BY <3>2, BootKeeps, SelectKeeps, UpdateKeeps, InsertEventKeeps DEF Census!Next
  <2>3. QED BY <2>1, <2>2
<1>3. QED BY <1>1, <1>2, PTL DEF ServicesSpec, servicesVars

\* What test/shape-report.ts lists, once the rows are stamped.
LEMMA StatsAre ==
    ASSUME Column, AllStamped
    PROVE  /\ \A i \in DOMAIN events : \E t \in Census!selectShapeStats : t.shape = events[i].shape
           /\ \A t \in Census!selectShapeStats :
                 t.firstId \in DOMAIN events /\ events[t.firstId].shape = t.shape
<1> DEFINE With(i) == {j \in DOMAIN events : events[j].shape = events[i].shape}
           Stat(i) == [shape |-> events[i].shape, n |-> Census!Cardinality(With(i)),
                       firstId |-> Census!Min(With(i))]
<1>1. Census!selectShapeStats = {Stat(i) : i \in {i \in DOMAIN events : events[i].shape # Null}}
  BY DEF Census!selectShapeStats
<1>2. ASSUME NEW i \in DOMAIN events PROVE Census!Min(With(i)) \in With(i)
  <2>1. i \in With(i) /\ With(i) \subseteq Nat
    BY DEF Column
  <2>2. PICK W : W = With(i)
    OBVIOUS
  <2>3. \E x \in W : \A y \in W : x <= y
    BY <2>1, <2>2, LeastElement
  <2>4. Census!Min(W) \in W
    BY <2>3 DEF Census!Min
  <2>5. QED BY <2>2, <2>4
<1>3. ASSUME NEW i \in DOMAIN events
      PROVE  /\ Stat(i).shape = events[i].shape
             /\ Stat(i).firstId \in DOMAIN events /\ events[Stat(i).firstId].shape = Stat(i).shape
  BY <1>2
<1> HIDE DEF Stat
<1>4. QED BY <1>1, <1>3 DEF AllStamped

\* "The queue is a predicate, not a bookmark" (db.ts): whatever other servers
\* insert, stamp, fail at or leave undone, a backfill that ran to its end has left
\* no row without a shape; and once there is none, the report lists the shapes that
\* phones showing these events mark, each with a row that has it, and nothing of
\* what they mark inside a payload of a known shape (a notice, a block).
THEOREM CensusStaysTrue == ServicesSpec => []CensusTrue
<1>1. PartCensusInv => CensusTrue
  <2> SUFFICES ASSUME CensusInv
               PROVE  Census!TypeOK /\ Census!DoneMeansStamped /\ Census!ReportAgrees
    BY DEF PartCensusInv, CensusTrue
  <2>1. Census!TypeOK
    <3>1. \A i \in DOMAIN events : events[i] \in EventRow
      BY DEF CensusInv, Column
    <3>2. \A s \in Servers : Census!ToSet(batch[s]) \subseteq DOMAIN events
      BY DEF CensusInv, Column, Census!ToSet
    <3>3. QED BY <3>1, <3>2 DEF CensusInv, Column, Census!TypeOK, EventRow
  <2>2. Census!Unstamped = <<>> <=> AllStamped
    BY UnstampedContents DEF CensusInv
  <2>3. Census!DoneMeansStamped
    BY <2>2 DEF Census!DoneMeansStamped, CensusInv
  <2>4. Census!ReportAgrees
    <3> SUFFICES ASSUME AllStamped
                 PROVE  /\ Census!Backlog =
                             {m \in UNION {Census!Marks(events[i].payload) : i \in DOMAIN events} :
                                 Census!IsShape(m)}
                        /\ \A t \in Census!selectShapeStats :
                              t.shape \in Census!Backlog => t.shape \in Census!Marks(events[t.firstId].payload)
      BY <2>2 DEF Census!ReportAgrees
    <3> DEFINE Unknown(h) == Census!verdictOf(h) = "unknown"
    <3>1. \A i \in DOMAIN events : events[i].shape = Census!shapeOf(events[i].payload)
      BY DEF CensusInv, Column, AllStamped
    <3>2. \A h : h \in Census!Backlog <=> \E i \in DOMAIN events : h = events[i].shape /\ Unknown(h)
      BY StatsAre DEF CensusInv, Census!Backlog
    <3>3. \A p : Unknown(Census!shapeOf(p)) => Census!Marks(p) = {Census!shapeOf(p)}
      <4>1. Census!verdictOf([type |-> "system", rest |-> {"status"}]) = "handled"
        <5>1. [type |-> "system", rest |-> {"status"}] \in Census!HandledShapes
          BY DEF Census!HandledShapes
        <5>2. QED BY <5>1 DEF Census!verdictOf
      <4>2. QED BY <4>1 DEF Census!Marks
    <3>4. \A p : ~Unknown(Census!shapeOf(p)) => \A m \in Census!Marks(p) : ~Census!IsShape(m)
      BY DEF Census!Marks, Census!IsShape
    <3>5. \A p : Census!IsShape(Census!shapeOf(p))
      BY DEF Census!shapeOf, Census!Families, Census!Messages, Census!IsShape
    <3> HIDE DEF Unknown
    <3>6. \A h : h \in Census!Backlog <=>
                   \E i \in DOMAIN events : h \in Census!Marks(events[i].payload) /\ Census!IsShape(h)
      BY <3>1, <3>2, <3>3, <3>4, <3>5
    <3>7. \A t \in Census!selectShapeStats :
             t.shape \in Census!Backlog => t.shape \in Census!Marks(events[t.firstId].payload)
      BY <3>1, <3>2, <3>3, StatsAre DEF CensusInv
    <3>8. QED BY <3>6, <3>7
  <2>5. QED BY <2>1, <2>3, <2>4
<1>2. QED BY <1>1, CensusInvariant, PTL

-----------------------------------------------------------------------------
(* Accounts: the invariant.                                                *)

\* A token the cache or the table knows was registered, for that name.
Filed ==
    /\ \A t \in Tokens : byToken[t] # Null =>
          register[t].step # "new" /\ register[t].name = byToken[t]
    /\ \A n \in Names : table[n] # Null =>
          register[table[n]].step \in {"inserted", "over"} /\ register[table[n]].name = n

\* The way back from a token in use leads to its name.
Backed ==
    /\ \A n \in Names : users[n] # Null => byToken[users[n]] = n
    /\ \A l \in Logins : login[l] # Null => byToken[login[l].token] = login[l].name
    /\ TokensAccepted

\* With a pool, whatever is in use is in the table.
Rowed ==
    pool =>
        /\ \A n \in Names : users[n] # Null => table[n] = users[n]
        /\ \A n \in Names : \A t \in issued[n] : table[n] = t
        /\ \A t \in Tokens : register[t].step = "inserted" => table[register[t].name] = t
        /\ \A l \in Logins : login[l] # Null => table[login[l].name] = login[l].token

AccountsInv == TypeOK /\ Filed /\ Backed /\ Rowed

-----------------------------------------------------------------------------
\* The state before the first registration satisfies the invariant.
LEMMA AccountsInit == Init => AccountsInv
BY AccountsAssumption
   DEF Init, AccountsInv, TypeOK, Registration, Row, Filed, Backed, TokensAccepted, Rowed

\* An account enters the cache: with a pool, from its row.
LEMMA AccountEnters ==
    ASSUME AccountsInv, NEW t \in Tokens,
           register[t].step \in {"hashing", "inserted"},
           pool => register[t].step = "inserted",
           register' = Step(t, "over"), Enter(t, register[t].name),
           UNCHANGED <<table, login, restarts, pool>>
    PROVE  AccountsInv'
<1> DEFINE n == register[t].name
<1>1. n \in Names /\ t # Null /\ n # Null
  BY AccountsAssumption DEF AccountsInv, TypeOK
<1>2. TypeOK'
  BY <1>1 DEF AccountsInv, TypeOK, Step, Enter, Registration
<1>3. /\ register'[t].step = "over" /\ register'[t].name = n
      /\ \A u \in Tokens : register'[u].name = register[u].name
      /\ \A u \in Tokens \ {t} : register'[u] = register[u]
  BY DEF AccountsInv, TypeOK, Step, Registration
<1>4. byToken'[t] = n /\ \A u \in Tokens \ {t} : byToken'[u] = byToken[u]
  BY DEF AccountsInv, TypeOK, Enter
<1>5. users'[n] = t /\ \A m \in Names \ {n} : users'[m] = users[m]
  BY <1>1 DEF AccountsInv, TypeOK, Enter
<1>6. issued'[n] = issued[n] \cup {t} /\ \A m \in Names \ {n} : issued'[m] = issued[m]
  BY <1>1 DEF AccountsInv, TypeOK, Enter
<1>7. byToken[t] # Null => byToken[t] = n
  BY DEF AccountsInv, Filed
<1>8. \A u \in Tokens, m \in Names : byToken[u] = m => byToken'[u] = m
  BY <1>4, <1>7, AccountsAssumption
<1> HIDE DEF n
<1>9. Filed'
  <2>1. ASSUME NEW u \in Tokens, byToken'[u] # Null
        PROVE  register'[u].step # "new" /\ register'[u].name = byToken'[u]
    BY <1>3, <1>4, <2>1 DEF AccountsInv, Filed
  <2>2. ASSUME NEW m \in Names, table'[m] # Null
        PROVE  /\ register'[table'[m]].step \in {"inserted", "over"}
               /\ register'[table'[m]].name = m
    BY <1>3, <2>2 DEF AccountsInv, TypeOK, Filed
  <2>3. QED BY <2>1, <2>2 DEF Filed
<1>10. Backed'
  <2>1. ASSUME NEW m \in Names, users'[m] # Null PROVE byToken'[users'[m]] = m
    BY <1>4, <1>5, <1>8, <2>1 DEF AccountsInv, TypeOK, Backed
  <2>2. ASSUME NEW l \in Logins, login'[l] # Null
        PROVE  byToken'[login'[l].token] = login'[l].name
    <3>1. login'[l] = login[l] /\ login[l] \in Row
      BY <2>2 DEF AccountsInv, TypeOK
    <3>2. byToken[login[l].token] = login[l].name
      BY <2>2, <3>1 DEF AccountsInv, Backed
    <3>3. login[l].token \in Tokens /\ login[l].name \in Names
      BY <3>1 DEF Row
    <3>4. QED BY <1>8, <3>1, <3>2, <3>3
  <2>3. TokensAccepted'
    BY <1>1, <1>4, <1>6, <1>8 DEF AccountsInv, TypeOK, Backed, TokensAccepted
  <2>4. QED BY <2>1, <2>2, <2>3 DEF Backed
<1>11. Rowed'
  <2> SUFFICES ASSUME pool PROVE Rowed' BY DEF Rowed
  <2>1. table[n] = t BY DEF AccountsInv, Rowed, n
  <2>2. \A m \in Names : users'[m] # Null => table'[m] = users'[m]
    BY <1>1, <1>5, <2>1 DEF AccountsInv, Rowed
  <2>3. \A m \in Names : \A u \in issued'[m] : table'[m] = u
    BY <1>1, <1>6, <2>1 DEF AccountsInv, Rowed
  <2>4. \A u \in Tokens : register'[u].step = "inserted" => table'[register'[u].name] = u
    BY <1>3 DEF AccountsInv, Rowed
  <2>5. \A l \in Logins : login'[l] # Null => table'[login'[l].name] = login'[l].token
    BY DEF AccountsInv, Rowed
  <2>6. QED BY <2>2, <2>3, <2>4, <2>5 DEF Rowed
<1>12. QED BY <1>2, <1>9, <1>10, <1>11 DEF AccountsInv

\* A registration that only moves on changes nothing the invariant relates.
LEMMA RegistrationMoves ==
    ASSUME AccountsInv, NEW t \in Tokens, NEW r \in Registration,
           register[t].step # "over" , register[t].step # "inserted",
           r.step \in {"hashing", "inserting", "over"},
           r.step # "over" => r.name \in Names,
           register[t].step # "new" => r.name = register[t].name,
           register' = [register EXCEPT ![t] = r],
           UNCHANGED <<users, byToken, table, login, issued, restarts, pool>>
    PROVE  AccountsInv'
<1>1. register'[t] = r /\ \A u \in Tokens \ {t} : register'[u] = register[u]
  BY DEF AccountsInv, TypeOK
<1>2. TypeOK' BY DEF AccountsInv, TypeOK
<1>3. Filed' BY <1>1 DEF AccountsInv, TypeOK, Filed
<1>4. Backed' BY DEF AccountsInv, Backed, TokensAccepted
<1>5. Rowed' BY <1>1 DEF AccountsInv, Rowed
<1>6. QED BY <1>2, <1>3, <1>4, <1>5 DEF AccountsInv

\* A row is written for a name that had none.
LEMMA AccountWritten ==
    ASSUME AccountsInv, NEW t \in Tokens, NEW step \in {"inserted", "over"},
           register[t].step = "inserting", table[register[t].name] = Null,
           table' = [table EXCEPT ![register[t].name] = t],
           register' = Step(t, step),
           UNCHANGED <<users, byToken, login, issued, restarts, pool>>
    PROVE  AccountsInv'
<1> DEFINE n == register[t].name
<1>1. n \in Names /\ t # Null
  BY AccountsAssumption DEF AccountsInv, TypeOK
<1>2. table'[n] = t /\ \A m \in Names \ {n} : table'[m] = table[m]
  BY <1>1 DEF AccountsInv, TypeOK
<1>3. /\ register'[t].step = step /\ register'[t].name = n
      /\ \A u \in Tokens \ {t} : register'[u] = register[u]
  BY DEF AccountsInv, TypeOK, Step, Registration
<1>4. TypeOK'
  BY <1>1 DEF AccountsInv, TypeOK, Step, Registration
<1>5. \A m \in Names : table[m] # t
  BY <1>1 DEF AccountsInv, Filed
<1>6. Filed'
  <2>1. ASSUME NEW u \in Tokens, byToken'[u] # Null
        PROVE  register'[u].step # "new" /\ register'[u].name = byToken'[u]
    BY <1>3, <2>1 DEF AccountsInv, Filed
  <2>2. ASSUME NEW m \in Names, table'[m] # Null
        PROVE  /\ register'[table'[m]].step \in {"inserted", "over"}
               /\ register'[table'[m]].name = m
    <3>1. CASE m = n BY <1>2, <1>3, <3>1
    <3>2. CASE m # n
      BY <1>2, <1>3, <1>5, <2>2, <3>2 DEF AccountsInv, TypeOK, Filed
    <3>3. QED BY <3>1, <3>2
  <2>3. QED BY <2>1, <2>2 DEF Filed
<1>7. Backed' BY DEF AccountsInv, Backed, TokensAccepted
<1>8. Rowed'
  <2> SUFFICES ASSUME pool PROVE Rowed' BY DEF Rowed
  <2>1. \A m \in Names : table[m] # Null => table'[m] = table[m]
    BY <1>2
  <2>2. \A m \in Names : users'[m] # Null => table'[m] = users'[m]
    BY <2>1 DEF AccountsInv, Rowed
  <2>3. \A m \in Names : \A u \in issued'[m] : table'[m] = u
    BY <2>1, AccountsAssumption DEF AccountsInv, TypeOK, Rowed
  <2>4. \A u \in Tokens : register'[u].step = "inserted" => table'[register'[u].name] = u
    BY <1>2, <1>3, <2>1, AccountsAssumption DEF AccountsInv, TypeOK, Rowed
  <2>5. ASSUME NEW l \in Logins, login'[l] # Null
        PROVE  table'[login'[l].name] = login'[l].token
    <3>1. login[l] \in Row /\ login'[l] = login[l] BY <2>5 DEF AccountsInv, TypeOK
    <3>2. table[login[l].name] = login[l].token BY <3>1, <2>5 DEF AccountsInv, Rowed
    <3>3. login[l].name \in Names /\ login[l].token # Null
      BY <3>1, AccountsAssumption DEF Row
    <3>4. QED BY <2>1, <3>1, <3>2, <3>3
  <2>6. QED BY <2>2, <2>3, <2>4, <2>5 DEF Rowed
<1>9. QED BY <1>4, <1>6, <1>7, <1>8 DEF AccountsInv

-----------------------------------------------------------------------------
\* Every step of a registration preserves the invariant.
LEMMA RegisterPreserves ==
    ASSUME AccountsInv, NEW t \in Tokens, RegisterStep(t)
    PROVE  AccountsInv'
<1>0. register[t] \in Registration BY DEF AccountsInv, TypeOK
<1>1. ASSUME NEW n \in Names, Register(t, n) PROVE AccountsInv'
  <2> DEFINE r == [step |-> IF users[n] = Null THEN "hashing" ELSE "over", name |-> n]
  <2>1. r \in Registration /\ r.step \in {"hashing", "over"} /\ r.name \in Names
    BY DEF Registration
  <2>2. register' = [register EXCEPT ![t] = r] /\ register[t].step = "new"
    BY <1>1 DEF Register
  <2>3. UNCHANGED <<users, byToken, table, login, issued, restarts, pool>>
    BY <1>1 DEF Register
  <2> HIDE DEF r
  <2>4. QED BY <2>1, <2>2, <2>3, RegistrationMoves
<1>2. ASSUME Hashed(t) PROVE AccountsInv'
  <2>1. CASE pool
    <3> DEFINE r == [register[t] EXCEPT !.step = "inserting"]
    <3>1. register' = [register EXCEPT ![t] = r]
      BY <1>2, <2>1 DEF Hashed, Step, AccountsInv, TypeOK
    <3>2. r \in Registration /\ r.step = "inserting" /\ r.name = register[t].name
      BY <1>0 DEF Registration
    <3>3. register[t].step = "hashing" /\ register[t].name \in Names
      BY <1>2 DEF Hashed, AccountsInv, TypeOK
    <3>4. UNCHANGED <<users, byToken, table, login, issued, restarts, pool>>
      BY <1>2, <2>1 DEF Hashed
    <3> HIDE DEF r
    <3>5. QED BY <3>1, <3>2, <3>3, <3>4, RegistrationMoves
  <2>2. CASE ~pool
    BY <1>2, <2>2, AccountEnters DEF Hashed
  <2>3. QED BY <2>1, <2>2
<1>3. ASSUME register[t].step = "inserting", register' = Step(t, "over"),
             UNCHANGED <<users, byToken, table, login, issued, restarts, pool>>
      PROVE  AccountsInv'
  <2> DEFINE r == [register[t] EXCEPT !.step = "over"]
  <2>1. register' = [register EXCEPT ![t] = r]
    BY <1>3 DEF Step, AccountsInv, TypeOK
  <2>2. r \in Registration /\ r.step = "over" /\ r.name = register[t].name
    BY <1>0 DEF Registration
  <2> HIDE DEF r
  <2>3. QED BY <1>3, <2>1, <2>2, RegistrationMoves
<1>4. ASSUME Insert(t) PROVE AccountsInv'
  <2>1. CASE NameFree(register[t].name)
    BY <1>4, <2>1, AccountWritten DEF Insert, NameFree
  <2>2. CASE ~NameFree(register[t].name)
    BY <1>3, <1>4, <2>2 DEF Insert
  <2>3. QED BY <2>1, <2>2
<1>5. ASSUME InsertRejected(t) PROVE AccountsInv'
  <2>1. CASE UNCHANGED table
    BY <1>3, <1>5, <2>1 DEF InsertRejected
  <2>2. CASE NameFree(register[t].name) /\ table' = [table EXCEPT ![register[t].name] = t]
    BY <1>5, <2>2, AccountWritten DEF InsertRejected, NameFree
  <2>3. QED BY <1>5, <2>1, <2>2 DEF InsertRejected
<1>6. ASSUME Registered(t) PROVE AccountsInv'
  BY <1>6, AccountEnters DEF Registered
<1>7. QED BY <1>1, <1>2, <1>4, <1>5, <1>6 DEF RegisterStep

\* Every step of a login preserves the invariant.
LEMMA LoginPreserves ==
    ASSUME AccountsInv, NEW l \in Logins, LoginStep(l)
    PROVE  AccountsInv'
<1>1. ASSUME NEW n \in Names, Login(l, n) PROVE AccountsInv'
  <2> DEFINE row == [name |-> n, token |-> users[n]]
  <2>1. users[n] \in Tokens BY <1>1 DEF Login, AccountsInv, TypeOK
  <2>2. login' = [login EXCEPT ![l] = row] /\ row \in Row
    BY <1>1, <2>1 DEF Login, Row
  <2>3. login'[l] = row /\ \A k \in Logins \ {l} : login'[k] = login[k]
    BY <2>2 DEF AccountsInv, TypeOK
  <2>4. byToken[row.token] = row.name /\ (pool => table[row.name] = row.token)
    BY <1>1 DEF Login, AccountsInv, Backed, Rowed
  <2> HIDE DEF row
  <2>5. TypeOK' BY <1>1, <2>2 DEF Login, AccountsInv, TypeOK
  <2>6. Filed' BY <1>1 DEF Login, AccountsInv, Filed
  <2>7. Backed' BY <1>1, <2>3, <2>4 DEF Login, AccountsInv, Backed, TokensAccepted
  <2>8. Rowed' BY <1>1, <2>3, <2>4 DEF Login, AccountsInv, Rowed
  <2>9. QED BY <2>5, <2>6, <2>7, <2>8 DEF AccountsInv
<1>2. ASSUME Checked(l) PROVE AccountsInv'
  <2>1. login[l] \in Row /\ login[l].name \in Names /\ login[l].token \in Tokens
    BY <1>2 DEF Checked, AccountsInv, TypeOK, Row
  <2>2. login'[l] = Null /\ \A k \in Logins \ {l} : login'[k] = login[k]
    BY <1>2 DEF Checked, AccountsInv, TypeOK
  <2>3. \A n \in Names : \A t \in issued'[n] :
           t \in issued[n] \/ (n = login[l].name /\ t = login[l].token)
    BY <1>2, <2>1 DEF Checked, AccountsInv, TypeOK
  <2>4. byToken[login[l].token] = login[l].name
    BY <1>2 DEF Checked, AccountsInv, Backed
  <2>5. TypeOK' BY <1>2, <2>1 DEF Checked, AccountsInv, TypeOK
  <2>6. Filed' BY <1>2 DEF Checked, AccountsInv, Filed
  <2>7. Backed'
    BY <1>2, <2>2, <2>3, <2>4 DEF Checked, AccountsInv, Backed, TokensAccepted
  <2>8. Rowed'
    <3> SUFFICES ASSUME pool PROVE Rowed' BY <1>2 DEF Checked, Rowed
    <3>1. table[login[l].name] = login[l].token
      BY <1>2 DEF Checked, AccountsInv, Rowed
    <3>2. QED BY <1>2, <2>2, <2>3, <3>1 DEF Checked, AccountsInv, Rowed
  <2>9. QED BY <2>5, <2>6, <2>7, <2>8 DEF AccountsInv
<1>3. QED BY <1>1, <1>2 DEF LoginStep

\* A restart preserves the invariant: the way back is rebuilt from the table,
\* where no token has two names.
LEMMA RestartOfAccounts == AccountsInv /\ Restart => AccountsInv'
<1> SUFFICES ASSUME AccountsInv, Restart PROVE AccountsInv'
  OBVIOUS
<1>1. \A n \in Names : table[n] \in Tokens => Loaded[table[n]] = n
  <2>1. ASSUME NEW n \in Names, table[n] \in Tokens, NEW m \in Names, table[m] = table[n]
        PROVE  m = n
    BY <2>1, AccountsAssumption DEF AccountsInv, Filed
  <2>2. QED BY <2>1 DEF Loaded
<1>2. \A t \in Tokens : Loaded[t] \in Names \cup {Null}
  BY DEF Loaded
<1>3. ASSUME NEW t \in Tokens, Loaded[t] # Null PROVE table[Loaded[t]] = t /\ Loaded[t] \in Names
  BY <1>3 DEF Loaded
<1>4. \A t \in Tokens : /\ register'[t].name = register[t].name
                        /\ register'[t].step = IF register[t].step = "new" THEN "new" ELSE "over"
                        /\ register'[t] \in Registration
  BY DEF Restart, AccountsInv, TypeOK, Registration
<1>5. byToken' = Loaded /\ users' = table /\ table' = table /\ issued' = issued /\ pool' = pool
  BY DEF Restart
<1>6. \A l \in Logins : login'[l] = Null BY DEF Restart
<1>7. TypeOK'
  <2>1. byToken' \in [Tokens -> Names \cup {Null}]
    BY <1>2, <1>5 DEF Loaded
  <2>2. register' \in [Tokens -> Registration]
    BY <1>4 DEF Restart
  <2>3. login' \in [Logins -> Row \cup {Null}] BY DEF Restart
  <2>4. restarts' \in 0 .. MaxRestarts
    BY AccountsAssumption DEF Restart, AccountsInv, TypeOK
  <2>5. QED BY <1>4, <1>5, <2>1, <2>2, <2>3, <2>4 DEF AccountsInv, TypeOK
<1>8. Filed'
  <2>1. ASSUME NEW t \in Tokens, Loaded[t] # Null
        PROVE  register'[t].step # "new" /\ register'[t].name = Loaded[t]
    BY <1>3, <1>4, <2>1, AccountsAssumption DEF AccountsInv, Filed
  <2>2. ASSUME NEW n \in Names, table[n] # Null
        PROVE  register'[table[n]].step \in {"inserted", "over"} /\ register'[table[n]].name = n
    <3>1. table[n] \in Tokens BY <2>2 DEF AccountsInv, TypeOK
    <3>2. register[table[n]].step \in {"inserted", "over"} /\ register[table[n]].name = n
      BY <2>2 DEF AccountsInv, Filed
    <3>3. QED BY <1>4, <3>1, <3>2
  <2>3. QED BY <1>5, <2>1, <2>2 DEF Filed
<1>9. pool /\ \A n \in Names : \A t \in issued[n] : t \in Tokens /\ table[n] = t
  BY DEF Restart, AccountsInv, TypeOK, Rowed
<1>10. Backed'
  <2>1. \A n \in Names : users'[n] # Null => byToken'[users'[n]] = n
    BY <1>1, <1>5 DEF AccountsInv, TypeOK
  <2>2. TokensAccepted'
    BY <1>1, <1>5, <1>9 DEF TokensAccepted
  <2>3. QED BY <1>6, <2>1, <2>2 DEF Backed
<1>11. Rowed' BY <1>4, <1>5, <1>6, <1>9 DEF Rowed
<1>12. QED BY <1>7, <1>8, <1>10, <1>11 DEF AccountsInv

\* The invariant is inductive.
LEMMA AccountsStep == AccountsInv /\ [Next]_vars => AccountsInv'
<1> SUFFICES ASSUME AccountsInv, [Next]_vars PROVE AccountsInv'
  OBVIOUS
<1>1. CASE \E t \in Tokens : RegisterStep(t) BY <1>1, RegisterPreserves
<1>2. CASE \E l \in Logins : LoginStep(l) BY <1>2, LoginPreserves
<1>3. CASE Restart BY <1>3, RestartOfAccounts
<1>4. CASE UNCHANGED vars
  BY <1>4 DEF vars, AccountsInv, TypeOK, Filed, Backed, TokensAccepted, Rowed
<1>5. QED BY <1>1, <1>2, <1>3, <1>4 DEF Next

\* In every behaviour of Accounts the invariant holds.
LEMMA AccountsInvariant == Spec => []AccountsInv
BY AccountsInit, AccountsStep, PTL DEF Spec

-----------------------------------------------------------------------------
\* The variables of Accounts keep their types.
THEOREM AccountTypes == Spec => []TypeOK
<1>1. AccountsInv => TypeOK BY DEF AccountsInv
<1>2. QED BY <1>1, AccountsInvariant, PTL

\* With a pool one token is ever handed out for a name, whatever registrations
\* and logins race, fail or are cut short (createUser, insertUser, verifyLogin).
THEOREM OneTokenPerName == Spec => []SameTokenForever
<1>1. AccountsInv => SameTokenForever BY DEF AccountsInv, Rowed, SameTokenForever
<1>2. QED BY <1>1, AccountsInvariant, PTL

\* With or without a pool, a token handed out is accepted from then on
\* (createUser, userByToken, load).
THEOREM TokensStayAccepted == Spec => []TokensAccepted
<1>1. AccountsInv => TokensAccepted BY DEF AccountsInv, Backed
<1>2. QED BY <1>1, AccountsInvariant, PTL

-----------------------------------------------------------------------------
(* WebApp: the invariant.                                                  *)

Sockets == App!Ids
Socket == [of : Objects \cup {0}, state : {"connecting", "open", "closing", "closed"}]
Loop == [cred : Keys, closed : BOOLEAN, ws : Sockets, timers : Nat]

\* The types, but for the number of timers; a Retry that adds a loop is one.
AppTypes ==
    /\ {cookie, cred} \subseteq Keys \cup {Null} /\ checked \in BOOLEAN
    /\ cred # Null => cookie = cred
    /\ asked \in [kind : {"none", "check", "login", "paste"}, token : Keys \cup {Null}]
    /\ good \subseteq Keys /\ made \in Objects \cup {0}
    /\ ctrl \in [1 .. made -> Loop] /\ socks \in [Sockets -> Socket]
    /\ subscribed \subseteq Sockets /\ connection \in {"connecting", "online", "offline"}
    /\ viewing \in BOOLEAN
    /\ used \in [failures : Nat, forced : 0 .. MaxForced, added : Nat] /\ used.added <= used.forced

\* App checks the token it starts with before there is a Home, and the gate is
\* there only while there is none.
Asking ==
    /\ asked.kind = "check" => ~checked /\ cred # Null /\ made = 0 /\ asked.token = cred
    /\ ~checked => asked.kind = "check"
    /\ asked.kind \in {"login", "paste"} => cred = Null /\ asked.token # Null

\* A WebSocket has its ControlSocket, and only Home's is not closed.
Owned ==
    /\ \A w \in Sockets : socks[w].state # "closed" => socks[w].of \in 1 .. made
    /\ \A o \in 1 .. made : ctrl[o].closed = ~App!Home(o)

\* What a ControlSocket runs: as many loops as it was given.
Loops ==
    \A o \in 1 .. made :
        /\ Cardinality(App!Alive(o)) + ctrl[o].timers <= 1 + MaxForced
        /\ App!Home(o) => Cardinality(App!Alive(o)) + ctrl[o].timers = 1 + used.added

\* With one loop, this.ws is the WebSocket there is.
Latest ==
    \A o \in 1 .. made : App!Home(o) /\ used.added = 0 => \A w \in App!Alive(o) : ctrl[o].ws = w

\* The WebSocket that Home's state speaks of is one of its own.
OnlineAlive ==
    \A o \in 1 .. made : App!Home(o) /\ connection = "online" =>
        \E w \in App!Alive(o) : socks[w].state \in {"open", "closing"}

\* Only Retry and the logout close a WebSocket.
Unretried ==
    \A o \in 1 .. made : App!Home(o) /\ used.forced = 0 =>
        \A w \in App!Alive(o) : socks[w].state # "closing"

AppInv ==
    /\ AppTypes /\ Asking /\ Owned /\ Loops /\ Latest
    /\ OnlineAlive /\ Unretried /\ App!Subscribed
PartAppInv == part = "app" => AppInv

-----------------------------------------------------------------------------
(* WebApp: the loops of a ControlSocket.                                   *)

\* The WebSockets of a ControlSocket can be counted.
LEMMA AliveFinite ==
    ASSUME NEW o
    PROVE  /\ App!Alive(o) \subseteq Sockets /\ IsFiniteSet(App!Alive(o))
           /\ Cardinality(App!Alive(o)) \in Nat
<1>1. IsFiniteSet(Sockets)
  BY KeysAssumption, FS_Interval DEF Sockets, App!Ids
<1>2. App!Alive(o) \subseteq Sockets
  BY DEF App!Alive, Sockets
<1>3. QED BY <1>1, <1>2, FS_Subset, FS_CardinalityType

\* One WebSocket more, or one less.
LEMMA AliveMore ==
    ASSUME NEW o, NEW w, w \notin App!Alive(o), App!Alive(o)' = App!Alive(o) \cup {w}
    PROVE  Cardinality(App!Alive(o))' = Cardinality(App!Alive(o)) + 1
BY AliveFinite, FS_AddElement

\* One loop less when a WebSocket closes for good.
LEMMA AliveLess ==
    ASSUME NEW o, NEW w, w \in App!Alive(o), App!Alive(o)' = App!Alive(o) \ {w}
    PROVE  Cardinality(App!Alive(o))' = Cardinality(App!Alive(o)) - 1
BY AliveFinite, FS_RemoveElement

\* Two WebSockets are more than one.
LEMMA AliveOne ==
    ASSUME NEW o, Cardinality(App!Alive(o)) <= 1, NEW v \in App!Alive(o), NEW w \in App!Alive(o)
    PROVE  v = w
<1>1. Cardinality(App!Alive(o) \ {v}) = Cardinality(App!Alive(o)) - 1 /\ IsFiniteSet(App!Alive(o) \ {v})
  BY AliveFinite, FS_RemoveElement
<1>2. CASE w # v
  <2>1. w \in App!Alive(o) \ {v}
    BY <1>2
  <2>2. Cardinality(App!Alive(o) \ {v}) # 0
    BY <1>1, <2>1, FS_EmptySet
  <2>3. Cardinality(App!Alive(o) \ {v}) \in Nat
    BY <1>1, FS_CardinalityType
  <2>4. QED BY <1>1, <2>2, <2>3, AliveFinite
<1>3. QED BY <1>2

\* A ControlSocket without a WebSocket counts none.
LEMMA AliveNone ==
    ASSUME NEW o, Cardinality(App!Alive(o)) = 0
    PROVE  App!Alive(o) = {}
BY AliveFinite, FS_EmptySet

\* ControlSockets are counted.
LEMMA MadeNat == ASSUME AppTypes PROVE made \in Nat
BY KeysAssumption DEF AppTypes

\* connect takes a WebSocket that was closed.
LEMMA ConnectFacts ==
    ASSUME AppTypes, NEW o \in Objects, NEW c \in Loop, App!connect(o, c)
    PROVE  \E w \in Sockets :
             /\ socks[w].state = "closed"
             /\ socks' \in [Sockets -> Socket]
             /\ socks'[w] = [of |-> o, state |-> "connecting"]
             /\ \A v \in Sockets \ {w} : socks'[v] = socks[v]
             /\ DOMAIN ctrl' = 1 .. made \cup {o}
             /\ ctrl'[o] \in Loop /\ ctrl'[o].ws = w /\ ctrl'[o].closed = c.closed
             /\ ctrl'[o].timers = c.timers
             /\ \A p \in 1 .. made : p # o => ctrl'[p] = ctrl[p]
             /\ ctrl' \in [1 .. made \cup {o} -> Loop]
             /\ subscribed' = subscribed \ {w}
             /\ App!Alive(o)' = App!Alive(o) \cup {w} /\ w \notin App!Alive(o)
             /\ \A p : p # o => App!Alive(p)' = App!Alive(p)
<1>1. PICK w \in App!Free :
         /\ socks' = [socks EXCEPT ![w] = [of |-> o, state |-> "connecting"]]
         /\ ctrl' = [p \in DOMAIN ctrl \cup {o} |-> IF p = o THEN [c EXCEPT !.ws = w] ELSE ctrl[p]]
         /\ subscribed' = subscribed \ {w}
  BY DEF App!connect
<1>2. w \in Sockets /\ socks[w].state = "closed"
  BY <1>1 DEF App!Free, Sockets
<1> DEFINE x == [c EXCEPT !.ws = w]
           y == [of |-> o, state |-> "connecting"]
<1>3. x \in Loop /\ x.ws = w /\ x.closed = c.closed /\ x.timers = c.timers
  BY <1>2 DEF Loop
<1>4. y \in Socket /\ y.of = o /\ y.state # "closed"
  BY DEF Socket
<1>5. DOMAIN ctrl = 1 .. made /\ ctrl \in [1 .. made -> Loop] /\ socks \in [Sockets -> Socket]
  BY DEF AppTypes
<1> HIDE DEF x, y
<1>6. ctrl' = [p \in 1 .. made \cup {o} |-> IF p = o THEN x ELSE ctrl[p]]
  BY <1>1, <1>5 DEF x
<1>7. /\ ctrl' \in [1 .. made \cup {o} -> Loop] /\ ctrl'[o] = x
      /\ \A p \in 1 .. made : p # o => ctrl'[p] = ctrl[p]
  BY <1>3, <1>5, <1>6
<1>8. /\ socks' \in [Sockets -> Socket] /\ socks'[w] = y
      /\ \A v \in Sockets \ {w} : socks'[v] = socks[v]
  BY <1>1, <1>2, <1>4, <1>5 DEF y
<1>9. App!Alive(o)' = App!Alive(o) \cup {w} /\ w \notin App!Alive(o)
  BY <1>2, <1>4, <1>8 DEF App!Alive, Sockets
<1>10. \A p : p # o => App!Alive(p)' = App!Alive(p)
  BY <1>2, <1>4, <1>8 DEF App!Alive, Sockets
<1>11. QED BY <1>1, <1>2, <1>3, <1>6, <1>7, <1>8, <1>9, <1>10 DEF y

-----------------------------------------------------------------------------
(* WebApp: the first state, and a ControlSocket that connects.             *)

\* A page that starts is in step: it has no ControlSocket yet.
LEMMA AppInit == App!Init => AppInv
<1> SUFFICES ASSUME App!Init PROVE AppInv OBVIOUS
<1>1. 1 .. made = {} /\ made = 0
  BY DEF App!Init
<1>2. ctrl \in [1 .. made -> Loop]
  BY <1>1 DEF App!Init
<1>3. socks \in [Sockets -> Socket] /\ \A w \in Sockets : socks[w].state = "closed"
  BY DEF App!Init, Sockets, Socket
<1>4. used \in [failures : Nat, forced : 0 .. MaxForced, added : Nat] /\ used.added <= used.forced
  BY KeysAssumption DEF App!Init
<1>5. AppTypes
  <2>1. cookie \in Keys \cup {Null} /\ cred = cookie /\ checked = (cookie = Null)
    BY DEF App!Init
  <2>2. asked \in [kind : {"none", "check", "login", "paste"}, token : Keys \cup {Null}]
    BY <2>1 DEF App!Init, App!NoRequest
  <2>3. QED BY <1>1, <1>2, <1>3, <1>4, <2>1, <2>2 DEF App!Init, AppTypes
<1>6. Asking
  BY KeysAssumption DEF App!Init, App!NoRequest, Asking
<1>7. Owned /\ Loops /\ Latest /\ OnlineAlive /\ Unretried /\ App!Subscribed
  BY <1>1, <1>3 DEF Owned, Loops, Latest, OnlineAlive, Unretried, App!Subscribed
<1>8. QED BY <1>5, <1>6, <1>7 DEF AppInv

\* A ControlSocket that is there connects again: a timer of it fired, or Retry
\* found nothing to close.
LEMMA ConnectKeeps ==
    ASSUME AppInv, NEW o \in Objects, o \in 1 .. made, NEW c \in Loop, App!connect(o, c),
           c.closed = ctrl[o].closed,
           UNCHANGED <<cookie, cred, checked, asked, good, made, viewing>>,
           connection' = IF App!Home(o) THEN "connecting" ELSE connection,
           used' \in [failures : Nat, forced : 0 .. MaxForced, added : Nat], used'.added <= used'.forced,
           \/ c.timers + 1 = ctrl[o].timers /\ used' = used
           \/ c.timers = ctrl[o].timers /\ App!Home(o) /\ used'.added = used.added + 1
    PROVE  AppInv'
<1>1. PICK w \in Sockets :
         /\ socks[w].state = "closed"
         /\ socks' \in [Sockets -> Socket]
         /\ socks'[w] = [of |-> o, state |-> "connecting"]
         /\ \A v \in Sockets \ {w} : socks'[v] = socks[v]
         /\ ctrl'[o] \in Loop /\ ctrl'[o].ws = w /\ ctrl'[o].closed = c.closed
         /\ ctrl'[o].timers = c.timers
         /\ \A p \in 1 .. made : p # o => ctrl'[p] = ctrl[p]
         /\ ctrl' \in [1 .. made \cup {o} -> Loop]
         /\ subscribed' = subscribed \ {w}
         /\ App!Alive(o)' = App!Alive(o) \cup {w} /\ w \notin App!Alive(o)
         /\ \A p : p # o => App!Alive(p)' = App!Alive(p)
  BY ConnectFacts DEF AppInv
<1>2. 1 .. made \cup {o} = 1 .. made /\ made' = made
  OBVIOUS
<1>3. AppTypes'
  <2>1. ctrl' \in [1 .. made' -> Loop] BY <1>1, <1>2
  <2>2. connection' \in {"connecting", "online", "offline"} BY DEF AppInv, AppTypes
  <2>3. QED BY <1>1, <2>1, <2>2 DEF AppInv, AppTypes
<1>4. Asking'
  BY DEF AppInv, Asking
<1>5. \A p : App!Home(p)' <=> App!Home(p)
  BY DEF App!Home
<1>6. Owned'
  BY <1>1, <1>5 DEF AppInv, Owned
<1>7. Cardinality(App!Alive(o))' = Cardinality(App!Alive(o)) + 1
      /\ \A p \in 1 .. made : p # o => Cardinality(App!Alive(p))' = Cardinality(App!Alive(p))
  BY <1>1, AliveMore
<1>8. c.timers \in Nat /\ ctrl[o].timers \in Nat /\ used.added \in Nat
      /\ Cardinality(App!Alive(o)) \in Nat /\ used' \in [failures : Nat, forced : 0 .. MaxForced, added : Nat]
      /\ used'.added <= MaxForced /\ MaxForced \in Nat
  BY AliveFinite, KeysAssumption, SMTT(20) DEF AppInv, AppTypes, Loop
<1>9. Loops'
  <2>1. ASSUME NEW p \in 1 .. made
        PROVE  /\ Cardinality(App!Alive(p))' + ctrl'[p].timers <= 1 + MaxForced
               /\ App!Home(p) => Cardinality(App!Alive(p))' + ctrl'[p].timers = 1 + used'.added
    <3>1. /\ Cardinality(App!Alive(p)) + ctrl[p].timers <= 1 + MaxForced
          /\ App!Home(p) => Cardinality(App!Alive(p)) + ctrl[p].timers = 1 + used.added
      BY DEF AppInv, Loops
    <3>2. CASE p = o
      <4>1. CASE c.timers + 1 = ctrl[o].timers /\ used' = used
        <5>1. Cardinality(App!Alive(o))' + ctrl'[o].timers = Cardinality(App!Alive(o)) + ctrl[o].timers
          BY <1>1, <1>7, <1>8, <4>1
        <5>2. QED BY <3>1, <3>2, <4>1, <5>1
      <4>2. CASE c.timers = ctrl[o].timers /\ App!Home(o) /\ used'.added = used.added + 1
        <5>1. Cardinality(App!Alive(o))' + ctrl'[o].timers = Cardinality(App!Alive(o)) + ctrl[o].timers + 1
          BY <1>1, <1>7, <1>8, <4>2
        <5>2. Cardinality(App!Alive(o))' + ctrl'[o].timers = 1 + used'.added
          BY <1>8, <3>1, <3>2, <4>2, <5>1
        <5>3. 1 + used'.added <= 1 + MaxForced
          BY <1>8
        <5>4. QED BY <3>2, <5>2, <5>3
      <4>3. QED BY <4>1, <4>2
    <3>3. CASE p # o
      <4>1. Cardinality(App!Alive(p))' + ctrl'[p].timers = Cardinality(App!Alive(p)) + ctrl[p].timers
        BY <1>1, <1>7, <3>3
      <4>2. App!Home(p) => used' = used BY <3>3 DEF App!Home
      <4>3. QED BY <3>1, <4>1, <4>2
    <3>4. QED BY <3>2, <3>3
  <2>2. QED BY <1>2, <1>5, <2>1 DEF Loops
<1>10. App!Home(o) /\ used'.added = 0 => App!Alive(o) = {}
  <2>1. SUFFICES ASSUME App!Home(o), used'.added = 0 PROVE Cardinality(App!Alive(o)) = 0
    BY AliveNone
  <2>2. Cardinality(App!Alive(o)) + ctrl[o].timers = 1 + used.added /\ used' = used
    BY <1>8, <2>1 DEF AppInv, Loops
  <2>3. QED BY <1>8, <2>1, <2>2
<1>11. \A p \in 1 .. made : p # o /\ App!Home(p) => used' = used
  BY DEF App!Home
<1>12. Latest'
  BY <1>1, <1>2, <1>5, <1>10, <1>11 DEF AppInv, Latest
<1>13. OnlineAlive'
  <2>1. ASSUME NEW p \in 1 .. made, App!Home(p), connection' = "online"
        PROVE  \E v \in App!Alive(p)' : socks'[v].state \in {"open", "closing"}
    <3>1. p # o /\ connection = "online" BY <2>1
    <3>2. PICK v \in App!Alive(p) : socks[v].state \in {"open", "closing"}
      BY <2>1, <3>1 DEF AppInv, OnlineAlive
    <3>3. v \in Sockets /\ v # w BY <1>1, <3>2 DEF App!Alive, Sockets
    <3>4. QED BY <1>1, <3>1, <3>2, <3>3
  <2>2. QED BY <1>2, <1>5, <2>1 DEF OnlineAlive
<1>14. App!Subscribed'
  <2>1. ASSUME NEW p \in 1 .. made, App!Home(p), viewing, used'.added = 0,
               NEW v \in App!Alive(p)', socks'[v].state = "open"
        PROVE  v \in subscribed'
    <3>1. v # w /\ v \in Sockets BY <1>1, <2>1 DEF App!Alive, Sockets
    <3>2. v \in App!Alive(p) /\ socks[v].state = "open" BY <1>1, <2>1, <3>1
    <3>3. p # o BY <1>10, <2>1, <3>2
    <3>4. v \in subscribed BY <1>11, <2>1, <3>2, <3>3 DEF AppInv, App!Subscribed
    <3>5. QED BY <1>1, <3>1, <3>4
  <2>2. QED BY <1>2, <1>5, <2>1 DEF App!Subscribed
<1>15. Unretried'
  <2>1. ASSUME NEW p \in 1 .. made, App!Home(p), used'.forced = 0,
               NEW v \in App!Alive(p)'
        PROVE  socks'[v].state # "closing"
    <3>1. used' = used BY <1>8, <2>1
    <3>2. v \in Sockets BY <2>1 DEF App!Alive, Sockets
    <3>3. CASE v = w BY <1>1, <3>3
    <3>4. CASE v # w
      <4>1. v \in App!Alive(p) BY <1>1, <2>1, <3>2, <3>4
      <4>2. socks[v].state # "closing" BY <2>1, <3>1, <4>1 DEF AppInv, Unretried
      <4>3. QED BY <1>1, <3>2, <3>4, <4>2
    <3>5. QED BY <3>3, <3>4
  <2>2. QED BY <1>2, <1>5, <2>1 DEF Unretried
<1>16. QED BY <1>3, <1>4, <1>6, <1>9, <1>12, <1>13, <1>14, <1>15 DEF AppInv

\* A timer fires: the ControlSocket connects, unless it was closed meanwhile.
LEMMA TimerKeeps ==
    ASSUME AppInv, NEW o \in Objects, App!Timer(o)
    PROVE  AppInv'
<1> DEFINE c == [ctrl[o] EXCEPT !.timers = @ - 1]
<1>1. /\ o \in 1 .. made /\ ctrl[o].timers > 0 /\ App!connect(o, c)
      /\ connection' = IF App!Home(o) THEN "connecting" ELSE connection
      /\ UNCHANGED <<cookie, cred, checked, asked, good, made, viewing, used>>
  BY DEF App!Timer
<1>2. ctrl[o] \in Loop
  BY <1>1 DEF AppInv, AppTypes
<1>3. c \in Loop /\ c.closed = ctrl[o].closed /\ c.timers + 1 = ctrl[o].timers
  BY <1>1, <1>2 DEF Loop
<1>4. used' \in [failures : Nat, forced : 0 .. MaxForced, added : Nat] /\ used'.added <= used'.forced
  BY <1>1 DEF AppInv, AppTypes
<1> HIDE DEF c
<1>5. QED BY <1>1, <1>3, <1>4, ConnectKeeps

\* Retry.
LEMMA ReconnectKeeps ==
    ASSUME AppInv, App!Reconnect
    PROVE  AppInv'
<1> DEFINE o == made
           w == ctrl[made].ws
<1>1. /\ used.forced < MaxForced /\ App!Home(o) /\ o \in 1 .. made
      /\ UNCHANGED <<cookie, cred, checked, asked, good, made, viewing>>
  BY DEF App!Reconnect, App!Home
<1>2. o \in Objects /\ ctrl[o] \in Loop /\ w \in Sockets
  BY <1>1 DEF AppInv, AppTypes, Loop
<1>3. CASE /\ ~App!OpenOrOpening(made)
           /\ used' = [used EXCEPT !.forced = @ + 1, !.added = @ + 1]
           /\ App!connect(made, ctrl[made]) /\ connection' = "connecting"
  <2>1. /\ used' \in [failures : Nat, forced : 0 .. MaxForced, added : Nat] /\ used'.added <= used'.forced
        /\ used'.added = used.added + 1
    <3>1. /\ used \in [failures : Nat, forced : 0 .. MaxForced, added : Nat] /\ used.added <= used.forced
          /\ MaxForced \in Nat
      BY KeysAssumption DEF AppInv, AppTypes
    <3>2. used.forced + 1 \in 0 .. MaxForced /\ used.added + 1 \in Nat /\ used.added + 1 <= used.forced + 1
      BY <1>1, <3>1
    <3>3. QED BY <1>3, <3>1, <3>2
  <2>2. QED BY <1>1, <1>2, <1>3, <2>1, ConnectKeeps
<1>4. CASE /\ App!OpenOrOpening(made)
           /\ used' = [used EXCEPT !.forced = @ + 1]
           /\ socks' = [socks EXCEPT ![w].state = "closing"]
           /\ UNCHANGED <<ctrl, subscribed, connection>>
  <2>1. /\ used' \in [failures : Nat, forced : 0 .. MaxForced, added : Nat] /\ used'.added <= used'.forced
        /\ used'.added = used.added /\ used'.forced # 0
    BY <1>1, <1>4, KeysAssumption DEF AppInv, AppTypes
  <2>2. socks \in [Sockets -> Socket] /\ socks[w].state # "closed" /\ socks[w] \in Socket
    BY <1>2, <1>4 DEF AppInv, AppTypes, App!OpenOrOpening
  <2>3. /\ socks' \in [Sockets -> Socket]
        /\ \A v \in Sockets \ {w} : socks'[v] = socks[v]
        /\ socks'[w].of = socks[w].of /\ socks'[w].state = "closing"
    BY <1>2, <1>4, <2>2 DEF Socket
  <2>4. \A p : App!Alive(p)' = App!Alive(p)
    BY <2>2, <2>3, <1>2 DEF App!Alive, Sockets
  <2>5. \A p : App!Home(p)' <=> App!Home(p)
    BY <1>1 DEF App!Home
  <2>6. AppTypes' /\ Asking'
    BY <1>1, <1>4, <2>1, <2>3 DEF AppInv, AppTypes, Asking
  <2>7. Owned'
    BY <1>1, <1>4, <2>2, <2>3, <2>5, <1>2 DEF AppInv, Owned
  <2>8. Loops' /\ Latest' /\ Unretried'
    BY <1>1, <1>4, <2>1, <2>4, <2>5 DEF AppInv, Loops, Latest, Unretried
  <2>9. OnlineAlive'
    <3>1. ASSUME NEW p \in 1 .. made, App!Home(p), connection = "online"
          PROVE  \E v \in App!Alive(p) : socks'[v].state \in {"open", "closing"}
      <4>1. PICK v \in App!Alive(p) : socks[v].state \in {"open", "closing"}
        BY <3>1 DEF AppInv, OnlineAlive
      <4>2. v \in Sockets BY DEF App!Alive, Sockets
      <4>3. QED BY <2>3, <4>1, <4>2
    <3>2. QED BY <1>1, <1>4, <2>4, <2>5, <3>1 DEF OnlineAlive
  <2>10. App!Subscribed'
    <3>1. ASSUME NEW p \in 1 .. made, App!Home(p), viewing, used.added = 0,
                 NEW v \in App!Alive(p), socks'[v].state = "open"
          PROVE  v \in subscribed
      <4>1. v \in Sockets BY DEF App!Alive, Sockets
      <4>2. socks[v].state = "open" BY <2>3, <3>1, <4>1
      <4>3. QED BY <3>1, <4>2 DEF AppInv, App!Subscribed
    <3>2. QED BY <1>1, <1>4, <2>1, <2>4, <2>5, <3>1 DEF App!Subscribed
  <2>11. QED BY <2>6, <2>7, <2>8, <2>9, <2>10 DEF AppInv
<1>5. QED BY <1>3, <1>4 DEF App!Reconnect

-----------------------------------------------------------------------------
(* WebApp: what the browser says of a WebSocket.                           *)

\* onopen.
LEMMA OpenedKeeps ==
    ASSUME AppInv, NEW w \in Sockets, App!Opened(w)
    PROVE  AppInv'
<1> DEFINE o == socks[w].of
           open == App!OpenSocks \cup {w}
<1>1. /\ socks[w].state = "connecting" /\ socks' = [socks EXCEPT ![w].state = "open"]
      /\ subscribed' = App!Resubscribed(o, open)
      /\ connection' = IF App!Home(o) THEN "online" ELSE connection
      /\ UNCHANGED <<cookie, cred, checked, asked, good, made, ctrl, viewing, used>>
  BY DEF App!Opened
<1>2. socks \in [Sockets -> Socket] /\ socks[w] \in Socket
  BY DEF AppInv, AppTypes
<1>3. /\ socks' \in [Sockets -> Socket]
      /\ \A v \in Sockets \ {w} : socks'[v] = socks[v]
      /\ socks'[w].of = o /\ socks'[w].state = "open"
  BY <1>1, <1>2 DEF Socket
<1>4. o \in 1 .. made /\ w \in App!Alive(o)
  BY <1>1 DEF AppInv, Owned, App!Alive, Sockets
<1> HIDE DEF o, open
<1>5. \A p : App!Alive(p)' = App!Alive(p)
  BY <1>1, <1>3 DEF App!Alive, Sockets, o
<1>6. \A p : App!Home(p)' <=> App!Home(p)
  BY <1>1 DEF App!Home
<1>7. subscribed' = (IF App!Home(o) /\ viewing /\ connection # "online" /\ ctrl[o].ws \in open
                     THEN subscribed \cup {ctrl[o].ws} ELSE subscribed)
  BY <1>1 DEF App!Resubscribed
<1>8. subscribed \subseteq subscribed' /\ subscribed' \subseteq Sockets
  BY <1>4, <1>7 DEF AppInv, AppTypes, Loop
<1>9. AppTypes' /\ Asking'
  BY <1>1, <1>3, <1>8 DEF AppInv, AppTypes, Asking
<1>10. Owned'
  BY <1>1, <1>3, <1>4, <1>6 DEF AppInv, Owned, o
<1>11. Loops' /\ Latest'
  BY <1>1, <1>5, <1>6 DEF AppInv, Loops, Latest
<1>12. OnlineAlive'
  <2>1. ASSUME NEW p \in 1 .. made, App!Home(p), connection' = "online"
        PROVE  \E v \in App!Alive(p) : socks'[v].state \in {"open", "closing"}
    <3>1. CASE p = o BY <1>3, <1>4, <3>1
    <3>2. CASE p # o
      <4>1. connection = "online" BY <1>1, <2>1, <3>2 DEF App!Home
      <4>2. PICK v \in App!Alive(p) : socks[v].state \in {"open", "closing"}
        BY <2>1, <4>1 DEF AppInv, OnlineAlive
      <4>3. v \in Sockets /\ v # w BY <1>1, <4>2 DEF App!Alive, Sockets
      <4>4. QED BY <1>3, <4>2, <4>3
    <3>3. QED BY <3>1, <3>2
  <2>2. QED BY <1>1, <1>5, <1>6, <2>1 DEF OnlineAlive
<1>13. App!Subscribed'
  <2>1. ASSUME NEW p \in 1 .. made, App!Home(p), viewing, used.added = 0,
               NEW v \in App!Alive(p), socks'[v].state = "open"
        PROVE  v \in subscribed'
    <3>1. CASE v = w
      <4>1. p = o /\ ctrl[o].ws = w
        BY <1>4, <2>1, <3>1 DEF AppInv, Latest, App!Alive, o
      <4>2. connection # "online"
        <5>1. SUFFICES ASSUME connection = "online" PROVE FALSE OBVIOUS
        <5>2. PICK u \in App!Alive(o) : socks[u].state \in {"open", "closing"}
          BY <1>4, <2>1, <4>1, <5>1 DEF AppInv, OnlineAlive
        <5>3. u = w BY <1>4, <2>1, <4>1, <5>2 DEF AppInv, Latest
        <5>4. QED BY <1>1, <5>2, <5>3
      <4>3. QED BY <1>7, <2>1, <3>1, <4>1, <4>2 DEF open
    <3>2. CASE v # w
      <4>1. v \in Sockets BY DEF App!Alive, Sockets
      <4>2. v \in subscribed BY <1>3, <2>1, <3>2, <4>1 DEF AppInv, App!Subscribed
      <4>3. QED BY <1>8, <4>2
    <3>3. QED BY <3>1, <3>2
  <2>2. QED BY <1>1, <1>5, <1>6, <2>1 DEF App!Subscribed
<1>14. Unretried'
  <2>1. ASSUME NEW p \in 1 .. made, App!Home(p), used.forced = 0, NEW v \in App!Alive(p)
        PROVE  socks'[v].state # "closing"
    <3>1. v \in Sockets BY DEF App!Alive, Sockets
    <3>2. socks[v].state # "closing" BY <2>1 DEF AppInv, Unretried
    <3>3. QED BY <1>3, <3>1, <3>2
  <2>2. QED BY <1>1, <1>5, <1>6, <2>1 DEF Unretried
<1>15. QED BY <1>9, <1>10, <1>11, <1>12, <1>13, <1>14 DEF AppInv

\* onclose, of a WebSocket that was being closed, is refused or drops.
LEMMA ClosedKeeps ==
    ASSUME AppInv, NEW w \in Sockets, App!Closed(w)
    PROVE  AppInv'
<1>0. PICK o : o = socks[w].of
  OBVIOUS
<1>1. /\ socks[w].state \in {"closing", "connecting", "open"}
      /\ used' = used \/ used' = [used EXCEPT !.failures = @ + 1]
      /\ socks' = [socks EXCEPT ![w] = [of |-> 0, state |-> "closed"]]
      /\ ctrl' = [ctrl EXCEPT ![o].timers = App!BackOff(ctrl[o])]
      /\ subscribed' = subscribed \ {w}
      /\ connection' = App!Status(o)
      /\ UNCHANGED <<cookie, cred, checked, asked, good, made, viewing>>
  BY <1>0 DEF App!Closed, App!Fails
<1>2. /\ used' \in [failures : Nat, forced : 0 .. MaxForced, added : Nat] /\ used'.added <= used'.forced
      /\ used'.added = used.added /\ used.added \in Nat /\ used'.forced = used.forced
  BY <1>1 DEF AppInv, AppTypes
<1>3. socks \in [Sockets -> Socket] /\ [of |-> 0, state |-> "closed"] \in Socket
  BY DEF AppInv, AppTypes, Socket
<1>4. /\ socks' \in [Sockets -> Socket]
      /\ \A v \in Sockets \ {w} : socks'[v] = socks[v]
      /\ socks'[w].state = "closed"
  BY <1>1, <1>3
<1>5. o \in 1 .. made /\ w \in App!Alive(o)
  BY <1>0, <1>1 DEF AppInv, Owned, App!Alive, Sockets
<1>6. ctrl[o] \in Loop /\ ctrl \in [1 .. made -> Loop] /\ ctrl[o].closed = ~App!Home(o)
  BY <1>5 DEF AppInv, AppTypes, Owned
<1> DEFINE x == [ctrl[o] EXCEPT !.timers = App!BackOff(ctrl[o])]
<1>7. /\ x \in Loop /\ x.ws = ctrl[o].ws /\ x.closed = ctrl[o].closed
      /\ x.timers = IF App!Home(o) THEN ctrl[o].timers + 1 ELSE ctrl[o].timers
      /\ ctrl[o].timers \in Nat
  BY <1>6 DEF Loop, App!BackOff
<1> HIDE DEF x
<1>8. /\ ctrl' \in [1 .. made -> Loop] /\ ctrl'[o] = x
      /\ \A p \in 1 .. made : p # o => ctrl'[p] = ctrl[p]
  BY <1>1, <1>5, <1>6, <1>7 DEF x
<1>9. \A p \in 1 .. made : ctrl'[p].ws = ctrl[p].ws /\ ctrl'[p].closed = ctrl[p].closed
  BY <1>7, <1>8
<1>10. connection' = IF App!Home(o) THEN "offline" ELSE connection
  BY <1>1, <1>6 DEF App!Status
<1>11. /\ App!Alive(o)' = App!Alive(o) \ {w}
       /\ \A p : p # o => App!Alive(p)' = App!Alive(p)
  <2>1. \A p, v : v \in App!Alive(p)' <=> v \in App!Alive(p) /\ v # w
    BY <1>4 DEF App!Alive, Sockets
  <2>2. \A p : p # o => w \notin App!Alive(p)
    BY <1>0 DEF App!Alive
  <2>3. QED BY <2>1, <2>2
<1>12. \A p : App!Home(p)' <=> App!Home(p)
  BY <1>1 DEF App!Home
<1>13. AppTypes' /\ Asking'
  BY <1>1, <1>2, <1>4, <1>8, <1>10 DEF AppInv, AppTypes, Asking
<1>14. Owned'
  BY <1>1, <1>4, <1>9, <1>12 DEF AppInv, Owned
<1>15. Cardinality(App!Alive(o))' = Cardinality(App!Alive(o)) - 1 /\ Cardinality(App!Alive(o)) \in Nat
       /\ \A p \in 1 .. made : p # o => Cardinality(App!Alive(p))' = Cardinality(App!Alive(p))
  <2>1. Cardinality(App!Alive(o))' = Cardinality(App!Alive(o)) - 1 BY <1>5, <1>11, AliveLess
  <2>2. QED BY <1>11, <2>1, AliveFinite
<1>16. Loops'
  <2>1. ASSUME NEW p \in 1 .. made
        PROVE  /\ Cardinality(App!Alive(p))' + ctrl'[p].timers <= 1 + MaxForced
               /\ App!Home(p) => Cardinality(App!Alive(p))' + ctrl'[p].timers = 1 + used.added
    <3>1. /\ Cardinality(App!Alive(p)) + ctrl[p].timers <= 1 + MaxForced
          /\ App!Home(p) => Cardinality(App!Alive(p)) + ctrl[p].timers = 1 + used.added
      BY DEF AppInv, Loops
    <3>2. CASE p = o /\ App!Home(p)
      <4>1. Cardinality(App!Alive(o))' + ctrl'[o].timers = Cardinality(App!Alive(o)) + ctrl[o].timers
        BY <1>7, <1>8, <1>15, <3>2
      <4>2. QED BY <3>1, <3>2, <4>1
    <3>3. CASE p = o /\ ~App!Home(p)
      <4>1. PICK n \in Nat : n = Cardinality(App!Alive(o)) + ctrl[o].timers
        BY <1>7, <1>15
      <4>2. Cardinality(App!Alive(o))' + ctrl'[o].timers = n - 1
        BY <1>7, <1>8, <1>15, <3>3, <4>1
      <4>3. n <= 1 + MaxForced BY <3>1, <3>3, <4>1
      <4>4. n - 1 <= 1 + MaxForced BY <4>3, KeysAssumption
      <4>5. QED BY <3>3, <4>2, <4>4
    <3>4. CASE p # o
      <4>1. Cardinality(App!Alive(p))' + ctrl'[p].timers = Cardinality(App!Alive(p)) + ctrl[p].timers
        BY <1>8, <1>15, <3>4
      <4>2. QED BY <3>1, <4>1
    <3>5. QED BY <3>2, <3>3, <3>4
  <2>2. QED BY <1>1, <1>2, <1>12, <2>1 DEF Loops
<1>17. \A p : App!Alive(p)' \subseteq App!Alive(p)
  BY <1>11
<1>18. Latest'
  BY <1>1, <1>2, <1>9, <1>12, <1>17 DEF AppInv, Latest
<1>19. OnlineAlive'
  <2>1. ASSUME NEW p \in 1 .. made, App!Home(p), connection' = "online"
        PROVE  \E v \in App!Alive(p)' : socks'[v].state \in {"open", "closing"}
    <3>1. p # o /\ connection = "online" BY <1>10, <2>1 DEF App!Home
    <3>2. PICK v \in App!Alive(p) : socks[v].state \in {"open", "closing"}
      BY <2>1, <3>1 DEF AppInv, OnlineAlive
    <3>3. v \in Sockets /\ v # w BY <1>5, <3>1, <3>2, <1>0 DEF App!Alive, Sockets
    <3>4. QED BY <1>4, <1>11, <3>1, <3>2, <3>3
  <2>2. QED BY <1>1, <1>12, <2>1 DEF OnlineAlive
<1>20. App!Subscribed'
  <2>1. ASSUME NEW p \in 1 .. made, App!Home(p), viewing, used.added = 0,
               NEW v \in App!Alive(p)', socks'[v].state = "open"
        PROVE  v \in subscribed'
    <3>1. v \in App!Alive(p) /\ v \in Sockets BY <1>17 DEF App!Alive, Sockets
    <3>2. v # w BY <1>4, <2>1
    <3>3. v \in subscribed BY <1>4, <2>1, <3>1, <3>2 DEF AppInv, App!Subscribed
    <3>4. QED BY <1>1, <3>2, <3>3
  <2>2. QED BY <1>1, <1>2, <1>12, <2>1 DEF App!Subscribed
<1>21. Unretried'
  <2>1. ASSUME NEW p \in 1 .. made, App!Home(p), used.forced = 0, NEW v \in App!Alive(p)'
        PROVE  socks'[v].state # "closing"
    <3>1. v \in App!Alive(p) /\ v \in Sockets BY <1>17 DEF App!Alive, Sockets
    <3>2. socks[v].state # "closing" BY <2>1, <3>1 DEF AppInv, Unretried
    <3>3. QED BY <1>4, <3>1, <3>2
  <2>2. QED BY <1>1, <1>2, <1>12, <2>1 DEF Unretried
<1>22. QED BY <1>13, <1>14, <1>16, <1>18, <1>19, <1>20, <1>21 DEF AppInv

-----------------------------------------------------------------------------
(* WebApp: the user, the gate and the server.                              *)

\* useSession subscribes, if it can.
LEMMA OpenKeeps ==
    ASSUME AppInv, App!Open
    PROVE  AppInv'
<1>1. /\ ~viewing /\ viewing' = TRUE /\ App!Home(made) /\ made \in 1 .. made
      /\ subscribed' = subscribed \cup ({ctrl[made].ws} \cap App!OpenSocks)
      /\ UNCHANGED <<cookie, cred, checked, asked, good, made, ctrl, socks, connection, used>>
  BY DEF App!Open, App!Home
<1>2. \A p : (App!Alive(p)' = App!Alive(p)) /\ (App!Home(p)' <=> App!Home(p))
  BY <1>1 DEF App!Home, App!Alive
<1>3. AppTypes' /\ Asking'
  BY <1>1 DEF AppInv, AppTypes, Asking, App!OpenSocks, Sockets
<1>4. Owned' /\ Loops' /\ Latest' /\ OnlineAlive' /\ Unretried'
  BY <1>1, <1>2 DEF AppInv, Owned, Loops, Latest, OnlineAlive, Unretried
<1>5. App!Subscribed'
  <2>1. ASSUME NEW p \in 1 .. made, App!Home(p), used.added = 0,
               NEW v \in App!Alive(p), socks[v].state = "open"
        PROVE  v \in subscribed'
    <3>1. ctrl[made].ws = v BY <2>1 DEF AppInv, Latest, App!Home
    <3>2. v \in App!OpenSocks BY <2>1 DEF App!OpenSocks, App!Alive
    <3>3. QED BY <1>1, <3>1, <3>2
  <2>2. QED BY <1>1, <1>2, <2>1 DEF App!Subscribed
<1>6. QED BY <1>3, <1>4, <1>5 DEF AppInv

\* Home appears, with the first WebSocket of its ControlSocket.
LEMMA MountKeeps ==
    ASSUME AppInv, NEW token \in Keys, App!Mount(token), ~(cred # Null /\ checked),
           cred' = token, cookie' = token, checked', asked' = App!NoRequest, UNCHANGED good
    PROVE  AppInv'
<1>0. PICK o : o = made + 1
  OBVIOUS
<1> DEFINE c == [cred |-> token, closed |-> FALSE, ws |-> 1, timers |-> 0]
<1>1. /\ o \in Objects /\ made' = o /\ App!connect(o, c)
      /\ connection' = "connecting" /\ viewing' = FALSE /\ used' = [used EXCEPT !.added = 0]
  BY <1>0 DEF App!Mount
<1>2. made \in Nat
  BY MadeNat DEF AppInv
<1>3. PICK w \in App!Free : socks' = [socks EXCEPT ![w] = [of |-> o, state |-> "connecting"]]
  BY <1>1 DEF App!connect
<1>4. 1 \in Sockets
  BY <1>3, KeysAssumption DEF App!Free, Sockets, App!Ids
<1>5. c \in Loop
  BY <1>4 DEF Loop
<1>6. PICK v \in Sockets :
         /\ socks[v].state = "closed"
         /\ socks' \in [Sockets -> Socket]
         /\ socks'[v] = [of |-> o, state |-> "connecting"]
         /\ \A u \in Sockets \ {v} : socks'[u] = socks[u]
         /\ ctrl'[o] \in Loop /\ ctrl'[o].ws = v /\ ctrl'[o].closed = FALSE
         /\ ctrl'[o].timers = 0
         /\ \A p \in 1 .. made : p # o => ctrl'[p] = ctrl[p]
         /\ ctrl' \in [1 .. made \cup {o} -> Loop]
         /\ subscribed' = subscribed \ {v}
         /\ App!Alive(o)' = App!Alive(o) \cup {v} /\ v \notin App!Alive(o)
         /\ \A p : p # o => App!Alive(p)' = App!Alive(p)
  BY <1>1, <1>5, ConnectFacts DEF AppInv
<1>7. 1 .. made' = 1 .. made \cup {o} /\ o \notin 1 .. made
  BY <1>0, <1>1, <1>2
<1>8. App!Alive(o) = {}
  BY <1>7 DEF AppInv, Owned, App!Alive, Sockets
<1>9. App!Alive(o)' = {v}
  BY <1>6, <1>8
<1>10. /\ \A p \in 1 .. made : ~App!Home(p) /\ ~App!Home(p)'
       /\ App!Home(o)'
  BY <1>1, <1>7, KeysAssumption DEF App!Home
<1>11. /\ used' \in [failures : Nat, forced : 0 .. MaxForced, added : Nat] /\ used'.added <= used'.forced
       /\ used'.added = 0
  BY <1>1, KeysAssumption DEF AppInv, AppTypes
<1>12. AppTypes'
  <2>1. asked' \in [kind : {"none", "check", "login", "paste"}, token : Keys \cup {Null}]
    BY DEF App!NoRequest
  <2>2. QED BY <1>1, <1>6, <1>7, <1>11, <2>1 DEF AppInv, AppTypes
<1>13. Asking'
  BY DEF App!NoRequest, Asking
<1>14. Owned'
  <2>1. \A u \in Sockets : socks'[u].state # "closed" => socks'[u].of \in 1 .. made'
    BY <1>6, <1>7 DEF AppInv, Owned
  <2>2. \A p \in 1 .. made' : ctrl'[p].closed = ~App!Home(p)'
    <3>1. \A p \in 1 .. made : ctrl[p].closed = TRUE BY <1>10 DEF AppInv, Owned
    <3>2. QED BY <1>6, <1>7, <1>10, <3>1
  <2>3. QED BY <2>1, <2>2 DEF Owned
<1>15. Loops'
  <2>1. ASSUME NEW p \in 1 .. made
        PROVE  Cardinality(App!Alive(p))' + ctrl'[p].timers <= 1 + MaxForced
    <3>1. p # o BY <1>7
    <3>2. Cardinality(App!Alive(p))' = Cardinality(App!Alive(p)) /\ ctrl'[p] = ctrl[p]
      BY <1>6, <3>1
    <3>3. QED BY <3>2 DEF AppInv, Loops
  <2>2. Cardinality(App!Alive(o))' = 1
    BY <1>9, FS_Singleton
  <2>3. Cardinality(App!Alive(o))' + ctrl'[o].timers = 1 + used'.added /\ 1 + used'.added <= 1 + MaxForced
    BY <1>6, <1>11, <2>2, KeysAssumption
  <2>4. QED BY <1>7, <1>10, <2>1, <2>3 DEF Loops
<1>16. Latest'
  BY <1>6, <1>7, <1>9, <1>10 DEF Latest
<1>17. OnlineAlive'
  BY <1>1 DEF OnlineAlive
<1>18. App!Subscribed'
  BY <1>1 DEF App!Subscribed
<1>19. Unretried'
  BY <1>6, <1>7, <1>9, <1>10 DEF Unretried
<1>20. QED BY <1>12, <1>13, <1>14, <1>15, <1>16, <1>17, <1>18, <1>19 DEF AppInv

\* A step that leaves the ControlSockets alone while there is no Home before or
\* after it.
LEMMA NoHomeKeeps ==
    ASSUME AppInv, ~(cred # Null /\ checked), ~(cred # Null /\ checked)', AppTypes', Asking',
           UNCHANGED <<made, ctrl, socks, subscribed, connection, viewing, used>>
    PROVE  AppInv'
<1>1. \A p : ~App!Home(p) /\ ~App!Home(p)' /\ App!Alive(p)' = App!Alive(p)
  BY DEF App!Home, App!Alive
<1>2. Owned' /\ Loops' /\ Latest' /\ OnlineAlive' /\ Unretried' /\ App!Subscribed'
  BY <1>1 DEF AppInv, Owned, Loops, Latest, OnlineAlive, Unretried, App!Subscribed
<1>3. QED BY <1>2 DEF AppInv

\* The answer to the check of the token.
LEMMA CheckAnsweredKeeps ==
    ASSUME AppInv, NEW status \in {"ok", "rejected", "unreachable"}, App!CheckAnswered(status)
    PROVE  AppInv'
<1>1. /\ asked.kind = "check" /\ asked' = App!NoRequest /\ checked' = TRUE /\ UNCHANGED good
      /\ ~checked /\ cred # Null /\ cookie = cred /\ cred \in Keys
  BY DEF App!CheckAnswered, AppInv, Asking, AppTypes
<1>2. CASE /\ cookie' = Null /\ cred' = Null
           /\ UNCHANGED <<made, ctrl, socks, subscribed, connection, viewing, used>>
  <2>1. AppTypes' /\ Asking'
    BY <1>1, <1>2 DEF AppInv, AppTypes, Asking, App!NoRequest
  <2>2. QED BY <1>1, <1>2, <2>1, NoHomeKeeps
<1>3. CASE App!Mount(cred) /\ UNCHANGED <<cookie, cred>>
  BY <1>1, <1>3, MountKeeps
<1>4. QED BY <1>2, <1>3 DEF App!CheckAnswered

\* The gate.
LEMMA SubmitKeeps ==
    ASSUME AppInv, NEW kind \in {"login", "paste"}, NEW token \in Keys, App!Submit(kind, token)
    PROVE  AppInv'
<1>1. /\ cred = Null /\ checked /\ asked' = [kind |-> kind, token |-> token]
      /\ UNCHANGED <<cookie, cred, checked, good, made, ctrl, socks, subscribed, connection,
                     viewing, used>>
  BY DEF App!Submit
<1>2. AppTypes' /\ Asking'
  BY <1>1, KeysAssumption DEF AppInv, AppTypes, Asking
<1>3. QED BY <1>1, <1>2, NoHomeKeeps

\* The login or the pasted token is accepted: Home appears.
LEMMA GrantedKeeps ==
    ASSUME AppInv, App!Granted
    PROVE  AppInv'
<1>1. /\ asked.kind \in {"login", "paste"} /\ asked.token \in good /\ asked' = App!NoRequest
      /\ cred' = asked.token /\ cookie' = asked.token /\ App!Mount(asked.token)
      /\ UNCHANGED <<checked, good>>
  BY DEF App!Granted, App!Keep
<1>2. cred = Null /\ asked.token \in Keys /\ checked
  BY <1>1 DEF AppInv, AppTypes, Asking
<1>3. QED BY <1>1, <1>2, MountKeeps

\* The login or the pasted token is refused, or nothing answers.
LEMMA NotGrantedKeeps ==
    ASSUME AppInv, App!NotGranted
    PROVE  AppInv'
<1>1. /\ asked.kind \in {"login", "paste"} /\ asked' = App!NoRequest
      /\ UNCHANGED <<cookie, cred, checked, good, made, ctrl, socks, subscribed, connection,
                     viewing, used>>
  BY DEF App!NotGranted
<1>2. cred = Null /\ checked
  BY <1>1 DEF AppInv, Asking, AppTypes
<1>3. AppTypes' /\ Asking'
  BY <1>1, <1>2 DEF AppInv, AppTypes, Asking, App!NoRequest
<1>4. QED BY <1>1, <1>2, <1>3, NoHomeKeeps

\* The user logs out: Home's ControlSocket is closed, its timers run on.
LEMMA LogoutKeeps ==
    ASSUME AppInv, App!Logout
    PROVE  AppInv'
<1>0. PICK o : o = made
  OBVIOUS
<1> DEFINE x == [ctrl[o] EXCEPT !.closed = TRUE]
<1>1. /\ App!Home(o) /\ o \in 1 .. made
      /\ cookie' = Null /\ cred' = Null /\ viewing' = FALSE
      /\ ctrl' = [ctrl EXCEPT ![o] = x]
      /\ socks' = App!Closing(o)
      /\ UNCHANGED <<checked, asked, good, made, subscribed, connection, used>>
  BY <1>0 DEF App!Logout, App!Home
<1>2. ctrl \in [1 .. made -> Loop] /\ ctrl[o] \in Loop /\ socks \in [Sockets -> Socket]
  BY <1>1 DEF AppInv, AppTypes
<1>3. x \in Loop /\ x.closed = TRUE /\ x.timers = ctrl[o].timers /\ ctrl[o].ws \in Sockets
  BY <1>2 DEF Loop
<1> HIDE DEF x
<1>4. /\ ctrl' \in [1 .. made -> Loop] /\ ctrl'[o].closed = TRUE /\ ctrl'[o].timers = ctrl[o].timers
      /\ \A p \in 1 .. made : p # o => ctrl'[p] = ctrl[p]
  BY <1>1, <1>2, <1>3
<1>5. /\ socks' \in [Sockets -> Socket]
      /\ \A w \in Sockets : /\ socks'[w].of = socks[w].of
                            /\ socks'[w].state = "closed" <=> socks[w].state = "closed"
  <2>1. CASE socks' = socks
    BY <1>2, <2>1
  <2>2. CASE /\ socks' = [socks EXCEPT ![ctrl[o].ws].state = "closing"]
             /\ socks[ctrl[o].ws].state \in {"connecting", "open"}
    <3>1. socks[ctrl[o].ws] \in Socket BY <1>2, <1>3
    <3>2. QED BY <1>2, <1>3, <2>2, <3>1 DEF Socket
  <2>3. QED BY <1>1, <2>1, <2>2 DEF App!Closing
<1>6. \A p : App!Alive(p)' = App!Alive(p)
  BY <1>5 DEF App!Alive, Sockets
<1>7. \A p : ~App!Home(p)'
  BY <1>1 DEF App!Home
<1>8. AppTypes' /\ Asking'
  BY <1>1, <1>4, <1>5 DEF AppInv, AppTypes, Asking, App!Home
<1>9. Owned'
  <2>1. \A p \in 1 .. made : p # o => ctrl[p].closed = TRUE
    BY <1>0 DEF AppInv, Owned, App!Home
  <2>2. QED BY <1>1, <1>4, <1>5, <1>7, <2>1 DEF AppInv, Owned
<1>10. Loops'
  <2>1. \A p \in 1 .. made : ctrl'[p].timers = ctrl[p].timers BY <1>4
  <2>2. QED BY <1>1, <1>6, <1>7, <2>1 DEF AppInv, Loops
<1>11. Latest' /\ OnlineAlive' /\ Unretried' /\ App!Subscribed'
  BY <1>7 DEF Latest, OnlineAlive, Unretried, App!Subscribed
<1>12. QED BY <1>8, <1>9, <1>10, <1>11 DEF AppInv

\* The server loses an account.
LEMMA ForgetKeeps ==
    ASSUME AppInv, NEW token \in Keys, App!Forget(token)
    PROVE  AppInv'
<1>1. /\ good' = good \ {token} /\ used' = [used EXCEPT !.failures = @ + 1]
      /\ UNCHANGED <<cookie, cred, checked, asked, made, ctrl, socks, subscribed, connection, viewing>>
  BY DEF App!Forget, App!Fails
<1>2. /\ used' \in [failures : Nat, forced : 0 .. MaxForced, added : Nat] /\ used'.added <= used'.forced
      /\ used'.added = used.added /\ used'.forced = used.forced
  BY <1>1 DEF AppInv, AppTypes
<1>3. \A p : (App!Alive(p)' = App!Alive(p)) /\ (App!Home(p)' <=> App!Home(p))
  BY <1>1 DEF App!Home, App!Alive
<1>4. AppTypes' /\ Asking'
  BY <1>1, <1>2 DEF AppInv, AppTypes, Asking
<1>5. Owned' /\ Loops' /\ Latest' /\ OnlineAlive' /\ Unretried' /\ App!Subscribed'
  BY <1>1, <1>2, <1>3 DEF AppInv, Owned, Loops, Latest, OnlineAlive, Unretried, App!Subscribed
<1>6. QED BY <1>4, <1>5 DEF AppInv

-----------------------------------------------------------------------------
(* WebApp: every reachable state.                                          *)

\* A step of the page, its user, the browser or the server.
LEMMA AppStep == AppInv /\ App!Next => AppInv'
<1> SUFFICES ASSUME AppInv, App!Next PROVE AppInv'
  OBVIOUS
<1>1. CASE \E o \in Objects : App!Timer(o)
  BY <1>1, TimerKeeps
<1>2. CASE \E w \in Sockets : App!Opened(w) \/ App!Closed(w)
  BY <1>2, OpenedKeeps, ClosedKeeps
<1>3. CASE App!Reconnect \/ App!Open \/ App!Granted \/ App!NotGranted \/ App!Logout
  BY <1>3, ReconnectKeeps, OpenKeeps, GrantedKeeps, NotGrantedKeeps, LogoutKeeps
<1>4. CASE App!Checked
  BY <1>4, CheckAnsweredKeeps DEF App!Checked
<1>5. CASE App!Gate
  BY <1>5, SubmitKeeps DEF App!Gate
<1>6. CASE \E t \in Keys : App!Forget(t)
  BY <1>6, ForgetKeeps
<1>7. QED BY <1>1, <1>2, <1>3, <1>4, <1>5, <1>6 DEF App!Next, Sockets

\* What the other parts do leaves the page as it is.
LEMMA AppStutters == AppInv /\ UNCHANGED appVars => AppInv'
<1> SUFFICES ASSUME AppInv, UNCHANGED appVars PROVE AppInv'
  OBVIOUS
<1>1. \A p : (App!Alive(p)' = App!Alive(p)) /\ (App!Home(p)' <=> App!Home(p))
  BY DEF App!Home, App!Alive, appVars
<1>2. QED BY <1>1 DEF AppInv, AppTypes, Asking, Owned, Loops, Latest, OnlineAlive,
                     Unretried, App!Subscribed, appVars

\* The invariant holds in every behaviour that is about the page.
LEMMA AppInvariant == ServicesSpec => []PartAppInv
<1>1. ServicesInit => PartAppInv
  BY AppInit DEF ServicesInit, PartAppInv
<1>2. PartAppInv /\ [ServicesNext]_servicesVars => PartAppInv'
  <2> SUFFICES ASSUME PartAppInv, [ServicesNext]_servicesVars, part' = "app" PROVE AppInv'
    BY DEF PartAppInv
  <2>1. CASE UNCHANGED servicesVars
    BY <2>1, AppStutters DEF PartAppInv, servicesVars
  <2>2. CASE ServicesNext
    <3>1. part = "app" BY <2>2 DEF ServicesNext
    <3>2. App!Next BY <2>2, <3>1 DEF ServicesNext
    <3>3. QED BY <3>1, <3>2, AppStep DEF PartAppInv
  <2>3. QED BY <2>1, <2>2
<1>3. QED BY <1>1, <1>2, PTL DEF ServicesSpec, servicesVars

\* Whatever logins, logouts, retries, drops and late answers come between, a
\* ControlSocket (ws.ts) runs one loop and one more for each Retry that found
\* nothing to close.  While it has one loop, the page that says online has this.ws
\* open, or closing since a Retry (what is sent then is dropped, ws.ts:80), and a
\* session looked at over an open connection is subscribed.
THEOREM SocketStaysInStep == ServicesSpec => []SocketInStep
<1>1. PartAppInv => SocketInStep
  <2> SUFFICES ASSUME AppInv PROVE App!TypeOK /\ App!LoopsConserved /\ App!OnlineIsOpen /\ App!Subscribed
    BY DEF PartAppInv, SocketInStep
  <2>1. App!LoopsConserved
    <3>1. \A S : App!Cardinality(S) = Cardinality(S)
      BY DEF App!Cardinality, Cardinality
    <3>2. QED BY <3>1 DEF AppInv, Loops, App!LoopsConserved
  <2>2. ctrl \in [1 .. made -> App!Control]
    <3>1. ASSUME NEW o \in 1 .. made PROVE ctrl[o] \in App!Control
      <4>1. ctrl[o] \in Loop BY DEF AppInv, AppTypes
      <4>2. ctrl[o].timers \in Nat BY <4>1 DEF Loop
      <4>3. PICK n \in Nat : n = Cardinality(App!Alive(o)) BY AliveFinite
      <4>4. n + ctrl[o].timers <= 1 + MaxForced BY <4>3 DEF AppInv, Loops
      <4>5. ctrl[o].timers \in 0 .. MaxForced + 1 BY <4>2, <4>4, KeysAssumption
      <4>6. QED BY <4>1, <4>5 DEF Loop, App!Control, Sockets
    <3>2. QED BY <3>1 DEF AppInv, AppTypes
  <2>3. App!TypeOK
    BY <2>2 DEF AppInv, AppTypes, App!TypeOK, Sockets, Socket
  <2>4. App!OnlineIsOpen
    <3>1. ASSUME NEW o \in 1 .. made, App!Home(o), connection = "online", used.added = 0
          PROVE  /\ socks[ctrl[o].ws].of = o /\ socks[ctrl[o].ws].state \in {"open", "closing"}
                 /\ socks[ctrl[o].ws].state = "closing" => used.forced > 0
      <4>1. PICK w \in App!Alive(o) : socks[w].state \in {"open", "closing"}
        BY <3>1 DEF AppInv, OnlineAlive
      <4>2. ctrl[o].ws = w BY <3>1 DEF AppInv, Latest
      <4>3. socks[w].of = o BY DEF App!Alive
      <4>4. used.forced \in Nat BY KeysAssumption DEF AppInv, AppTypes
      <4>5. used.forced = 0 => socks[w].state # "closing" BY <3>1 DEF AppInv, Unretried
      <4>6. QED BY <4>1, <4>2, <4>3, <4>4, <4>5
    <3>2. QED BY <3>1 DEF App!OnlineIsOpen
  <2>5. QED BY <2>1, <2>3, <2>4 DEF AppInv
<1>2. QED BY <1>1, AppInvariant, PTL

\* "Only an outright rejection logs the user out" (App.tsx): no answer, timer or
\* drop takes a token the server accepts out of the cookie; only the user's own
\* logout, that closes Home's ControlSocket, does.
THEOREM GoodTokenStays == ServicesSpec => KeepsGoodToken
<1> DEFINE A == cookie # Null /\ cookie' = Null =>
                  cookie \notin good \/ \E o \in 1 .. made : App!Home(o) /\ ctrl'[o].closed
<1>1. PartAppInv /\ [ServicesNext]_servicesVars => [A]_(App!vars)
  <2> SUFFICES ASSUME PartAppInv, [ServicesNext]_servicesVars, App!vars' # App!vars,
                      cookie # Null, cookie' = Null
               PROVE  cookie \notin good \/ \E o \in 1 .. made : App!Home(o) /\ ctrl'[o].closed
    OBVIOUS
  <2>1. cookie' # cookie
    OBVIOUS
  <2>2. part = "app" /\ App!Next
    BY <2>1 DEF ServicesNext, servicesVars, appVars
  <2>3. AppInv
    BY <2>2 DEF PartAppInv
  <2>4. ~App!NotGranted /\ ~App!Reconnect /\ ~App!Open
        /\ (\A o \in Objects : ~App!Timer(o)) /\ (\A w \in Sockets : ~App!Opened(w) /\ ~App!Closed(w))
        /\ (\A k, t : ~App!Submit(k, t)) /\ (\A t : ~App!Forget(t))
    BY <2>1 DEF App!NotGranted, App!Reconnect, App!Open, App!Timer, App!Opened, App!Closed,
                App!Submit, App!Forget
  <2>5. CASE App!Granted
    BY <2>3, <2>5, KeysAssumption DEF App!Granted, App!Keep, AppInv, AppTypes
  <2>6. CASE App!Logout
    <3>1. /\ App!Home(made) /\ made \in 1 .. made /\ ctrl' = [ctrl EXCEPT ![made].closed = TRUE]
      BY <2>6 DEF App!Logout, App!Home
    <3>2. ctrl[made] \in Loop /\ ctrl \in [1 .. made -> Loop]
      BY <2>3, <3>1 DEF AppInv, AppTypes
    <3>3. ctrl'[made].closed
      BY <3>1, <3>2 DEF Loop
    <3>4. QED BY <3>1, <3>3
  <2>7. CASE App!Checked
    <3>1. PICK status \in {"ok", "rejected", "unreachable"} : App!CheckAnswered(status)
      BY <2>7 DEF App!Checked
    <3>2. status = "rejected"
      BY <2>1, <3>1 DEF App!CheckAnswered, App!Dead
    <3>3. asked.kind = "check" /\ asked.token \notin good
      BY <3>1, <3>2 DEF App!CheckAnswered, App!Says
    <3>4. asked.token = cookie
      BY <2>3, <3>3 DEF AppInv, AppTypes, Asking
    <3>5. QED BY <3>3, <3>4
  <2>8. QED BY <2>2, <2>4, <2>5, <2>6, <2>7 DEF App!Next, App!Gate, Sockets
<1>2. QED BY <1>1, AppInvariant, PTL DEF ServicesSpec, servicesVars, KeepsGoodToken, App!KeepsGoodToken

-----------------------------------------------------------------------------
(* Shell: the invariant.                                                   *)

Kinds == {"none", "script", "fallback"}
Cache == [index : 0 .. Page!ErrorPage, bundles : [Page!Builds -> Kinds]]
Puts == ({"index"} \X (1 .. Page!ErrorPage)) \cup ({"script", "fallback"} \X Page!Builds)
Pages ==
    [state : {"closed", "index", "bundle", "shown", "registering", "armed", "unarmed", "blank"},
     build : 0 .. MaxBuilds, by : 0 .. MaxBuilds, had : BOOLEAN, whole : BOOLEAN]

\* Nothing but the worker in control and the one that waits has an index, and
\* nothing but the first has bundles or puts anything; a page is controlled by it
\* or by none.
Workers ==
    /\ Page!TypeOK /\ active <= deployed
    /\ arriving.build # 0 => arriving.build > active /\ arriving.build <= deployed
    /\ arriving.installed => arriving.build # 0
    /\ \A b \in Page!Builds : caches[b].index # 0 =>
          b = active \/ (arriving.installed /\ b = arriving.build)
    /\ \A b, x \in Page!Builds : caches[b].bundles[x] # "none" => b = active
    /\ putting # {} => active # 0
    /\ page.by \in {0, active} /\ (page.state = "closed" => page.by = 0)
    /\ page.state = "bundle" => page.build \in Page!Builds

\* What caches.match finds.
IndexNow ==
    IF active # 0 /\ caches[active].index # 0 THEN caches[active].index
    ELSE IF arriving.installed THEN caches[arriving.build].index ELSE 0
BundleNow(x) == IF active # 0 THEN caches[active].bundles[x] ELSE "none"

\* A page loaded whole has its index and its bundle in the caches, or on their way
\* to them with nothing else.
Settles(build) ==
    /\ build \in Page!Builds
    /\ putting \subseteq {<<"index", build>>, <<"script", build>>}
    /\ <<"index", build>> \in putting \/ IndexNow = build
SettlesAll(build) == <<"script", build>> \in putting \/ BundleNow(build) = "script"
Launched ==
    page.whole =>
        /\ page.by = active /\ active # 0
        /\ page.state = "index" => putting = {}
        /\ page.state = "bundle" \/ Page!Running => Settles(page.build)
        /\ Page!Running => SettlesAll(page.build)

PageInv == Workers /\ Launched
PartPageInv == part = "shell" => PageInv

\* The types, one by one.
LEMMA PageTypes ==
    ASSUME Workers
    PROVE  /\ Page!Builds = 1 .. MaxBuilds /\ MaxBuilds \in Nat /\ Page!ErrorPage = MaxBuilds + 1
           /\ deployed \in Page!Builds /\ online \in BOOLEAN /\ active \in 0 .. MaxBuilds
           /\ arriving \in [build : 0 .. MaxBuilds, installed : BOOLEAN]
           /\ caches \in [Page!Builds -> Cache] /\ putting \subseteq Puts /\ page \in Pages
           /\ \A b \in Page!Builds : caches[b] \in Cache
<1>1. Page!TypeOK
  BY DEF Workers
<1>2. caches \in [Page!Builds -> Cache] /\ putting \subseteq Puts /\ page \in Pages
  BY <1>1 DEF Page!TypeOK, Cache, Kinds, Puts, Pages
<1>3. QED BY <1>1, <1>2, BuildsAssumption DEF Page!TypeOK, Page!Builds, Page!ErrorPage

\* The same, put together again.
LEMMA TypesPage ==
    ASSUME deployed \in Page!Builds, online \in BOOLEAN, active \in 0 .. MaxBuilds,
           arriving \in [build : 0 .. MaxBuilds, installed : BOOLEAN],
           caches \in [Page!Builds -> Cache], putting \subseteq Puts, page \in Pages
    PROVE  Page!TypeOK
BY DEF Page!TypeOK, Cache, Kinds, Puts, Pages

\* The first of a set of builds with one element.
LEMMA FirstOne ==
    ASSUME NEW b \in Nat, NEW S, b \in S, S \subseteq Nat, \A c \in S : b <= c
    PROVE  Page!First(S) = b
<1>1. \A c \in S : (\A d \in S : c <= d) => c = b
  OBVIOUS
<1>2. Page!First(S) \in S /\ \A d \in S : Page!First(S) <= d
  BY DEF Page!First
<1>3. QED BY <1>1, <1>2

\* caches.match finds the index of the worker in control, or else that of the one
\* that is waiting.
LEMMA OfflineIndex ==
    ASSUME Workers
    PROVE  Page!CachedIndex = IndexNow /\ IndexNow \in 0 .. Page!ErrorPage
<1> DEFINE has == {b \in Page!Builds : caches[b].index # 0}
<1>1. /\ Page!Builds = 1 .. MaxBuilds /\ MaxBuilds \in Nat /\ has \subseteq Nat
      /\ active \in 0 .. MaxBuilds /\ arriving.build \in 0 .. MaxBuilds
      /\ \A b \in Page!Builds : caches[b].index \in 0 .. Page!ErrorPage
      /\ 0 \in 0 .. Page!ErrorPage
  BY PageTypes DEF Cache
<1>2. \A b \in has : b = active \/ (arriving.installed /\ b = arriving.build)
  BY DEF Workers
<1>3. has # {} => Page!CachedIndex = caches[Page!First(has)].index
  BY DEF Page!CachedIndex
<1>4. CASE active # 0 /\ caches[active].index # 0
  <2>1. active \in has /\ \A c \in has : active <= c
    BY <1>1, <1>2, <1>4 DEF Workers
  <2>2. Page!First(has) = active
    BY <1>1, <2>1, FirstOne
  <2>3. QED BY <1>1, <1>3, <1>4, <2>1, <2>2 DEF IndexNow
<1>5. CASE /\ ~(active # 0 /\ caches[active].index # 0)
           /\ arriving.installed /\ caches[arriving.build].index # 0
  <2>1. arriving.build \in has
    BY <1>1, <1>5 DEF Workers
  <2>2. \A c \in has : arriving.build <= c
    BY <1>1, <1>2, <1>5
  <2>3. Page!First(has) = arriving.build
    BY <1>1, <2>1, <2>2, FirstOne
  <2>4. QED BY <1>1, <1>3, <1>5, <2>1, <2>3 DEF IndexNow
<1>6. CASE /\ ~(active # 0 /\ caches[active].index # 0)
           /\ ~(arriving.installed /\ caches[arriving.build].index # 0)
  <2>1. has = {}
    BY <1>1, <1>2, <1>6
  <2>2. Page!CachedIndex = 0
    BY <2>1 DEF Page!CachedIndex
  <2>3. QED BY <1>1, <1>6, <2>2 DEF IndexNow
<1>7. QED BY <1>4, <1>5, <1>6

\* Only the worker in control has bundles.
LEMMA OfflineBundle ==
    ASSUME Workers, NEW x \in Page!Builds
    PROVE  Page!CachedBundle(x) = BundleNow(x) /\ BundleNow(x) \in Kinds
<1> DEFINE has == {b \in Page!Builds : caches[b].bundles[x] # "none"}
<1>1. /\ Page!Builds = 1 .. MaxBuilds /\ MaxBuilds \in Nat /\ has \subseteq Nat
      /\ active \in 0 .. MaxBuilds /\ \A b \in Page!Builds : caches[b].bundles[x] \in Kinds
  BY PageTypes DEF Cache
<1>2. \A b \in has : b = active
  BY DEF Workers
<1>3. has # {} => Page!CachedBundle(x) = caches[Page!First(has)].bundles[x]
  BY DEF Page!CachedBundle
<1>4. has = {} => Page!CachedBundle(x) = "none"
  BY DEF Page!CachedBundle
<1>5. CASE has # {}
  <2>1. active \in has /\ \A c \in has : active <= c
    BY <1>1, <1>2, <1>5
  <2>2. Page!First(has) = active
    BY <1>1, <2>1, FirstOne
  <2>3. QED BY <1>1, <1>3, <2>1, <2>2 DEF BundleNow
<1>6. CASE has = {}
  <2>1. active # 0 => caches[active].bundles[x] = "none"
    BY <1>1, <1>6
  <2>2. QED BY <1>4, <1>6, <2>1 DEF BundleNow, Kinds
<1>7. QED BY <1>5, <1>6

\* What a page that is loading or running was promised depends on nothing else.
LEMMA PromiseStays ==
    ASSUME UNCHANGED <<active, arriving, caches>>
    PROVE  IndexNow' = IndexNow /\ \A x : BundleNow(x)' = BundleNow(x)
BY DEF IndexNow, BundleNow

-----------------------------------------------------------------------------
(* Shell: the first state, and a page that loads.                          *)

\* A browser that was never here has no worker and no cache.
LEMMA PageInit == Page!Init => PageInv
<1> SUFFICES ASSUME Page!Init PROVE PageInv OBVIOUS
<1>1. MaxBuilds \in Nat /\ 0 \in 0 .. Page!ErrorPage /\ 1 \in Page!Builds /\ 0 \in 0 .. MaxBuilds
  BY BuildsAssumption DEF Page!ErrorPage, Page!Builds
<1>2. Page!NoCache \in Cache /\ Page!NoCache.index = 0
      /\ \A x \in Page!Builds : Page!NoCache.bundles[x] = "none"
  BY <1>1 DEF Page!NoCache, Cache, Kinds
<1>3. /\ caches \in [Page!Builds -> Cache] /\ \A b \in Page!Builds : caches[b].index = 0
      /\ \A b, x \in Page!Builds : caches[b].bundles[x] = "none"
  BY <1>2 DEF Page!Init
<1>4. page \in Pages /\ page.by = 0 /\ page.whole = FALSE /\ page.state = "closed"
  BY <1>1 DEF Page!Init, Page!Gone, Pages
<1>5. arriving \in [build : 0 .. MaxBuilds, installed : BOOLEAN] /\ arriving.build = 0
      /\ arriving.installed = FALSE
  BY <1>1 DEF Page!Init
<1>6. Page!TypeOK
  BY <1>1, <1>3, <1>4, <1>5, TypesPage DEF Page!Init
<1>7. Workers
  BY <1>1, <1>3, <1>4, <1>5, <1>6 DEF Page!Init, Workers
<1>8. QED BY <1>4, <1>7 DEF PageInv, Launched

\* A step of the page that leaves the workers and their caches alone.
LEMMA PageMoves ==
    ASSUME PageInv, page' \in Pages, page'.by \in {0, active}, page'.state = "closed" => page'.by = 0,
           putting' \subseteq Puts, putting' # {} => active # 0,
           page'.state = "bundle" => page'.build \in Page!Builds,
           UNCHANGED <<deployed, online, active, arriving, caches>>
    PROVE  Workers'
<1>1. Page!TypeOK'
  BY PageTypes DEF PageInv, Page!TypeOK, Cache, Kinds, Puts, Pages
<1>2. Page!Builds' = Page!Builds
  BY DEF Page!Builds
<1>3. QED BY <1>1, <1>2 DEF PageInv, Workers

\* The index arrives.
LEMMA LoadIndexKeeps ==
    ASSUME PageInv, Page!LoadIndex
    PROVE  PageInv'
<1>1. PICK index \in Page!Navigated(page.by) :
        /\ page' = IF index \in Page!Builds THEN [page EXCEPT !.state = "bundle", !.build = index]
                   ELSE [page EXCEPT !.state = "blank"]
        /\ putting' = IF online /\ page.by # 0 THEN putting \cup {<<"index", index>>} ELSE putting
  BY DEF Page!LoadIndex
<1>2. page.state = "index" /\ UNCHANGED <<deployed, online, active, arriving, caches>>
  BY DEF Page!LoadIndex
<1>3. /\ page \in Pages /\ Page!Builds = 1 .. MaxBuilds /\ MaxBuilds \in Nat
      /\ Page!ErrorPage = MaxBuilds + 1 /\ deployed \in Page!Builds /\ putting \subseteq Puts
      /\ page.by \in {0, active} /\ (putting # {} => active # 0)
  BY PageTypes DEF PageInv, Workers
<1>4. /\ page' \in Pages /\ page'.by = page.by /\ page'.whole = page.whole
      /\ page'.state = IF index \in Page!Builds THEN "bundle" ELSE "blank"
      /\ index \in Page!Builds => page'.build = index
  <2>1. CASE index \in Page!Builds
    <3>1. page' = [page EXCEPT !.state = "bundle", !.build = index] /\ index \in 0 .. MaxBuilds
      BY <1>1, <1>3, <2>1
    <3>2. QED BY <1>3, <2>1, <3>1 DEF Pages
  <2>2. CASE index \notin Page!Builds
    <3>1. page' = [page EXCEPT !.state = "blank"]
      BY <1>1, <2>2
    <3>2. QED BY <1>3, <2>2, <3>1 DEF Pages
  <2>3. QED BY <2>1, <2>2
<1>5. online => index \in 1 .. Page!ErrorPage
  BY <1>1, <1>3 DEF Page!Navigated
<1>6. putting' \subseteq Puts /\ (putting' # {} => active # 0)
  BY <1>1, <1>3, <1>5 DEF Puts
<1>7. Workers'
  BY <1>2, <1>3, <1>4, <1>6, PageMoves
<1>8. Launched'
  <2> SUFFICES ASSUME page.whole
               PROVE  page.by = active /\ active # 0 /\ (index \in Page!Builds => Settles(index)')
    BY <1>2, <1>4 DEF Launched, Page!Running
  <2>1. page.by = active /\ active # 0 /\ putting = {}
    BY <1>2 DEF PageInv, Launched
  <2>2. IndexNow' = IndexNow
    BY <1>2, PromiseStays
  <2>3. CASE online
    BY <1>1, <2>1, <2>3 DEF Settles
  <2>4. CASE ~online
    <3>1. index = IndexNow
      BY <1>1, <2>1, <2>4, OfflineIndex DEF PageInv, Page!Navigated
    <3>2. QED BY <1>1, <2>1, <2>2, <2>4, <3>1 DEF Settles
  <2>5. QED BY <2>1, <2>3, <2>4
<1>9. QED BY <1>7, <1>8 DEF PageInv

\* The bundle arrives.
LEMMA LoadBundleKeeps ==
    ASSUME PageInv, Page!LoadBundle
    PROVE  PageInv'
<1>0. PICK build, hit : build = page.build /\ hit = (page.by # 0 /\ Page!CachedBundle(build) # "none")
  OBVIOUS
<1>1. PICK kind \in IF hit THEN {Page!CachedBundle(build)} ELSE Page!Fetched(build) :
        /\ page' = [page EXCEPT !.state = IF kind = "script" THEN "shown" ELSE "blank"]
        /\ putting' = IF ~hit /\ page.by # 0 /\ kind # "none"
                      THEN putting \cup {<<kind, build>>} ELSE putting
  BY <1>0 DEF Page!LoadBundle
<1>2. page.state = "bundle" /\ UNCHANGED <<deployed, online, active, arriving, caches>>
  BY DEF Page!LoadBundle
<1>3. /\ page \in Pages /\ putting \subseteq Puts /\ page.by \in {0, active} /\ (putting # {} => active # 0)
  BY PageTypes DEF PageInv, Workers
<1>4. /\ page' \in Pages /\ page'.by = page.by /\ page'.whole = page.whole /\ page'.build = build
      /\ page'.state = IF kind = "script" THEN "shown" ELSE "blank"
  BY <1>0, <1>1, <1>3 DEF Pages
<1>5. CASE page.whole
  <2>1. page.by = active /\ active # 0 /\ Settles(build) /\ build \in Page!Builds
    BY <1>0, <1>2, <1>5 DEF PageInv, Launched, Settles
  <2>2. /\ IndexNow' = IndexNow /\ BundleNow(build)' = BundleNow(build)
        /\ Page!CachedBundle(build) = BundleNow(build)
    BY <1>2, <2>1, PromiseStays, OfflineBundle DEF PageInv
  <2>3. ~hit /\ kind # "none" => kind \in {"script", "fallback"}
    BY <1>1 DEF Page!Fetched
  <2>4. putting' \subseteq Puts
    BY <1>1, <1>3, <2>1, <2>3 DEF Puts
  <2>5. Workers'
    BY <1>2, <1>3, <1>4, <2>1, <2>4, PageMoves
  <2>6. kind = "script" => Settles(build)' /\ SettlesAll(build)'
    <3> SUFFICES ASSUME kind = "script" PROVE Settles(build)' /\ SettlesAll(build)'
      OBVIOUS
    <3>1. CASE hit
      BY <1>1, <2>1, <2>2, <3>1 DEF Settles, SettlesAll
    <3>2. CASE ~hit
      BY <1>1, <2>1, <2>2, <3>2 DEF Settles, SettlesAll
    <3>3. QED BY <3>1, <3>2, <1>0
  <2>7. Launched'
    BY <1>2, <1>4, <2>1, <2>6 DEF Launched, Page!Running
  <2>8. QED BY <2>5, <2>7 DEF PageInv
<1>6. CASE ~page.whole
  <2>1. page.by # 0 => active # 0
    BY <1>3
  <2>2. ~hit /\ kind # "none" => kind \in {"script", "fallback"}
    BY <1>1 DEF Page!Fetched
  <2>3. build \in Page!Builds
    BY <1>0, <1>2 DEF PageInv, Workers
  <2>4. putting' \subseteq Puts /\ (putting' # {} => active # 0)
    BY <1>1, <1>3, <2>1, <2>2, <2>3 DEF Puts
  <2>5. Workers'
    BY <1>2, <1>3, <1>4, <2>4, PageMoves
  <2>6. QED BY <1>4, <1>6, <2>5 DEF PageInv, Launched
<1>7. QED BY <1>3, <1>5, <1>6 DEF Pages

\* A put comes to its end.
LEMMA SettleKeeps ==
    ASSUME PageInv, Page!Settle
    PROVE  PageInv'
<1>1. PICK what \in putting :
        /\ putting' = putting \ {what}
        /\ \/ caches' = [caches EXCEPT ![active] = Page!Put(@, what)] /\ UNCHANGED page
           \/ page' = [page EXCEPT !.whole = FALSE] /\ UNCHANGED caches
        /\ UNCHANGED <<deployed, online, active, arriving>>
  BY DEF Page!Settle
<1>2. /\ active \in Page!Builds /\ what \in Puts /\ page \in Pages /\ putting \subseteq Puts
      /\ caches \in [Page!Builds -> Cache] /\ caches[active] \in Cache
  BY <1>1, PageTypes DEF PageInv, Workers
<1>3. CASE page' = [page EXCEPT !.whole = FALSE] /\ UNCHANGED caches
  <2>1. /\ page' \in Pages /\ page'.by = page.by /\ page'.state = page.state /\ page'.whole = FALSE
        /\ page'.build = page.build
    BY <1>2, <1>3 DEF Pages
  <2>2. /\ page'.by \in {0, active} /\ (page'.state = "closed" => page'.by = 0)
        /\ page'.state = "bundle" => page'.build \in Page!Builds
    BY <2>1 DEF PageInv, Workers
  <2>3. putting' \subseteq Puts /\ active # 0
    BY <1>1, <1>2, PageTypes DEF PageInv
  <2>4. Workers'
    BY <1>1, <1>3, <2>1, <2>2, <2>3, PageMoves
  <2>5. QED BY <2>1, <2>4 DEF PageInv, Launched
<1>4. CASE caches' = [caches EXCEPT ![active] = Page!Put(@, what)] /\ UNCHANGED page
  <2>1. PICK c : c = Page!Put(caches[active], what)
    OBVIOUS
  <2>2. /\ c \in Cache
        /\ what[1] = "index" => c.index = what[2] /\ c.bundles = caches[active].bundles
        /\ what[1] # "index" => /\ c.index = caches[active].index
                                /\ c.bundles = [caches[active].bundles EXCEPT ![what[2]] = what[1]]
    <3>1. CASE what[1] = "index"
      <4>1. what[2] \in 0 .. Page!ErrorPage
        BY <1>2, <3>1 DEF Puts
      <4>2. c = [caches[active] EXCEPT !.index = what[2]]
        BY <2>1, <3>1 DEF Page!Put
      <4>3. QED BY <1>2, <3>1, <4>1, <4>2 DEF Cache
    <3>2. CASE what[1] # "index"
      <4>1. what[2] \in Page!Builds /\ what[1] \in Kinds
        BY <1>2, <3>2 DEF Puts, Kinds
      <4>2. c = [caches[active] EXCEPT !.bundles = [caches[active].bundles EXCEPT ![what[2]] = what[1]]]
        BY <1>2, <2>1, <3>2 DEF Page!Put, Cache
      <4>3. [caches[active].bundles EXCEPT ![what[2]] = what[1]] \in [Page!Builds -> Kinds]
        BY <1>2, <4>1 DEF Cache
      <4>4. QED BY <1>2, <3>2, <4>2, <4>3 DEF Cache
    <3>3. QED BY <3>1, <3>2
  <2>3. /\ caches' \in [Page!Builds -> Cache] /\ caches'[active] = c
        /\ \A b \in Page!Builds : b # active => caches'[b] = caches[b]
    BY <1>2, <1>4, <2>1, <2>2
  <2>4. Page!TypeOK'
    BY <1>1, <1>2, <1>4, <2>3, PageTypes DEF PageInv, Page!TypeOK, Cache, Kinds, Puts, Pages
  <2>5. Workers'
    BY <1>1, <1>2, <1>4, <2>3, <2>4 DEF PageInv, Workers
  <2>6. ASSUME page.whole, page.state = "bundle" \/ Page!Running
        PROVE  Settles(page.build)' /\ (Page!Running => SettlesAll(page.build)')
    <3>0. PICK build : build = page.build
      OBVIOUS
    <3>1. /\ build \in Page!Builds /\ what \in {<<"index", build>>, <<"script", build>>}
          /\ putting \subseteq {<<"index", build>>, <<"script", build>>}
          /\ <<"index", build>> \in putting \/ IndexNow = build
          /\ Page!Running => <<"script", build>> \in putting \/ caches[active].bundles[build] = "script"
          /\ active # 0 /\ build # 0
      BY <1>1, <2>6, <3>0, PageTypes DEF PageInv, Launched, Settles, SettlesAll, BundleNow
    <3>2. CASE what = <<"index", build>>
      <4>1. caches'[active].index = build /\ caches'[active].bundles = caches[active].bundles
        BY <2>2, <2>3, <3>2
      <4>2. IndexNow' = build
        BY <1>1, <3>1, <4>1 DEF IndexNow
      <4>3. <<"script", build>> # what
        BY <3>2
      <4>4. QED BY <1>1, <1>4, <3>0, <3>1, <4>1, <4>2, <4>3 DEF Settles, SettlesAll, BundleNow
    <3>3. CASE what = <<"script", build>>
      <4>1. caches'[active].index = caches[active].index /\ caches'[active].bundles[build] = "script"
        BY <1>2, <2>2, <2>3, <3>1, <3>3 DEF Cache
      <4>2. IndexNow' = IndexNow
        <5>1. arriving.installed => arriving.build # active /\ arriving.build \in Page!Builds
          BY <1>2, PageTypes DEF PageInv, Workers
        <5>2. QED BY <1>1, <2>3, <4>1, <5>1 DEF IndexNow
      <4>3. <<"index", build>> # what
        BY <3>3
      <4>4. QED BY <1>1, <1>4, <3>0, <3>1, <4>1, <4>2, <4>3 DEF Settles, SettlesAll, BundleNow
    <3>4. QED BY <3>1, <3>2, <3>3
  <2>7. page.whole => page.state # "index"
    BY <1>1 DEF PageInv, Launched
  <2>8. Page!Running' <=> Page!Running
    BY <1>4 DEF Page!Running
  <2>9. Launched'
    BY <1>1, <1>4, <2>6, <2>7, <2>8 DEF PageInv, Launched
  <2>10. QED BY <2>5, <2>9 DEF PageInv
<1>5. QED BY <1>1, <1>3, <1>4

-----------------------------------------------------------------------------
(* Shell: the user, the workers and the deployment.                        *)

\* The page is opened, ended, loaded, or waits for register().
LEMMA PageStepKeeps ==
    ASSUME PageInv, Page!Open \/ Page!Close \/ Page!Loaded
    PROVE  PageInv'
<1>1. /\ page \in Pages /\ active \in 0 .. MaxBuilds /\ 0 \in 0 .. MaxBuilds /\ putting \subseteq Puts
      /\ page.by \in {0, active} /\ (page.state = "closed" => page.by = 0) /\ (putting # {} => active # 0)
  BY PageTypes DEF PageInv, Workers
<1>2. UNCHANGED <<deployed, online, active, arriving, caches, putting>>
  BY DEF Page!Open, Page!Close, Page!Loaded
<1>3. IndexNow' = IndexNow /\ \A x : BundleNow(x)' = BundleNow(x)
  BY <1>2, PromiseStays
<1>4. CASE Page!Open
  <2>1. /\ page' \in Pages /\ page'.by = active /\ page'.state = "index"
        /\ page'.whole = (active # 0 /\ putting = {})
    BY <1>1, <1>4 DEF Page!Open, Page!Loading, Pages
  <2>2. Workers'
    BY <1>1, <1>2, <2>1, PageMoves
  <2>3. Launched'
    BY <1>2, <2>1 DEF Launched, Page!Running
  <2>4. QED BY <2>2, <2>3 DEF PageInv
<1>5. CASE Page!Close
  <2>1. page' \in Pages /\ page'.by = 0 /\ page'.whole = FALSE /\ page'.state = "closed"
    BY <1>1, <1>5 DEF Page!Close, Page!Gone, Pages
  <2>2. Workers'
    BY <1>1, <1>2, <2>1, PageMoves
  <2>3. QED BY <2>1, <2>2 DEF PageInv, Launched
<1>6. CASE Page!Loaded
  <2>1. /\ page.state = "shown" /\ page' \in Pages /\ page'.by = page.by /\ page'.build = page.build
        /\ page'.whole = page.whole /\ page'.state = "registering"
    BY <1>1, <1>6 DEF Page!Loaded, Pages
  <2>2. Workers'
    BY <1>1, <1>2, <2>1, PageMoves
  <2>3. Launched'
    BY <1>2, <1>3, <2>1 DEF PageInv, Launched, Page!Running, Settles, SettlesAll
  <2>4. QED BY <2>2, <2>3 DEF PageInv
<1>7. QED BY <1>4, <1>5, <1>6

\* The page is answered by register(), or the browser finds that there is another
\* worker.
LEMMA CheckKeeps ==
    ASSUME PageInv, Page!Register \/ Page!Check
    PROVE  PageInv'
<1>0. UNCHANGED <<deployed, online, active, caches, putting>>
  BY DEF Page!Register, Page!Check
<1>1. /\ \/ arriving' = arriving
         \/ arriving.build = 0 /\ active # deployed /\ arriving' = [build |-> deployed, installed |-> FALSE]
      /\ \/ page' = page
         \/ page.state = "registering" /\ page' = [page EXCEPT !.state = "armed"]
         \/ page.state = "registering" /\ page' = [page EXCEPT !.state = "unarmed"]
  <2>1. CASE Page!Register
    <3>1. deployed # 0 BY PageTypes DEF PageInv
    <3>2. /\ page.state = "registering"
          /\ page' = [page EXCEPT !.state = "armed"] \/ page' = [page EXCEPT !.state = "unarmed"]
      BY <2>1 DEF Page!Register
    <3>3. \/ arriving' = arriving
          \/ active = 0 /\ arriving.build = 0 /\ arriving' = [build |-> deployed, installed |-> FALSE]
      BY <2>1 DEF Page!Register
    <3>4. QED BY <3>1, <3>2, <3>3
  <2>2. CASE Page!Check
    BY <2>2 DEF Page!Check
  <2>3. QED BY <2>1, <2>2
<1>2. /\ Page!Builds = 1 .. MaxBuilds /\ MaxBuilds \in Nat /\ deployed \in Page!Builds /\ page \in Pages
      /\ active \in 0 .. MaxBuilds /\ active <= deployed
      /\ arriving \in [build : 0 .. MaxBuilds, installed : BOOLEAN]
      /\ arriving.installed => arriving.build # 0
  BY PageTypes DEF PageInv, Workers
<1>3. /\ arriving' \in [build : 0 .. MaxBuilds, installed : BOOLEAN]
      /\ arriving'.installed = arriving.installed
      /\ arriving'.build # 0 => arriving'.build > active /\ arriving'.build <= deployed
      /\ arriving'.installed => arriving'.build = arriving.build
  <2>1. CASE arriving' = arriving
    BY <1>2, <2>1 DEF PageInv, Workers
  <2>2. CASE arriving.build = 0 /\ active # deployed /\ arriving' = [build |-> deployed, installed |-> FALSE]
    <3>1. arriving.installed = FALSE
      BY <1>2, <2>2
    <3>2. arriving'.build = deployed /\ arriving'.installed = FALSE
      BY <2>2
    <3>3. deployed > active /\ deployed <= deployed
      BY <1>2, <2>2
    <3>4. arriving' \in [build : 0 .. MaxBuilds, installed : BOOLEAN]
      BY <1>2, <2>2
    <3>5. QED BY <3>1, <3>2, <3>3, <3>4
  <2>3. QED BY <1>1, <2>1, <2>2
<1>4. /\ page' \in Pages /\ page'.by = page.by /\ page'.build = page.build /\ page'.whole = page.whole
      /\ (Page!Running' <=> Page!Running)
      /\ page'.state \in {"closed", "index", "bundle"} => page'.state = page.state
  <2>1. CASE page' = page
    BY <1>2, <2>1 DEF Page!Running
  <2>2. CASE page.state = "registering" /\ page' = [page EXCEPT !.state = "armed"]
    BY <1>2, <2>2 DEF Pages, Page!Running
  <2>3. CASE page.state = "registering" /\ page' = [page EXCEPT !.state = "unarmed"]
    BY <1>2, <2>3 DEF Pages, Page!Running
  <2>4. QED BY <1>1, <2>1, <2>2, <2>3
<1>5. Page!TypeOK'
  BY <1>0, <1>3, <1>4, PageTypes DEF PageInv, Page!TypeOK, Cache, Kinds, Puts, Pages
<1>6. Workers'
  BY <1>0, <1>2, <1>3, <1>4, <1>5 DEF PageInv, Workers
<1>7. IndexNow' = IndexNow /\ \A x : BundleNow(x)' = BundleNow(x)
  BY <1>0, <1>3 DEF IndexNow, BundleNow
<1>8. Launched'
  BY <1>0, <1>4, <1>7 DEF PageInv, Launched, Settles, SettlesAll
<1>9. QED BY <1>6, <1>8 DEF PageInv

\* The shell of the new worker is cached, or not.
LEMMA InstallKeeps ==
    ASSUME PageInv, Page!Install
    PROVE  PageInv'
<1>0. PICK a : a = arriving.build
  OBVIOUS
<1>1. PICK index \in {0} \cup (IF online THEN {deployed} ELSE {}) :
        caches' = [caches EXCEPT ![a].index = index]
  BY <1>0 DEF Page!Install
<1>2. /\ a # 0 /\ ~arriving.installed /\ arriving' = [arriving EXCEPT !.installed = TRUE]
      /\ UNCHANGED <<deployed, online, active, putting, page>>
  BY <1>0 DEF Page!Install
<1>3. /\ Page!Builds = 1 .. MaxBuilds /\ MaxBuilds \in Nat /\ deployed \in Page!Builds
      /\ Page!ErrorPage = MaxBuilds + 1
      /\ active \in 0 .. MaxBuilds /\ a \in Page!Builds /\ a > active /\ a <= deployed
      /\ arriving \in [build : 0 .. MaxBuilds, installed : BOOLEAN]
      /\ caches \in [Page!Builds -> Cache] /\ caches[a] \in Cache
  BY <1>0, <1>2, PageTypes DEF PageInv, Workers
<1>4. index \in 0 .. Page!ErrorPage
  BY <1>1, <1>3
<1> DEFINE c == [caches[a] EXCEPT !.index = index]
<1>5. caches' = [caches EXCEPT ![a] = c]
  BY <1>1, <1>3
<1>6. c \in Cache /\ c.index = index /\ c.bundles = caches[a].bundles
  BY <1>3, <1>4 DEF Cache
<1> HIDE DEF c
<1>7. /\ caches' \in [Page!Builds -> Cache] /\ caches'[a] = c
      /\ \A b \in Page!Builds : b # a => caches'[b] = caches[b]
  BY <1>3, <1>5, <1>6
<1>8. arriving' \in [build : 0 .. MaxBuilds, installed : BOOLEAN]
      /\ arriving'.build = a /\ arriving'.installed = TRUE
  BY <1>0, <1>2, <1>3
<1>9. Page!TypeOK'
  BY <1>2, <1>7, <1>8, PageTypes DEF PageInv, Page!TypeOK, Cache, Kinds, Puts, Pages
<1>10. Workers'
  <2>1. \A b \in Page!Builds : caches'[b].index # 0 => b = active \/ b = a
    BY <1>2, <1>7 DEF PageInv, Workers
  <2>2. \A b, x \in Page!Builds : caches'[b].bundles[x] # "none" => b = active
    BY <1>6, <1>7 DEF PageInv, Workers
  <2>3. QED BY <1>2, <1>3, <1>8, <1>9, <2>1, <2>2 DEF PageInv, Workers
<1>11. Launched'
  <2>1. \A x : BundleNow(x)' = BundleNow(x)
    <3>1. active' = active /\ (active # 0 => caches'[active] = caches[active])
      BY <1>2, <1>3, <1>7
    <3>2. QED BY <3>1 DEF BundleNow
  <2>2. \A x \in Page!Builds : IndexNow = x => IndexNow' = x
    BY <1>2, <1>3, <1>7 DEF IndexNow
  <2>3. QED BY <1>2, <2>1, <2>2 DEF PageInv, Launched, Settles, SettlesAll, Page!Running
<1>12. QED BY <1>10, <1>11 DEF PageInv

\* The new worker takes over: the caches of every other are deleted.
LEMMA ActivateKeeps ==
    ASSUME PageInv, Page!Activate
    PROVE  PageInv'
<1>0. PICK a : a = arriving.build
  OBVIOUS
<1>1. /\ arriving.installed /\ active' = a /\ arriving' = [build |-> 0, installed |-> FALSE]
      /\ caches' = [b \in Page!Builds |-> IF b = a THEN caches[b] ELSE Page!NoCache]
      /\ putting' = {} /\ ~(page.state = "index" /\ page.by # 0)
      /\ UNCHANGED <<deployed, online>>
  BY <1>0 DEF Page!Activate, Page!Kept
<1>2. /\ Page!Builds = 1 .. MaxBuilds /\ MaxBuilds \in Nat /\ deployed \in Page!Builds
      /\ active \in 0 .. MaxBuilds /\ a \in Page!Builds /\ a > active /\ a <= deployed
      /\ page \in Pages /\ \A b \in Page!Builds : caches[b] \in Cache
  BY <1>0, <1>1, PageTypes DEF PageInv, Workers
<1>3. /\ Page!NoCache \in Cache /\ Page!NoCache.index = 0
      /\ \A x \in Page!Builds : Page!NoCache.bundles[x] = "none"
  BY <1>2 DEF Page!NoCache, Cache, Kinds, Page!ErrorPage
<1>4. /\ caches' \in [Page!Builds -> Cache]
      /\ \A b \in Page!Builds : caches'[b].index # 0 => b = a
      /\ \A b, x \in Page!Builds : caches'[b].bundles[x] # "none" => b = a
  <2>1. \A b \in Page!Builds : caches'[b] = IF b = a THEN caches[b] ELSE Page!NoCache
    BY <1>1
  <2>2. caches' \in [Page!Builds -> Cache]
    BY <1>1, <1>2, <1>3
  <2>3. QED BY <1>3, <2>1, <2>2
<1>5. /\ page' \in Pages /\ page'.by \in {0, a} /\ (page'.state = "closed" => page'.by = 0)
      /\ page'.whole => page'.state = "index" /\ page'.by = a
      /\ page'.state = "bundle" => page.state = "bundle" /\ page'.build = page.build
  <2>1. CASE Page!Reloads
    <3>1. page' = [state |-> "index", build |-> 0, by |-> a, had |-> FALSE, whole |-> a # 0 /\ {} = {}]
      BY <1>0, <2>1 DEF Page!Activate, Page!Loading
    <3>2. page' \in Pages
      BY <1>2, <3>1 DEF Pages
    <3>3. QED BY <3>1, <3>2
  <2>2. CASE ~Page!Reloads /\ page.state \in {"closed", "index"}
    <3>1. page' = page /\ page.by = 0
      BY <1>1, <2>2 DEF Page!Activate, PageInv, Workers
    <3>2. ~page.whole
      BY <3>1 DEF PageInv, Launched
    <3>3. QED BY <1>2, <3>1, <3>2
  <2>3. CASE ~Page!Reloads /\ page.state \notin {"closed", "index"}
    <3>1. page' = [page EXCEPT !.by = a, !.whole = FALSE]
      BY <1>0, <2>3 DEF Page!Activate
    <3>2. a \in 0 .. MaxBuilds
      BY <1>2
    <3>3. page' \in Pages
      BY <1>2, <3>1, <3>2 DEF Pages
    <3>4. page'.by = a /\ page'.whole = FALSE /\ page'.state = page.state /\ page'.build = page.build
      BY <1>2, <3>1 DEF Pages
    <3>5. QED BY <2>3, <3>3, <3>4
  <2>4. QED BY <2>1, <2>2, <2>3
<1>6. Page!TypeOK'
  BY <1>1, <1>2, <1>4, <1>5, PageTypes DEF PageInv, Page!TypeOK, Cache, Kinds, Puts, Pages
<1>7. Workers'
  BY <1>1, <1>2, <1>4, <1>5, <1>6 DEF PageInv, Workers
<1>8. Launched'
  BY <1>1, <1>2, <1>5 DEF Launched, Page!Running
<1>9. QED BY <1>7, <1>8 DEF PageInv

\* A deployment, and the network.
LEMMA WorldKeeps ==
    ASSUME PageInv, Page!Deploy \/ Page!Network
    PROVE  PageInv'
<1>1. /\ deployed' \in Page!Builds /\ deployed <= deployed' /\ online' \in BOOLEAN
      /\ UNCHANGED <<active, arriving, caches, putting, page>>
  <2>1. Page!Builds = 1 .. MaxBuilds /\ MaxBuilds \in Nat /\ deployed \in 1 .. MaxBuilds /\ online \in BOOLEAN
    BY PageTypes DEF PageInv
  <2>2. CASE Page!Deploy BY <2>1, <2>2 DEF Page!Deploy
  <2>3. CASE Page!Network BY <2>1, <2>3 DEF Page!Network
  <2>4. QED BY <2>2, <2>3
<1>2. deployed \in Nat /\ deployed' \in Nat /\ active \in Nat /\ arriving.build \in Nat
  BY <1>1, PageTypes DEF PageInv
<1>3. Page!TypeOK'
  BY <1>1 DEF PageInv, Workers, Page!TypeOK
<1>4. Workers'
  BY <1>1, <1>2, <1>3 DEF PageInv, Workers
<1>5. Launched'
  BY <1>1 DEF PageInv, Launched, Page!Running, Settles, SettlesAll, IndexNow, BundleNow
<1>6. QED BY <1>4, <1>5 DEF PageInv

\* A step of the page, the browser, its workers or the deployment.
LEMMA PageStep == PageInv /\ Page!Next => PageInv'
BY LoadIndexKeeps, LoadBundleKeeps, SettleKeeps, PageStepKeeps, CheckKeeps, InstallKeeps, ActivateKeeps,
   WorldKeeps DEF Page!Next

\* What the other parts do leaves the browser as it is.
LEMMA PageStutters == PageInv /\ UNCHANGED shellVars => PageInv'
BY DEF PageInv, Workers, Page!TypeOK, Launched, Page!Running, Settles, SettlesAll, IndexNow, BundleNow,
       shellVars

\* The invariant holds in every behaviour that is about the browser.
LEMMA PageInvariant == ServicesSpec => []PartPageInv
<1>1. ServicesInit => PartPageInv
  BY PageInit DEF ServicesInit, PartPageInv
<1>2. PartPageInv /\ [ServicesNext]_servicesVars => PartPageInv'
  <2> SUFFICES ASSUME PartPageInv, [ServicesNext]_servicesVars, part' = "shell" PROVE PageInv'
    BY DEF PartPageInv
  <2>1. CASE UNCHANGED servicesVars
    BY <2>1, PageStutters DEF PartPageInv, servicesVars
  <2>2. CASE ServicesNext
    <3>1. part = "shell" BY <2>2 DEF ServicesNext
    <3>2. Page!Next BY <2>2, <3>1 DEF ServicesNext
    <3>3. QED BY <3>1, <3>2, PageStep DEF PartPageInv
  <2>3. QED BY <2>1, <2>2
<1>3. QED BY <1>1, <1>2, PTL DEF ServicesSpec, servicesVars

\* sw.js: once the worker in control has loaded a page whole, the page can be
\* opened again without a network, index and bundle, whatever is deployed,
\* whichever answers are errors, wherever the browser drops the network and
\* whatever the next worker has stored, when nothing is being put any more.
THEOREM LaunchesOffline == ServicesSpec => []OfflineLaunch
<1>1. PartPageInv => OfflineLaunch
  <2> SUFFICES ASSUME PageInv PROVE Page!TypeOK /\ Page!OfflineLaunch
    BY DEF PartPageInv, OfflineLaunch
  <2>1. Page!OfflineLaunch
    <3> SUFFICES ASSUME Page!Running, page.whole, putting = {}
                 PROVE  Page!CachedIndex \in Page!Builds
                        /\ Page!CachedBundle(Page!CachedIndex) = "script"
      BY DEF Page!OfflineLaunch
    <3>1. IndexNow = page.build /\ page.build \in Page!Builds /\ BundleNow(page.build) = "script"
      BY DEF PageInv, Launched, Settles, SettlesAll
    <3>2. Page!CachedIndex = page.build /\ Page!CachedBundle(page.build) = "script"
      BY <3>1, OfflineIndex, OfflineBundle DEF PageInv
    <3>3. QED BY <3>1, <3>2
  <2>2. QED BY <2>1 DEF PageInv, Workers
<1>2. QED BY <1>1, PageInvariant, PTL

=============================================================================
