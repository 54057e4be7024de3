----------------------------- MODULE HostProofs -----------------------------
(*****************************************************************************)
(* What the programs of the host promise (MCHost), for any number of         *)
(* terminals, backends, tokens, turns, environments, gates and processes.    *)
(*                                                                           *)
(* CliLogin (LoginInv).  A configuration has a backend once, each with a     *)
(* token of its own (Configuration, Own), in the file and in what every      *)
(* terminal read of it; and a terminal holds at each stage the token of the  *)
(* backend it is about, which is the one the CLI asked for until its user    *)
(* chooses (Holds): so that no command ever sends a backend the token of     *)
(* another.                                                                  *)
(*                                                                           *)
(* Driver (DriveInv).  The worker takes the messages in the order the driver *)
(* sent them (InTheirOrder), so that the results the driver took are of later*)
(* and later turns, and never of one after the wait that took it             *)
(* (LaterAndLater); until the control stream drops, a message that got       *)
(* through did so on a stream that is up (Through).                          *)
(*                                                                           *)
(* GateRebind (GateInv).  claude runs only once every gate has a report, and *)
(* one whose breakpoint is not set reports it (Released); a pause is within  *)
(* the slack of a gate that has, or had, its breakpoint (AtGate); and the    *)
(* handler is busy exactly while claude is paused (Handles).  Headless, with *)
(* the gate claude is paused at (Own1); with an interactive claude, but for a*)
(* breakpoint that could not be removed, so that a gate that loses its       *)
(* breakpoint is rebound at most once (Own2).                                *)
(*                                                                           *)
(* Launch (TreeInv).  A process is younger than its parent (Born), so that as*)
(* many turns of walk as there are processes meet every descendant of the    *)
(* child; while their tree is being killed, what of it still lives is on the *)
(* list to be signalled (Signalled); and a process of the host itself is the *)
(* child of this attempt (Only).                                             *)
(*                                                                           *)
(* Terminal (PromptInv).  What was typed and not read yet is whole keys      *)
(* (Whole), so that a read ends a prompt only at the end of one; the keyboard*)
(* is raw exactly while a key is awaited (RawWhileReading), and the lines of *)
(* a script are answered in their order, none lost (NoLineLost).             *)
(*****************************************************************************)
EXTENDS MCHost, RecursionLemmas

-----------------------------------------------------------------------------
(* CliLogin.                                                               *)

\* A configuration as saveConfig writes it: a backend is in it once.
Distinct(b) == \A i, j \in DOMAIN b : b[i].url = b[j].url => i = j
Configuration(c) ==
    /\ c \in [current : Urls \cup {Null}, backends : Seq(Login!Backend)]
    /\ Distinct(c.backends)

\* Its tokens are of their backends.
Own(c) ==
    \A i \in DOMAIN c.backends :
        c.backends[i].token # Null => c.backends[i].token.url = c.backends[i].url

\* The backend a terminal is about before anybody chose one.
Asked(p) == Login!Orelse(cli[p].server, Login!Orelse(config[p].current, Default))

LoginTypes ==
    /\ file # Null => Configuration(file)
    /\ config \in [Terminals -> [current : Urls \cup {Null}, backends : Seq(Login!Backend)]]
    /\ \A p \in Terminals : Configuration(config[p])
    /\ stage \in [Terminals -> {"start", "check", "choose", "recheck", "obtain", "verify", "save",
                            "write", "launched", "cancelled"}]
    /\ cli \in [Terminals -> [server : Urls \cup {Null}, login : BOOLEAN]]
    /\ url \in [Terminals -> Urls \cup {Null}] /\ token \in [Terminals -> Tokens \cup {Null}]

\* What a terminal holds at each stage.
Holds(p) ==
    /\ stage[p] \in {"check", "recheck", "obtain", "verify", "save", "write", "launched"} =>
          url[p] \in Urls
    /\ stage[p] \in {"check", "recheck", "save", "write", "launched"} =>
          token[p] \in Tokens /\ token[p].url = url[p]
    /\ stage[p] = "verify" => token[p] \in Tokens
    /\ stage[p] = "check" => url[p] = Asked(p) /\ token[p] = Login!findBackend(config[p], url[p])

\* A terminal that asks its user was told to, knows no token, or one that has
\* stopped working.
HasToAsk(p) ==
    stage[p] \notin {"start", "check", "launched"} /\ ~cli[p].login =>
        \/ Login!findBackend(config[p], Asked(p)) = Null
        \/ Login!findBackend(config[p], Asked(p)) \notin good

LoginInv ==
    /\ LoginTypes
    /\ file # Null => Own(file)
    /\ \A p \in Terminals : Own(config[p]) /\ Holds(p) /\ HasToAsk(p)

\* A backend found is one of the configuration.
LEMMA FindsBackend ==
    ASSUME NEW c, Configuration(c), Own(c), NEW u
    PROVE  \/ Login!findBackend(c, u) = Null
           \/ Login!findBackend(c, u) \in Tokens /\ Login!findBackend(c, u).url = u
<1> DEFINE there == {i \in DOMAIN c.backends : c.backends[i].url = u}
           first == CHOOSE i \in there : \A j \in there : i <= j
<1>1. CASE there = {}
  BY <1>1 DEF Login!findBackend
<1>2. CASE there # {}
  <2>1. there \subseteq Nat /\ c.backends \in Seq(Login!Backend)
    BY DEF Configuration
  <2>2. \E i \in there : \A j \in there : i <= j
    <3> HIDE DEF there
    <3>1. QED BY <2>1, <1>2, LeastElement
  <2>3. first \in there
    <3> HIDE DEF there
    <3>1. QED BY <2>2
  <2>4. Login!findBackend(c, u) = c.backends[first].token
    BY <1>2 DEF Login!findBackend
  <2> HIDE DEF first
  <2>5. first \in DOMAIN c.backends /\ c.backends[first].url = u
    BY <2>3
  <2>6. c.backends[first] \in Login!Backend
    BY <2>1, <2>5
  <2>7. QED BY <2>4, <2>5, <2>6 DEF Own, Login!Backend
<1>3. QED BY <1>1, <1>2

\* What rememberBackend makes of a configuration is one, with the token of its
\* backend in front.
LEMMA Remembers ==
    ASSUME NEW c, Configuration(c), Own(c), NEW u \in Urls, NEW t \in Tokens, t.url = u
    PROVE  Configuration(Login!rememberBackend(c, u, t)) /\ Own(Login!rememberBackend(c, u, t))
<1> DEFINE s == c.backends
           I == {i \in DOMAIN s : s[i].url # u}
           rest == SubseqAt(s, I)
           b == [url |-> u, token |-> t]
           r == <<b>> \o rest
           R == {x \in Login!Backend \X Login!Backend : x[1].url # x[2].url}
<1>1. s \in Seq(Login!Backend) /\ Distinct(s)
  BY DEF Configuration
<1>11. Login!rememberBackend(c, u, t) = [current |-> u, backends |-> r]
  BY DEF Login!rememberBackend, Login!SubseqAt, SubseqAt
<1>2. rest \in Seq(Login!Backend)
  <2> HIDE DEF s, I
  <2>1. QED BY <1>1, SubseqAtType
<1>3. \A j \in DOMAIN rest : \E i \in DOMAIN s : i \in I /\ rest[j] = s[i]
  <2> HIDE DEF s, I
  <2>1. QED BY <1>1, SubseqAtContents
<1>4. \A i, j \in DOMAIN s : i < j => <<s[i], s[j]>> \in R
  <2> SUFFICES ASSUME NEW i \in DOMAIN s, NEW j \in DOMAIN s, i < j PROVE <<s[i], s[j]>> \in R
    OBVIOUS
  <2> HIDE DEF s
  <2>0. i # j BY <1>1
  <2>1. s[i].url # s[j].url BY <2>0, <1>1 DEF Distinct
  <2>2. s[i] \in Login!Backend /\ s[j] \in Login!Backend BY <1>1
  <2>3. QED BY <2>1, <2>2
<1>5. \A i, j \in DOMAIN rest : i < j => <<rest[i], rest[j]>> \in R
  <2> HIDE DEF s, I, R
  <2>1. QED BY <1>1, <1>4, SubseqAtOrder
<1>6. ASSUME NEW j \in DOMAIN rest
      PROVE  /\ rest[j].url # u
             /\ rest[j].token # Null => rest[j].token.url = rest[j].url
  <2>1. PICK i \in DOMAIN s : i \in I /\ rest[j] = s[i] BY <1>3
  <2>2. s[i].token # Null => s[i].token.url = s[i].url BY DEF Own
  <2>3. QED BY <2>1, <2>2
<1>7. b \in Login!Backend
  BY DEF Login!Backend
<1>8. \A i \in DOMAIN rest, j \in DOMAIN rest : rest[i].url = rest[j].url => i = j
  <2> SUFFICES ASSUME NEW i \in DOMAIN rest, NEW j \in DOMAIN rest, rest[i].url = rest[j].url
               PROVE  i = j
    OBVIOUS
  <2> HIDE DEF s, I, rest
  <2>1. i \in Int /\ j \in Int BY <1>2
  <2>2. ~(i < j) BY <1>5
  <2>3. ~(j < i) BY <1>5
  <2>4. QED BY <2>1, <2>2, <2>3
<1> HIDE DEF s, I, rest, R
<1>9. r \in Seq(Login!Backend) /\ DOMAIN r = 1 .. 1 + Len(rest) /\ r[1] = b
      /\ \A i \in DOMAIN r : i # 1 => i - 1 \in DOMAIN rest /\ r[i] = rest[i - 1]
  BY <1>2, <1>7
<1>10. Distinct(r)
  <2> SUFFICES ASSUME NEW i \in DOMAIN r, NEW j \in DOMAIN r, r[i].url = r[j].url
               PROVE  i = j
    BY DEF Distinct
  <2> HIDE DEF r
  <2>0. i \in Int /\ j \in Int BY <1>9
  <2>1. CASE i = 1 /\ j # 1 BY <2>1, <1>6, <1>9 DEF b
  <2>2. CASE i # 1 /\ j = 1 BY <2>2, <1>6, <1>9 DEF b
  <2>3. CASE i # 1 /\ j # 1
    <3>1. i - 1 = j - 1 BY <2>3, <1>8, <1>9
    <3>2. QED BY <3>1, <2>0
  <2>4. QED BY <2>1, <2>2, <2>3
<1>12. \A i \in DOMAIN r : r[i].token # Null => r[i].token.url = r[i].url
  <2> HIDE DEF r
  <2>1. QED BY <1>6, <1>9 DEF b
<1> HIDE DEF r
<1>13. QED BY <1>9, <1>10, <1>11, <1>12 DEF Configuration, Own

\* Before the first start every terminal has the fresh configuration.
LEMMA LoginInit == Login!Init => LoginInv
<1> SUFFICES ASSUME Login!Init PROVE LoginInv
  OBVIOUS
<1>1. Configuration(Login!Fresh) /\ Own(Login!Fresh)
  BY DEF Configuration, Own, Distinct, Login!Fresh
<1>2. \A p \in Terminals : config[p] = Login!Fresh /\ stage[p] = "start"
  BY DEF Login!Init
<1>3. LoginTypes
  BY <1>1, <1>2 DEF LoginTypes, Login!Init, Configuration
<1>4. QED BY <1>1, <1>2, <1>3 DEF LoginInv, Login!Init, Holds, HasToAsk

\* A step of a terminal leaves the others as they were.
LEMMA Elsewhere ==
    ASSUME LoginInv, UNCHANGED <<cli, good>>, NEW q \in Terminals, stage'[q] = stage[q], config'[q] = config[q],
           url'[q] = url[q], token'[q] = token[q]
    PROVE  (Own(config[q]) /\ Holds(q) /\ HasToAsk(q))'
BY DEF LoginInv, Own, Holds, HasToAsk, Asked

\* A terminal starts with what is in the file (resolveAccount, up to its first
\* question).
LEMMA StartKeeps == ASSUME LoginInv, NEW p \in Terminals, Login!Start(p) PROVE LoginInv'
<1> DEFINE c == Login!Loaded
           u == Login!Orelse(cli[p].server, Login!Orelse(c.current, Default))
           known == Login!findBackend(c, u)
<1>1. Configuration(Login!Fresh) /\ Own(Login!Fresh)
  BY DEF Configuration, Own, Distinct, Login!Fresh
<1>2. Configuration(c) /\ Own(c)
  BY <1>1 DEF LoginInv, LoginTypes, Login!Loaded
<1>3. u \in Urls
  BY <1>2, TokensAssumption DEF Login!Orelse, Configuration, LoginInv, LoginTypes
<1>4. known = Null \/ (known \in Tokens /\ known.url = u)
  BY <1>2, FindsBackend
<1>5. config' = [config EXCEPT ![p] = c] /\ UNCHANGED <<file, good, cli, tries>>
  BY DEF Login!Start
<1>6. \/ /\ stage' = [stage EXCEPT ![p] = "check"] /\ ~cli[p].login /\ known # Null
         /\ url' = [url EXCEPT ![p] = u] /\ token' = [token EXCEPT ![p] = known]
      \/ /\ stage' = [stage EXCEPT ![p] = "choose"] /\ (cli[p].login \/ known = Null)
         /\ UNCHANGED <<url, token>>
  BY DEF Login!Start, Login!To
<1>7. Asked(p)' = u /\ config'[p] = c
  BY <1>5 DEF Asked, LoginInv, LoginTypes
<1> HIDE DEF c, u, known
<1>8. LoginTypes'
  <2>1. \A q \in Terminals : Configuration(config'[q])
    BY <1>2, <1>5 DEF LoginInv, LoginTypes
  <2>2. config' \in [Terminals -> [current : Urls \cup {Null}, backends : Seq(Login!Backend)]]
    BY <1>2, <1>5 DEF LoginInv, LoginTypes, Configuration
  <2>3. stage' \in [Terminals -> {"start", "check", "choose", "recheck", "obtain", "verify", "save",
                            "write", "launched", "cancelled"}]
    BY <1>6 DEF LoginInv, LoginTypes
  <2>4. url' \in [Terminals -> Urls \cup {Null}]
    BY <1>3, <1>6 DEF LoginInv, LoginTypes
  <2>5. token' \in [Terminals -> Tokens \cup {Null}]
    BY <1>4, <1>6 DEF LoginInv, LoginTypes
  <2>6. (file # Null => Configuration(file))' /\ (cli \in [Terminals -> [server : Urls \cup {Null}, login : BOOLEAN]])'
    <3>1. Configuration(file)' = Configuration(file')
      OBVIOUS
    <3>2. QED BY <1>5 DEF LoginInv, LoginTypes, Configuration
  <2>7. QED BY <2>1, <2>2, <2>3, <2>4, <2>5, <2>6 DEF LoginTypes
<1>9. (Own(config[p]) /\ Holds(p) /\ HasToAsk(p))'
  BY <1>2, <1>3, <1>4, <1>5, <1>6, <1>7 DEF LoginInv, LoginTypes, Holds, HasToAsk, known
<1>10. ASSUME NEW q \in Terminals \ {p} PROVE (Own(config[q]) /\ Holds(q) /\ HasToAsk(q))'
  <2>1. /\ stage'[q] = stage[q] /\ config'[q] = config[q] /\ url'[q] = url[q] /\ token'[q] = token[q]
    BY <1>5, <1>6 DEF LoginInv, LoginTypes
  <2>2. QED BY <2>1, <1>5, Elsewhere
<1>11. QED BY <1>5, <1>8, <1>9, <1>10 DEF LoginInv

\* A terminal goes on, with another backend or token perhaps.
LEMMA Goes ==
    ASSUME LoginInv, NEW p \in Terminals, UNCHANGED <<file, good, cli, config>>, NEW where,
           where \in {"check", "choose", "recheck", "obtain", "verify", "save", "write", "launched", "cancelled"},
           stage' = [stage EXCEPT ![p] = where],
           NEW u \in Urls \cup {Null}, NEW t \in Tokens \cup {Null},
           url' = [url EXCEPT ![p] = u], token' = [token EXCEPT ![p] = t],
           (Holds(p) /\ HasToAsk(p))'
    PROVE  LoginInv'
<1>1. LoginTypes'
  BY DEF LoginInv, LoginTypes
<1>2. ASSUME NEW q \in Terminals \ {p} PROVE (Own(config[q]) /\ Holds(q) /\ HasToAsk(q))'
  <2>1. /\ stage'[q] = stage[q] /\ config'[q] = config[q] /\ url'[q] = url[q] /\ token'[q] = token[q]
    BY DEF LoginInv, LoginTypes
  <2>2. QED BY <2>1, Elsewhere
<1>3. Own(config[p])'
  BY DEF LoginInv
<1>4. (file # Null => Own(file))'
  BY DEF LoginInv
<1>5. QED BY <1>1, <1>2, <1>3, <1>4 DEF LoginInv

\* The same with the backend and the token it has.
LEMMA GoesOn ==
    ASSUME LoginInv, NEW p \in Terminals, UNCHANGED <<file, good, cli, config, url, token>>, NEW where,
           where \in {"check", "choose", "recheck", "obtain", "verify", "save", "write", "launched", "cancelled"},
           stage' = [stage EXCEPT ![p] = where],
           (Holds(p) /\ HasToAsk(p))'
    PROVE  LoginInv'
<1>1. url[p] \in Urls \cup {Null} /\ token[p] \in Tokens \cup {Null}
      /\ url' = [url EXCEPT ![p] = url[p]] /\ token' = [token EXCEPT ![p] = token[p]]
  BY DEF LoginInv, LoginTypes
<1>2. QED BY <1>1, Goes

\* The first question to the server (checkToken of the saved token).
LEMMA CheckKeeps == ASSUME LoginInv, NEW p \in Terminals, NEW st, Login!CheckSaved(p, st) PROVE LoginInv'
<1> DEFINE where == IF Login!Refused(st) THEN "choose" ELSE "launched"
<1>1. /\ UNCHANGED <<file, good, cli, config, url, token>> /\ stage[p] = "check"
      /\ stage' = [stage EXCEPT ![p] = where]
  BY DEF Login!CheckSaved, Login!To
<1>2. where = "choose" => token[p] \notin good
  <2>1. Holds(p) BY DEF LoginInv
  <2>2. QED BY <1>1, <2>1 DEF Login!CheckSaved, Login!Says, Login!Refused, Holds
<1>3. where \in {"choose", "launched"} /\ stage'[p] = where
  BY <1>1 DEF LoginInv, LoginTypes
<1> HIDE DEF where
<1>4. Asked(p)' = Asked(p)
  BY <1>1 DEF Asked
<1>5. Holds(p)'
  BY <1>1, <1>3 DEF LoginInv, Holds
<1>6. HasToAsk(p)'
  BY <1>1, <1>2, <1>3, <1>4 DEF LoginInv, Holds, HasToAsk
<1>7. QED BY <1>1, <1>3, <1>5, <1>6, GoesOn

\* The backend is chosen (runLoginFlow).
LEMMA ChooseKeeps == ASSUME LoginInv, NEW p \in Terminals, NEW u \in Urls, Login!Choose(p, u) PROVE LoginInv'
<1> DEFINE t == Login!findBackend(config[p], u)
           where == IF t # Null THEN "recheck" ELSE "obtain"
<1>1. /\ UNCHANGED <<file, good, cli, config>> /\ stage[p] = "choose"
      /\ stage' = [stage EXCEPT ![p] = where]
      /\ url' = [url EXCEPT ![p] = u] /\ token' = [token EXCEPT ![p] = t]
  BY DEF Login!Choose, Login!To
<1>2. t = Null \/ (t \in Tokens /\ t.url = u)
  BY FindsBackend DEF LoginInv, LoginTypes
<1>3. /\ where = "recheck" => t # Null
      /\ where \in {"recheck", "obtain"}
  OBVIOUS
<1> HIDE DEF where, t
<1>31. stage'[p] = where /\ url'[p] = u /\ token'[p] = t
  BY <1>1 DEF LoginInv, LoginTypes
<1>4. Asked(p)' = Asked(p)
  BY <1>1 DEF Asked
<1>5. Holds(p)'
  BY <1>2, <1>3, <1>31 DEF Holds
<1>6. HasToAsk(p)'
  BY <1>1, <1>3, <1>4 DEF LoginInv, HasToAsk
<1>7. QED BY <1>1, <1>2, <1>3, <1>5, <1>6, Goes

\* The second question, about the token of the backend chosen.
LEMMA RecheckKeeps == ASSUME LoginInv, NEW p \in Terminals, NEW st, Login!Recheck(p, st) PROVE LoginInv'
<1> DEFINE where == IF Login!Refused(st) THEN "obtain" ELSE "save"
<1>1. /\ UNCHANGED <<file, good, cli, config, url, token>> /\ stage[p] = "recheck"
      /\ stage' = [stage EXCEPT ![p] = where]
  BY DEF Login!Recheck, Login!To
<1>3. where \in {"obtain", "save"} /\ stage'[p] = where
  BY <1>1 DEF LoginInv, LoginTypes
<1> HIDE DEF where
<1>4. Asked(p)' = Asked(p)
  BY <1>1 DEF Asked
<1>5. Holds(p)'
  BY <1>1, <1>3 DEF LoginInv, Holds
<1>6. HasToAsk(p)'
  BY <1>1, <1>3, <1>4 DEF LoginInv, HasToAsk
<1>7. QED BY <1>1, <1>3, <1>5, <1>6, GoesOn

\* A login gives a token of the backend it was made at (obtainToken).
LEMMA LogsIn == ASSUME LoginInv, NEW p \in Terminals, NEW t \in Tokens, Login!Login(p, t) PROVE LoginInv'
<1>1. /\ UNCHANGED <<file, good, cli, config, url>> /\ stage[p] = "obtain"
      /\ stage' = [stage EXCEPT ![p] = "save"] /\ token' = [token EXCEPT ![p] = t] /\ t.url = url[p]
  BY DEF Login!Login, Login!To
<1>2. stage'[p] = "save" /\ token'[p] = t /\ url'[p] = url[p] /\ url[p] \in Urls
      /\ url' = [url EXCEPT ![p] = url[p]]
  BY <1>1 DEF LoginInv, LoginTypes, Holds
<1>4. Asked(p)' = Asked(p)
  BY <1>1 DEF Asked
<1>5. Holds(p)'
  BY <1>1, <1>2 DEF Holds
<1>6. HasToAsk(p)'
  BY <1>1, <1>2, <1>4 DEF LoginInv, HasToAsk
<1>7. QED BY <1>1, <1>2, <1>5, <1>6, Goes

\* A pasted token is of any backend, until it is verified.
LEMMA Pastes == ASSUME LoginInv, NEW p \in Terminals, NEW t \in Tokens, Login!Paste(p, t) PROVE LoginInv'
<1>1. /\ UNCHANGED <<file, good, cli, config, url>> /\ stage[p] = "obtain"
      /\ stage' = [stage EXCEPT ![p] = "verify"] /\ token' = [token EXCEPT ![p] = t]
  BY DEF Login!Paste, Login!Pasted, Login!To
<1>2. stage'[p] = "verify" /\ token'[p] = t /\ url'[p] = url[p] /\ url[p] \in Urls
      /\ url' = [url EXCEPT ![p] = url[p]]
  BY <1>1 DEF LoginInv, LoginTypes, Holds
<1>4. Asked(p)' = Asked(p)
  BY <1>1 DEF Asked
<1>5. Holds(p)'
  BY <1>1, <1>2 DEF Holds
<1>6. HasToAsk(p)'
  BY <1>1, <1>2, <1>4 DEF LoginInv, HasToAsk
<1>7. QED BY <1>1, <1>2, <1>5, <1>6, Goes

\* Only the server of a pasted token's own backend says it is good.
LEMMA VerifyKeeps == ASSUME LoginInv, NEW p \in Terminals, NEW st, Login!Verify(p, st) PROVE LoginInv'
<1> DEFINE where == IF st = "ok" THEN "save" ELSE "obtain"
<1>1. /\ UNCHANGED <<file, good, cli, config, url, token>> /\ stage[p] = "verify"
      /\ stage' = [stage EXCEPT ![p] = where]
  BY DEF Login!Verify, Login!To
<1>2. where = "save" => token[p].url = url[p]
  BY DEF Login!Verify, Login!Says
<1>3. where \in {"obtain", "save"} /\ stage'[p] = where
  BY <1>1 DEF LoginInv, LoginTypes
<1> HIDE DEF where
<1>4. Asked(p)' = Asked(p)
  BY <1>1 DEF Asked
<1>5. Holds(p)'
  BY <1>1, <1>2, <1>3 DEF LoginInv, Holds
<1>6. HasToAsk(p)'
  BY <1>1, <1>3, <1>4 DEF LoginInv, HasToAsk
<1>7. QED BY <1>1, <1>3, <1>5, <1>6, GoesOn

\* Ctrl-C.
LEMMA CancelKeeps == ASSUME LoginInv, NEW p \in Terminals, Login!Cancel(p) PROVE LoginInv'
<1>1. /\ UNCHANGED <<file, good, cli, config, url, token>> /\ stage[p] \in {"obtain", "choose"}
      /\ stage' = [stage EXCEPT ![p] = "cancelled"]
  BY DEF Login!Cancel, Login!To
<1>3. stage'[p] = "cancelled"
  BY <1>1 DEF LoginInv, LoginTypes
<1>4. Asked(p)' = Asked(p)
  BY <1>1 DEF Asked
<1>5. Holds(p)'
  BY <1>1, <1>3 DEF Holds
<1>6. HasToAsk(p)'
  BY <1>1, <1>3, <1>4 DEF LoginInv, HasToAsk
<1>7. QED BY <1>1, <1>3, <1>5, <1>6, GoesOn

\* saveConfig writes what its terminal has learned over what others wrote.
LEMMA Saves ==
    ASSUME LoginInv, NEW p \in Terminals, Login!Truncate(p) \/ Login!Save(p) PROVE LoginInv'
<1>1. CASE Login!Truncate(p)
  <2>1. /\ UNCHANGED <<good, cli, config, url, token>> /\ stage[p] = "save" /\ file' = Null
        /\ stage' = [stage EXCEPT ![p] = "write"]
    BY <1>1 DEF Login!Truncate, Login!To
  <2>2. stage'[p] = "write" /\ Asked(p)' = Asked(p)
    BY <2>1 DEF LoginInv, LoginTypes, Asked
  <2>3. (Own(config[p]) /\ Holds(p) /\ HasToAsk(p))'
    BY <2>1, <2>2 DEF LoginInv, Holds, HasToAsk, Own
  <2>4. ASSUME NEW q \in Terminals \ {p} PROVE (Own(config[q]) /\ Holds(q) /\ HasToAsk(q))'
    <3>1. /\ stage'[q] = stage[q] /\ config'[q] = config[q] /\ url'[q] = url[q] /\ token'[q] = token[q]
      BY <2>1 DEF LoginInv, LoginTypes
    <3>2. QED BY <2>1, <3>1, Elsewhere
  <2>5. LoginTypes'
    BY <2>1 DEF LoginInv, LoginTypes
  <2>6. QED BY <2>1, <2>3, <2>4, <2>5 DEF LoginInv
<1>2. CASE Login!Save(p)
  <2>1. /\ UNCHANGED <<good, cli, config, url, token>> /\ stage[p] = "write"
        /\ file' = Login!rememberBackend(config[p], url[p], token[p])
        /\ stage' = [stage EXCEPT ![p] = "launched"]
    BY <1>2 DEF Login!Save, Login!To
  <2>2. stage'[p] = "launched" /\ Asked(p)' = Asked(p)
    BY <2>1 DEF LoginInv, LoginTypes, Asked
  <2>3. (Own(config[p]) /\ Holds(p) /\ HasToAsk(p))'
    BY <2>1, <2>2 DEF LoginInv, Holds, HasToAsk, Own
  <2>4. ASSUME NEW q \in Terminals \ {p} PROVE (Own(config[q]) /\ Holds(q) /\ HasToAsk(q))'
    <3>1. /\ stage'[q] = stage[q] /\ config'[q] = config[q] /\ url'[q] = url[q] /\ token'[q] = token[q]
      BY <2>1 DEF LoginInv, LoginTypes
    <3>2. QED BY <2>1, <3>1, Elsewhere
  <2>5. Configuration(file') /\ Own(file')
    <3>1. url[p] \in Urls /\ token[p] \in Tokens /\ token[p].url = url[p]
      BY <2>1 DEF LoginInv, Holds
    <3>2. Configuration(config[p]) /\ Own(config[p])
      BY DEF LoginInv, LoginTypes
    <3>3. QED BY <2>1, <3>1, <3>2, Remembers
  <2>6. LoginTypes'
    <3>1. stage' \in [Terminals -> {"start", "check", "choose", "recheck", "obtain", "verify", "save",
                                "write", "launched", "cancelled"}]
      BY <2>1 DEF LoginInv, LoginTypes
    <3>2. Configuration(file)' = Configuration(file')
      OBVIOUS
    <3>3. \A q \in Terminals : Configuration(config'[q])
      BY <2>1 DEF LoginInv, LoginTypes
    <3>4. QED BY <2>1, <2>5, <3>1, <3>2, <3>3 DEF LoginInv, LoginTypes
  <2>7. (file # Null => Own(file))'
    BY <2>5
  <2>8. QED BY <2>3, <2>4, <2>6, <2>7 DEF LoginInv
<1>3. QED BY <1>1, <1>2

\* A token that stops working is one more reason to ask.
LEMMA RefuseKeeps == ASSUME LoginInv, NEW t \in Tokens, Login!Refuse(t) PROVE LoginInv'
<1>1. UNCHANGED <<file, stage, cli, config, url, token>> /\ good' \subseteq good
  BY DEF Login!Refuse
<1>2. LoginTypes' /\ (file # Null => Own(file))'
  BY <1>1 DEF LoginInv, LoginTypes, Own, Configuration
<1>3. ASSUME NEW q \in Terminals PROVE (Own(config[q]) /\ Holds(q) /\ HasToAsk(q))'
  <2>1. Asked(q)' = Asked(q)
    BY <1>1 DEF Asked
  <2>2. QED BY <1>1, <2>1 DEF LoginInv, Own, Holds, HasToAsk
<1>4. QED BY <1>2, <1>3 DEF LoginInv

\* Each step of the terminals (cli-auth.ts, resolveAccount).
LEMMA LoginStep == ASSUME LoginInv, Login!Next \/ UNCHANGED loginVars PROVE LoginInv'
<1>1. CASE Login!Next
  BY <1>1, StartKeeps, CheckKeeps, ChooseKeeps, RecheckKeeps, LogsIn, Pastes, VerifyKeeps,
     CancelKeeps, Saves, RefuseKeeps DEF Login!Next
<1>2. CASE UNCHANGED loginVars
  <2>1. UNCHANGED <<file, good, stage, cli, config, url, token, tries>>
    BY <1>2 DEF loginVars
  <2>2. LoginTypes' /\ (file # Null => Own(file))'
    BY <2>1 DEF LoginInv, LoginTypes, Own, Configuration
  <2>3. \A q \in Terminals : (Own(config[q]) /\ Holds(q) /\ HasToAsk(q))'
    BY <2>1, Elsewhere DEF LoginInv
  <2>4. QED BY <2>2, <2>3 DEF LoginInv
<1>3. QED BY <1>1, <1>2

\* What the invariant says of a configuration is what the module's own types do.
LEMMA LoginMeans == LoginInv => OwnToken
<1> SUFFICES ASSUME LoginInv PROVE Login!TypeOK /\ Login!OwnToken /\ Login!AsksOnlyIfNeeded
  BY DEF OwnToken
<1>1. ASSUME NEW c, Configuration(c) PROVE Login!IsConfig(c)
  BY <1>1 DEF Configuration, Distinct, Login!IsConfig
<1>2. Login!TypeOK
  BY <1>1 DEF LoginInv, LoginTypes, Login!TypeOK
<1>3. Login!OwnToken
  BY DEF LoginInv, Holds, Own, Login!OwnToken
<1>4. Login!AsksOnlyIfNeeded
  BY DEF LoginInv, HasToAsk, Asked, Login!AsksOnlyIfNeeded
<1>5. QED BY <1>2, <1>3, <1>4

\* "A token belongs to a specific backend" (cli-auth.ts): whatever the terminals
\* of a host do to its one config.json at once, claude is never launched and
\* nothing is saved with the token of another backend; and resolveAccount asks
\* only for what it does not have.
THEOREM TokensStayHome == HostSpec => []OwnToken
<1>1. HostInit => LoginInv
  BY LoginInit DEF HostInit
<1>2. LoginInv /\ [HostNext]_<<part, vars, clientVars, gateVars, driverVars, launchVars, loginVars, surfaceVars>>
      => LoginInv'
  BY LoginStep DEF HostNext
<1>3. QED BY <1>1, <1>2, LoginMeans, PTL DEF HostSpec

-----------------------------------------------------------------------------
(* Driver.                                                                 *)

DriveTypes ==
    /\ phase \in {"observe", "ask", "wait", "over"}
    /\ last \in Envs \cup {Null} /\ due \subseteq Envs /\ pushes \in [Envs -> Nat]
    /\ reached \in BOOLEAN /\ stream \in BOOLEAN /\ asking \in BOOLEAN
    /\ drops \in Nat /\ turn \in 0..MaxTurns
    /\ working \in 0..turn
    /\ wait = IF phase = "wait" THEN turn ELSE 0
    /\ phase = "wait" => turn # 0
    /\ ended \in Seq(Nat) /\ Len(ended) = turn - (IF phase = "wait" THEN 1 ELSE 0)
    /\ inbox \in Seq(1..turn)

\* The worker takes the messages in their order: what is on its way comes after
\* what it is in, and both after every turn whose result was taken.
InTheirOrder ==
    /\ \A i, j \in DOMAIN inbox : i < j => inbox[i] < inbox[j]
    /\ \A i \in DOMAIN inbox : working < inbox[i]
    /\ \A i \in DOMAIN ended, j \in DOMAIN inbox : ended[i] < inbox[j]
    /\ \A i \in DOMAIN ended : working # 0 => ended[i] < working

\* The results taken are of later and later turns, none of one to come.
LaterAndLater ==
    /\ \A i \in DOMAIN ended : ended[i] <= i
    /\ \A i, j \in DOMAIN ended : i < j /\ ended[j] # 0 => ended[i] < ended[j]

\* A message gets through a stream only, and a stream that never dropped is up.
Through ==
    /\ stream => reached
    /\ reached /\ drops = 0 => stream
    /\ inbox # <<>> \/ working # 0 => reached
    /\ asking => working # 0 /\ drops > 0

DriveInv == DriveTypes /\ InTheirOrder /\ LaterAndLater /\ Through

\* The driver starts with nothing sent (cli.ts).
LEMMA DriveInit == Drive!Init => DriveInv
<1> SUFFICES ASSUME Drive!Init PROVE DriveInv
  OBVIOUS
<1>1. ended = <<>> /\ inbox = <<>> /\ working = 0
  BY DEF Drive!Init
<1>2. DriveTypes
  <2>1. ended \in Seq(Nat) /\ Len(ended) = 0 /\ inbox \in Seq(1..turn)
    BY <1>1
  <2>2. phase = "observe" /\ wait = 0 /\ turn = 0 /\ working = 0 /\ 0 \in 0..MaxTurns
    BY EnvsAssumption DEF Drive!Init
  <2>3. /\ last \in Envs \cup {Null} /\ due \subseteq Envs /\ pushes \in [Envs -> Nat] /\ drops \in Nat
        /\ reached = FALSE /\ stream = FALSE /\ asking = FALSE
    BY DEF Drive!Init
  <2>4. reached \in BOOLEAN /\ stream \in BOOLEAN /\ asking \in BOOLEAN
    BY <2>3
  <2>5. wait = IF phase = "wait" THEN turn ELSE 0
    BY <2>2
  <2>6. Len(ended) = turn - (IF phase = "wait" THEN 1 ELSE 0)
    BY <2>1, <2>2
  <2>7. working \in 0..turn /\ turn \in 0..MaxTurns /\ phase # "wait" /\ phase \in {"observe", "ask", "wait", "over"}
    BY <2>2
  <2>8. QED BY <2>1, <2>3, <2>4, <2>5, <2>6, <2>7 DEF DriveTypes
<1>3. InTheirOrder /\ LaterAndLater
  BY <1>1 DEF InTheirOrder, LaterAndLater
<1>4. Through
  BY DEF Drive!Init, Through
<1>5. QED BY <1>2, <1>3, <1>4 DEF DriveInv

\* Steps that touch neither the turns nor what the worker holds.
LEMMA Handshakes ==
    ASSUME DriveInv,
           \/ \E e \in Envs : Drive!Registered(e) \/ Drive!Push(e)
           \/ Drive!Connect \/ Drive!Drop \/ Drive!Observed \/ Drive!ObserveTimeout \/ Drive!Quit
           \/ UNCHANGED driverVars
    PROVE  DriveInv'
<1> USE DEF DriveInv
<1>1. /\ UNCHANGED <<turn, inbox, working, asking, wait, ended>>
      /\ phase' = phase \/ (phase # "wait" /\ phase' \in {"ask", "over"})
  BY DEF Drive!Registered, Drive!Push, Drive!Connect, Drive!Drop, Drive!Observed, Drive!ObserveTimeout,
         Drive!Quit, Drive!worker, driverVars
<1>2. last' \in Envs \cup {Null} /\ due' \subseteq Envs /\ pushes' \in [Envs -> Nat]
  <2>1. CASE \E e \in Envs : Drive!Registered(e)
    BY <2>1 DEF DriveTypes, Drive!Registered
  <2>2. CASE \E e \in Envs : Drive!Push(e)
    BY <2>2 DEF DriveTypes, Drive!Push
  <2>3. CASE UNCHANGED <<last, due, pushes>>
    BY <2>3 DEF DriveTypes
  <2>4. QED BY <2>1, <2>2, <2>3 DEF Drive!Connect, Drive!Drop, Drive!Observed,
                 Drive!ObserveTimeout, Drive!Quit, Drive!handshake, driverVars
<1>3. /\ reached' \in BOOLEAN /\ stream' \in BOOLEAN /\ drops' \in Nat /\ Through'
  <2>1. CASE Drive!Connect
    <3>1. reached' = TRUE /\ stream' = TRUE /\ drops' = drops
      BY <2>1 DEF Drive!Connect
    <3>2. QED BY <1>1, <3>1 DEF DriveTypes, Through
  <2>2. CASE Drive!Drop
    <3>1. ~stream' /\ stream' \in BOOLEAN /\ drops' = drops + 1 /\ UNCHANGED <<reached, working, inbox, asking>>
      BY <1>1, <2>2 DEF Drive!Drop
    <3>2. drops \in Nat /\ reached \in BOOLEAN
      BY DEF DriveTypes
    <3>3. drops' \in Nat /\ drops' > 0
      BY <3>1, <3>2
    <3>4. QED BY <3>1, <3>2, <3>3 DEF Through
  <2>3. CASE UNCHANGED <<reached, stream, drops>>
    BY <1>1, <2>3 DEF DriveTypes, Through
  <2>4. QED BY <2>1, <2>2, <2>3 DEF Drive!Registered, Drive!Push, Drive!Observed, Drive!ObserveTimeout,
                 Drive!Quit, driverVars
<1>4. DriveTypes'
  <2>1. phase' = "wait" <=> phase = "wait"
    BY <1>1
  <2>2. QED BY <1>1, <1>2, <1>3, <2>1 DEF DriveTypes
<1>5. InTheirOrder' /\ LaterAndLater'
  BY <1>1 DEF InTheirOrder, LaterAndLater
<1>6. QED BY <1>3, <1>4, <1>5

\* sendAndWait: the message is the last of those on their way, or lost.
LEMMA Sends == ASSUME DriveInv, Drive!Send PROVE DriveInv'
<1> USE DEF DriveInv
<1>1. /\ phase = "ask" /\ turn < MaxTurns /\ turn' = turn + 1 /\ wait' = turn + 1 /\ phase' = "wait"
      /\ UNCHANGED <<last, due, pushes, reached, stream, drops, working, asking, ended>>
      /\ inbox' = IF stream THEN inbox \o <<turn + 1>> ELSE inbox
  <2>1. inbox \in Seq(1..turn) BY DEF DriveTypes
  <2>2. inbox \o <<>> = inbox BY <2>1
  <2>3. QED BY <2>2 DEF Drive!Send, Drive!Sent, Drive!handshake
<1>2. turn \in Nat /\ working \in 0..turn /\ inbox \in Seq(1..turn) /\ turn' \in Nat
  BY <1>1, EnvsAssumption DEF DriveTypes
<1>21. Len(inbox) \in Nat /\ DOMAIN inbox = 1..Len(inbox) /\ \A i \in DOMAIN inbox : inbox[i] \in 1..turn
  BY <1>2
<1>3. /\ inbox' \in Seq(1..turn')
      /\ \A i \in DOMAIN inbox' : \/ i \in DOMAIN inbox /\ inbox'[i] = inbox[i]
                                  \/ i = Len(inbox) + 1 /\ inbox'[i] = turn + 1 /\ stream
  <2>1. inbox \in Seq(1..turn + 1)
    BY <1>2
  <2>2. CASE stream BY <1>1, <1>2, <2>1, <2>2
  <2>3. CASE ~stream BY <1>1, <1>2, <2>1, <2>3
  <2>4. QED BY <2>2, <2>3
<1>4. DriveTypes'
  BY <1>1, <1>2, <1>3, EnvsAssumption DEF DriveTypes
<1>5. \A i \in DOMAIN inbox : inbox[i] \in 1..turn
  BY <1>2
<1>6. \A i \in DOMAIN ended : ended[i] \in Nat /\ ended[i] <= turn /\ i \in Nat
  <2>1. ended \in Seq(Nat) /\ Len(ended) = turn
    BY <1>1 DEF DriveTypes
  <2>2. ASSUME NEW i \in DOMAIN ended PROVE ended[i] \in Nat /\ ended[i] <= turn /\ i \in Nat
    <3>1. i \in 1..turn /\ ended[i] \in Nat BY <2>1
    <3>2. ended[i] <= i BY DEF LaterAndLater
    <3>3. QED BY <3>1, <3>2, <1>2
  <2>3. QED BY <2>2
<1>7. InTheirOrder'
  <2>1. \A i, j \in DOMAIN inbox' : i < j => inbox'[i] < inbox'[j]
    <3> SUFFICES ASSUME NEW i \in DOMAIN inbox', NEW j \in DOMAIN inbox', i < j PROVE inbox'[i] < inbox'[j]
      OBVIOUS
    <3>0. /\ \/ i \in DOMAIN inbox /\ inbox'[i] = inbox[i]
             \/ i = Len(inbox) + 1
          /\ \/ j \in DOMAIN inbox /\ inbox'[j] = inbox[j]
             \/ j = Len(inbox) + 1 /\ inbox'[j] = turn + 1
      BY <1>3
    <3>1. j \in Nat /\ j <= Len(inbox) + 1 BY <1>21, <3>0
    <3>2. i \in DOMAIN inbox /\ inbox'[i] = inbox[i] BY <1>21, <3>0, <3>1
    <3>3. CASE j \in DOMAIN inbox
      <4>1. j # Len(inbox) + 1 BY <1>21, <3>3
      <4>2. QED BY <3>0, <3>2, <3>3, <4>1 DEF InTheirOrder
    <3>4. CASE j = Len(inbox) + 1
      <4>1. j \notin DOMAIN inbox BY <1>21, <3>4
      <4>2. inbox[i] \in 1..turn BY <1>21, <3>2
      <4>3. QED BY <1>2, <3>0, <3>2, <4>1, <4>2
    <3>5. QED BY <3>0, <3>3, <3>4
  <2>2. \A i \in DOMAIN inbox' : working < inbox'[i]
    <3> SUFFICES ASSUME NEW i \in DOMAIN inbox' PROVE working < inbox'[i]
      OBVIOUS
    <3>1. CASE i \in DOMAIN inbox /\ inbox'[i] = inbox[i] BY <3>1 DEF InTheirOrder
    <3>2. CASE inbox'[i] = turn + 1 BY <1>2, <3>2
    <3>3. QED BY <1>3, <3>1, <3>2
  <2>3. \A i \in DOMAIN ended, j \in DOMAIN inbox' : ended[i] < inbox'[j]
    <3> SUFFICES ASSUME NEW i \in DOMAIN ended, NEW j \in DOMAIN inbox' PROVE ended[i] < inbox'[j]
      OBVIOUS
    <3>1. CASE j \in DOMAIN inbox /\ inbox'[j] = inbox[j] BY <3>1 DEF InTheirOrder
    <3>2. CASE inbox'[j] = turn + 1 BY <1>2, <1>6, <3>2
    <3>3. QED BY <1>3, <3>1, <3>2
  <2>4. QED BY <1>1, <2>1, <2>2, <2>3 DEF InTheirOrder
<1>8. LaterAndLater'
  BY <1>1 DEF LaterAndLater
<1>9. Through'
  <2>1. inbox' # <<>> => inbox # <<>> \/ stream
    BY <1>1
  <2>2. QED BY <1>1, <2>1 DEF Through
<1>10. QED BY <1>4, <1>7, <1>8, <1>9

\* A turn is over, with a result or with none.
LEMMA Ends ==
    ASSUME DriveInv, phase = "wait", NEW r \in 0..turn, r = 0 \/ r = working, ended' = Append(ended, r), wait' = 0,
           phase' = "ask", UNCHANGED <<last, due, pushes, reached, stream, drops, turn, inbox>>,
           IF r = 0 THEN working' = working /\ asking' = asking ELSE working' = 0 /\ asking' = FALSE
    PROVE  DriveInv'
<1> USE DEF DriveInv
<1>1. /\ turn \in Nat \ {0} /\ ended \in Seq(Nat) /\ Len(ended) = turn - 1 /\ working \in 0..turn
      /\ inbox \in Seq(1..turn)
  BY EnvsAssumption DEF DriveTypes
<1>2. /\ ended' \in Seq(Nat) /\ Len(ended') = turn /\ DOMAIN ended' = 1..turn /\ DOMAIN ended = 1..turn - 1
      /\ ended'[turn] = r /\ \A i \in 1..turn - 1 : ended'[i] = ended[i] /\ ended[i] \in Nat
  BY <1>1
<1>3. DriveTypes'
  <2>1. working' \in 0..turn /\ asking' \in BOOLEAN
    <3>1. CASE r = 0 BY <1>1, <3>1 DEF DriveTypes
    <3>2. CASE r # 0
      <4>1. 0 \in 0..turn /\ FALSE \in BOOLEAN BY <1>1
      <4>2. working' = 0 /\ asking' = FALSE BY <3>2
      <4>3. QED BY <4>1, <4>2
    <3>3. QED BY <3>1, <3>2
  <2>2. /\ last' \in Envs \cup {Null} /\ due' \subseteq Envs /\ pushes' \in [Envs -> Nat] /\ drops' \in Nat
        /\ reached' \in BOOLEAN /\ stream' \in BOOLEAN /\ turn' \in 0..MaxTurns
    BY DEF DriveTypes
  <2>3. QED BY <1>1, <1>2, <2>1, <2>2 DEF DriveTypes
<1>4. LaterAndLater'
  <2>1. \A i \in DOMAIN ended' : ended'[i] <= i
    BY <1>1, <1>2 DEF LaterAndLater
  <2>2. ASSUME NEW i \in 1..turn, NEW j \in 1..turn, i < j, ended'[j] # 0 PROVE ended'[i] < ended'[j]
    <3>1. i \in 1..turn - 1 BY <1>1, <2>2
    <3>2. CASE j \in 1..turn - 1 BY <1>2, <2>2, <3>1, <3>2 DEF LaterAndLater
    <3>3. CASE j = turn BY <1>2, <2>2, <3>1, <3>3 DEF InTheirOrder
    <3>4. QED BY <1>1, <3>2, <3>3
  <2>3. QED BY <1>2, <2>1, <2>2 DEF LaterAndLater
<1>5. InTheirOrder'
  <2>1. \A i \in DOMAIN inbox : inbox[i] \in 1..turn /\ working < inbox[i]
    BY <1>1 DEF InTheirOrder
  <2>2. ASSUME NEW i \in DOMAIN ended', NEW j \in DOMAIN inbox PROVE ended'[i] < inbox[j]
    <3>1. CASE i = turn BY <1>1, <1>2, <2>1, <3>1
    <3>2. CASE i \in 1..turn - 1 BY <1>1, <1>2, <3>2 DEF InTheirOrder
    <3>3. QED BY <1>1, <1>2, <3>1, <3>2
  <2>3. ASSUME NEW i \in DOMAIN ended', working' # 0 PROVE ended'[i] < working'
    <3>1. CASE i = turn BY <1>1, <1>2, <2>3, <3>1
    <3>2. CASE i \in 1..turn - 1 BY <1>1, <1>2, <2>3, <3>2 DEF InTheirOrder
    <3>3. QED BY <1>1, <1>2, <3>1, <3>2
  <2>4. working' \in {0, working}
    OBVIOUS
  <2>5. \A i \in DOMAIN inbox : working' < inbox[i]
    BY <1>1, <2>1, <2>4
  <2>6. QED BY <2>2, <2>3, <2>5 DEF InTheirOrder
<1>6. Through'
  BY DEF Through, DriveTypes
<1>7. QED BY <1>3, <1>4, <1>5, <1>6

\* The worker takes a message, asks, or says a result nobody waits for.
LEMMA Works ==
    ASSUME DriveInv, Drive!Take \/ Drive!Ask \/ Drive!Result PROVE DriveInv'
<1> USE DEF DriveInv
<1>0. turn \in Nat /\ inbox \in Seq(1..turn) /\ working \in 0..turn
  BY EnvsAssumption DEF DriveTypes
<1>1. CASE Drive!Take
  <2>1. /\ working = 0 /\ inbox # <<>> /\ working' = Head(inbox) /\ inbox' = Tail(inbox)
        /\ UNCHANGED <<phase, last, due, pushes, reached, stream, drops, turn, asking, wait, ended>>
    BY <1>1 DEF Drive!Take, Drive!handshake
  <2>2. /\ inbox' \in Seq(1..turn) /\ 1 \in DOMAIN inbox /\ working' = inbox[1] /\ inbox[1] \in 1..turn
        /\ \A i \in DOMAIN inbox' : i + 1 \in DOMAIN inbox /\ inbox'[i] = inbox[i + 1] /\ i \in Nat \ {0}
    BY <1>0, <2>1
  <2>3. DriveTypes'
    BY <1>0, <2>1, <2>2 DEF DriveTypes
  <2>4. InTheirOrder'
    <3>1. ASSUME NEW i \in DOMAIN inbox', NEW j \in DOMAIN inbox', i < j PROVE inbox'[i] < inbox'[j]
      BY <2>2, <3>1 DEF InTheirOrder
    <3>2. ASSUME NEW i \in DOMAIN inbox' PROVE working' < inbox'[i]
      BY <2>2 DEF InTheirOrder
    <3>3. \A i \in DOMAIN ended, j \in DOMAIN inbox' : ended[i] < inbox'[j]
      BY <2>2 DEF InTheirOrder
    <3>4. \A i \in DOMAIN ended : ended[i] < working'
      BY <2>2 DEF InTheirOrder
    <3>5. QED BY <2>1, <3>1, <3>2, <3>3, <3>4 DEF InTheirOrder
  <2>5. LaterAndLater' /\ Through'
    BY <2>1, <2>2, <1>0 DEF LaterAndLater, Through
  <2>6. QED BY <2>3, <2>4, <2>5
<1>2. CASE Drive!Ask
  <2>1. /\ working # 0 /\ asking' = ~stream
        /\ UNCHANGED <<phase, last, due, pushes, reached, stream, drops, turn, inbox, working, wait, ended>>
    BY <1>2 DEF Drive!Ask, Drive!answered, Drive!handshake
  <2>2. DriveTypes'
    BY <2>1 DEF DriveTypes
  <2>3. InTheirOrder' /\ LaterAndLater'
    BY <2>1 DEF InTheirOrder, LaterAndLater
  <2>4. Through'
    BY <2>1 DEF Through, DriveTypes
  <2>5. QED BY <2>2, <2>3, <2>4
<1>3. CASE Drive!Result
  <2>1. /\ working # 0 /\ ~asking /\ working' = 0
        /\ UNCHANGED <<last, due, pushes, reached, stream, drops, turn, inbox, asking>>
    BY <1>3 DEF Drive!Result, Drive!handshake
  <2>2. CASE wait # 0
    <3>1. /\ ended' = Append(ended, working) /\ wait' = 0 /\ phase' = "ask" /\ phase = "wait"
      BY <1>3, <2>2 DEF Drive!Result, Drive!Disarmed, DriveTypes
    <3>2. asking' = FALSE
      BY <2>1 DEF DriveTypes
    <3>3. QED BY <1>0, <2>1, <3>1, <3>2, Ends
  <2>3. CASE wait = 0
    <3>1. UNCHANGED <<ended, wait, phase>>
      BY <1>3, <2>3 DEF Drive!Result
    <3>2. DriveTypes'
      BY <1>0, <2>1, <3>1 DEF DriveTypes
    <3>3. InTheirOrder' /\ LaterAndLater'
      BY <1>0, <2>1, <3>1 DEF InTheirOrder, LaterAndLater
    <3>4. Through'
      BY <2>1, <3>1 DEF Through, DriveTypes
    <3>5. QED BY <3>2, <3>3, <3>4
  <2>4. QED BY <2>2, <2>3
<1>4. QED BY <1>1, <1>2, <1>3

\* Each step of the driver, its server and the worker (cli.ts, sendAndWait).
LEMMA DriveStep == ASSUME DriveInv, Drive!Next \/ UNCHANGED driverVars PROVE DriveInv'
<1>1. CASE Drive!TurnTimeout
  <2>1. /\ phase = "wait" /\ ended' = Append(ended, 0) /\ wait' = 0 /\ phase' = "ask"
        /\ UNCHANGED <<last, due, pushes, reached, stream, drops, turn, inbox, working, asking>>
    BY <1>1 DEF Drive!TurnTimeout, Drive!GivesUp, Drive!Disarmed, Drive!handshake, Drive!worker
  <2>2. 0 \in 0..turn
    BY EnvsAssumption DEF DriveInv, DriveTypes
  <2>3. QED BY <2>1, <2>2, Ends
<1>2. QED BY <1>1, Handshakes, Sends, Works DEF Drive!Next

\* What a wait is ended by, in the words of Driver.
LEMMA DriveMeans == DriveInv => TurnsInStep
<1> SUFFICES ASSUME DriveInv PROVE Drive!TypeOK /\ Drive!OwnOrLate /\ Drive!AskedIsAnswered
  BY DEF TurnsInStep
<1>1. /\ turn \in Nat /\ ended \in Seq(Nat) /\ Len(ended) <= turn
      /\ \A i \in DOMAIN ended : ended[i] \in Nat /\ ended[i] <= i /\ i \in 1..turn
  BY EnvsAssumption DEF DriveInv, DriveTypes, LaterAndLater
<1>2. Drive!TypeOK
  <2>1. \A i \in DOMAIN ended : ended[i] \in 0..turn
    BY <1>1
  <2>2. QED BY <1>1, <2>1 DEF DriveInv, DriveTypes, Drive!TypeOK
<1>3. Drive!OwnOrLate
  <2> SUFFICES ASSUME NEW i \in DOMAIN ended, ended[i] \notin {0, i}
               PROVE  ended[i] < i /\ ended[ended[i]] # ended[i] /\ \A j \in 1..i - 1 : ended[j] # ended[i]
    BY DEF Drive!OwnOrLate
  <2>1. ended[i] \in 1..i - 1
    BY <1>1
  <2>2. \A j \in 1..i - 1 : j \in DOMAIN ended /\ j < i
    BY <1>1
  <2>3. \A j \in 1..i - 1 : ended[j] < ended[i] /\ ended[j] \in Nat
    BY <1>1, <2>2 DEF DriveInv, LaterAndLater
  <2>4. QED BY <1>1, <2>1, <2>3
<1>4. Drive!AskedIsAnswered
  BY DEF DriveInv, Through, Drive!AskedIsAnswered
<1>5. QED BY <1>2, <1>3, <1>4

\* "A `result` resolves the in-flight turn" (cli.ts, sendAndWait): whatever is lost
\* on the stream, however late a result comes, a wait ends with the result of its
\* own turn or with that of an earlier one given up, and never twice with the same.
THEOREM WaitsEndInOrder == HostSpec => []TurnsInStep
<1>1. HostInit => DriveInv
  BY DriveInit DEF HostInit
<1>2. DriveInv /\ [HostNext]_<<part, vars, clientVars, gateVars, driverVars, launchVars, loginVars, surfaceVars>>
      => DriveInv'
  BY DriveStep DEF HostNext
<1>3. QED BY <1>1, <1>2, DriveMeans, PTL DEF HostSpec

-----------------------------------------------------------------------------
(* GateRebind.                                                             *)

GateTypes ==
    /\ app \in [state : {"wait", "run", "paused", "left", "dead"}, at : Gates \cup {Null}, col : Nat]
    /\ bps \subseteq found /\ found \subseteq Gates /\ todo \subseteq Gates
    /\ host \in {"connect", "locate", "arm", "ready", "failed"}
    /\ report \in [Gates -> [located : BOOLEAN, id : BOOLEAN, hit : BOOLEAN, ok : BOOLEAN]]
    /\ bound \in [Gates -> Nat]
    /\ handler \in [gate : Gates \cup {Null}, step : {"none", "paused", "eval", "remove", "resume"},
                    left : Nat, ok : BOOLEAN]
    /\ worker \in {"none", "wait", "run", "paused", "left", "bound"}
    /\ attach \in {"none", "port", "locate", "arm", "release", "done", "failed"}

\* claude runs from the end of the launch on, and no gate is then without a report.
Released ==
    /\ app.state \in {"run", "paused"} => todo = {} /\ host = "ready"
    /\ \A g \in bps : report[g].id
    /\ \A g \in Gates : report[g].located => g \in bps \/ report[g].hit

\* A pause is at a gate that has, or had, its breakpoint, as few columns past it as
\* JSC may put it.
AtGate ==
    app.state = "paused" =>
        /\ app.at \in found /\ report[app.at].id
        /\ Col[app.at] <= app.col /\ app.col <= Col[app.at] + Slack

\* The handler is busy exactly while claude is paused, with a gate it has counted.
Handles ==
    /\ handler.step # "none" <=> app.state = "paused"
    /\ handler.step \in {"none", "paused"} => handler.gate = Null
    /\ handler.step \in {"eval", "remove"} => handler.gate # Null
    /\ handler.gate # Null => report[handler.gate].hit

GateInv == GateTypes /\ Released /\ AtGate /\ Handles

\* Headless, a pause is taken for its own gate.
Own1 == handler.gate # Null => handler.gate = app.at

\* Interactive, there is the exception of a breakpoint that could not be removed;
\* and a gate that loses its breakpoint is rebound when it is first hit, no more.
Own2 ==
    /\ handler.gate # Null /\ handler.gate # app.at => app.at \notin Sticky /\ report[app.at].hit
    /\ \A g \in Gates \ Sticky : bound[g] <= 1 /\ (bound[g] = 1 => report[g].hit)

\* claude waits for the inspector (gate-rebind.ts, launch).
LEMMA GateInit ==
    ASSUME Headless!Init \/ Interactive!Init PROVE GateInv /\ Own1 /\ Own2
<1>1. /\ app = [state |-> "wait", at |-> Null, col |-> 0] /\ bps = {} /\ host = "connect"
      /\ found \subseteq Gates /\ todo = Gates
      /\ report = [g \in Gates |-> [located |-> FALSE, id |-> FALSE, hit |-> FALSE, ok |-> TRUE]]
      /\ handler = [gate |-> Null, step |-> "none", left |-> 0, ok |-> TRUE]
      /\ bound = [g \in Gates |-> 0] /\ worker = "none" /\ attach = "none"
  BY DEF Headless!Init, Interactive!Init, Headless!NoReport, Interactive!NoReport,
         Headless!Idle, Interactive!Idle
<1>2. GateTypes
  BY <1>1 DEF GateTypes
<1>3. \A g \in Gates : ~report[g].located
  BY <1>1
<1>4. Released /\ AtGate /\ Handles
  BY <1>1, <1>3 DEF Released, AtGate, Handles
<1>5. \A g \in Gates : bound[g] = 0
  BY <1>1
<1>6. QED BY <1>1, <1>2, <1>4, <1>5 DEF GateInv, Own1, Own2

\* The launch, up to the release of claude.
LEMMA Launches ==
    ASSUME GateInv,
           \/ Headless!Connected \/ Headless!Located \/ Headless!Release \/ Headless!Fail
           \/ Interactive!Connected \/ Interactive!Located \/ Interactive!Release \/ Interactive!Fail
    PROVE  GateInv' /\ (Own1 => Own1') /\ (Own2 => Own2')
<1> USE DEF GateInv
<1>1. /\ UNCHANGED <<bps, found, todo, report, handler, bound, worker, attach>>
      /\ \/ app' = app /\ host' \in {"locate", "arm"} /\ app.state = "wait"
         \/ app' = [app EXCEPT !.state = "run"] /\ app.state = "wait" /\ host' = "ready" /\ todo = {}
         \/ app' = [app EXCEPT !.state = "dead"] /\ host \in {"connect", "locate", "arm"} /\ host' = "failed"
  BY DEF Headless!Connected, Headless!Located, Headless!Release, Headless!Fail, Headless!Armed,
         Interactive!Connected, Interactive!Located, Interactive!Release, Interactive!Fail, Interactive!Armed
<1>2. app.state # "paused"
  BY <1>1 DEF GateTypes, Released
<1>3. app'.state # "paused" /\ app'.at = app.at /\ (app'.state = "run" => todo = {} /\ host' = "ready")
      /\ app' \in [state : {"wait", "run", "paused", "left", "dead"}, at : Gates \cup {Null}, col : Nat]
      /\ host' \in {"connect", "locate", "arm", "ready", "failed"}
  BY <1>1, <1>2 DEF GateTypes, Released
<1>4. GateTypes'
  BY <1>1, <1>3 DEF GateTypes
<1>5. Released' /\ AtGate'
  BY <1>1, <1>3 DEF Released, AtGate
<1>6. Handles'
  BY <1>1, <1>2, <1>3 DEF Handles
<1>7. (Own1 => Own1') /\ (Own2 => Own2')
  BY <1>1, <1>3 DEF Own1, Own2
<1>8. QED BY <1>4, <1>5, <1>6, <1>7

\* A gate gets its breakpoint, or none.
LEMMA Arms ==
    ASSUME GateInv, NEW g \in Gates, Headless!Arm(g) \/ Interactive!Arm(g)
    PROVE  GateInv' /\ (Own1 => Own1') /\ (Own2 => Own2')
<1> USE DEF GateInv
<1>1. /\ UNCHANGED <<app, host, found, handler, bound, worker, attach>>
      /\ todo' = todo \ {g} /\ app.state = "wait"
      /\ \/ /\ g \in found /\ bps' = bps \cup {g}
            /\ report' = [report EXCEPT ![g].located = TRUE, ![g].id = TRUE]
         \/ UNCHANGED <<bps, report>>
  BY DEF Headless!Arm, Interactive!Arm
<1>2. /\ report' \in [Gates -> [located : BOOLEAN, id : BOOLEAN, hit : BOOLEAN, ok : BOOLEAN]]
      /\ \A h \in Gates : /\ report'[h].hit = report[h].hit
                          /\ (report'[h].id = report[h].id) \/ (h = g /\ report'[h].id)
                          /\ (report'[h].located = report[h].located) \/ (h = g /\ g \in bps')
      /\ bps' \subseteq found /\ bps \subseteq bps' /\ bps' \subseteq bps \cup {g}
      /\ g \in bps' /\ g \notin bps => report'[g].id
  <2>1. CASE UNCHANGED <<bps, report>>
    BY <2>1 DEF GateTypes
  <2>2. CASE /\ g \in found /\ bps' = bps \cup {g}
             /\ report' = [report EXCEPT ![g].located = TRUE, ![g].id = TRUE]
    <3>1. report[g] \in [located : BOOLEAN, id : BOOLEAN, hit : BOOLEAN, ok : BOOLEAN]
      BY DEF GateTypes
    <3> DEFINE r == [report[g] EXCEPT !.located = TRUE, !.id = TRUE]
    <3>2. r \in [located : BOOLEAN, id : BOOLEAN, hit : BOOLEAN, ok : BOOLEAN]
          /\ r.located /\ r.id /\ r.hit = report[g].hit
      BY <3>1
    <3>3. report' = [report EXCEPT ![g] = r]
      BY <2>2 DEF GateTypes
    <3> HIDE DEF r
    <3>4. report'[g] = r /\ \A h \in Gates \ {g} : report'[h] = report[h]
      BY <3>3 DEF GateTypes
    <3>5. report' \in [Gates -> [located : BOOLEAN, id : BOOLEAN, hit : BOOLEAN, ok : BOOLEAN]]
      BY <3>2, <3>3 DEF GateTypes
    <3>6. bps' \subseteq found /\ bps \subseteq bps' /\ bps' \subseteq bps \cup {g} /\ g \in bps'
      BY <2>2 DEF GateTypes
    <3>7. QED BY <3>2, <3>4, <3>5, <3>6
  <2>3. QED BY <1>1, <2>1, <2>2
<1>3. GateTypes'
  BY <1>1, <1>2 DEF GateTypes
<1>4. Released'
  BY <1>1, <1>2 DEF Released, GateTypes
<1>5. AtGate' /\ Handles'
  BY <1>1, <1>2 DEF AtGate, Handles, GateTypes
<1>6. handler.gate = Null
  BY <1>1 DEF Handles
<1>7. (Own1 => Own1') /\ (Own2 => Own2')
  BY <1>1, <1>2, <1>6 DEF Own1, Own2
<1>8. QED BY <1>3, <1>4, <1>5, <1>7

\* claude comes to a breakpoint.
LEMMA Pauses ==
    ASSUME GateInv, NEW g \in Gates, Headless!Pause(g) \/ Interactive!Pause(g)
    PROVE  GateInv' /\ (Own1 => Own1') /\ (Own2 => Own2')
<1> USE DEF GateInv
<1>1. PICK k \in 0 .. Slack :
        /\ UNCHANGED <<bps, host, found, todo, report, bound, worker, attach>>
        /\ app.state = "run" /\ g \in bps
        /\ app' = [state |-> "paused", at |-> g, col |-> Col[g] + k]
        /\ handler' = [gate |-> Null, step |-> "paused", left |-> 0, ok |-> TRUE]
  BY DEF Headless!Pause, Interactive!Pause, Headless!Idle, Interactive!Idle
<1>2. Col[g] \in Nat /\ k \in Nat /\ k <= Slack /\ Slack \in Nat
  BY GatesAssumption
<1>3. GateTypes'
  BY <1>1, <1>2 DEF GateTypes
<1>4. Released'
  BY <1>1 DEF Released
<1>5. AtGate'
  BY <1>1, <1>2 DEF AtGate, Released, GateTypes
<1>6. Handles'
  BY <1>1 DEF Handles
<1>7. (Own1 => Own1') /\ (Own2 => Own2')
  BY <1>1 DEF Own1, Own2
<1>8. QED BY <1>3, <1>4, <1>5, <1>6, <1>7

\* The gates of a line are so far apart that the one a pause is at is nearer than
\* any other the handler looks at (GatesAssumption).
LEMMA Nearest ==
    ASSUME GateInv, app.state = "paused", NEW g \in Gates, Line[g] = Line[app.at],
           app.col >= Col[g] - 4,
           app.col >= Col[g] => app.col - Col[g] <= app.col - Col[app.at]
    PROVE  g = app.at
<1> DEFINE a == app.at
           c == app.col
<1>1. a \in Gates /\ c \in Nat /\ Col[a] <= c /\ c <= Col[a] + Slack
  BY DEF GateInv, GateTypes, AtGate
<1>2. Col[g] \in Nat /\ Col[a] \in Nat /\ Slack \in Nat
  BY <1>1, GatesAssumption
<1>3. g # a => Col[g] > Col[a] + Slack + 4 \/ Col[a] > Col[g] + Slack + 4
  BY <1>1, GatesAssumption
<1>4. c >= Col[g] - 4 /\ (c >= Col[g] => c - Col[g] <= c - Col[a])
  OBVIOUS
<1> HIDE DEF a, c
<1>5. g = a
  BY <1>1, <1>2, <1>3, <1>4
<1>6. QED BY <1>5 DEF a

\* A count of a gate is one more.
LEMMA Counts ==
    ASSUME NEW n \in [Gates -> Nat], NEW g \in Gates
    PROVE  [n EXCEPT ![g] = @ + 1] \in [Gates -> Nat]
OBVIOUS

\* What the handler leaves alone keeps its type.
LEMMA TypesStay ==
    ASSUME GateTypes, UNCHANGED <<app, bps, host, found, todo, worker, attach>>
    PROVE  /\ app' \in [state : {"wait", "run", "paused", "left", "dead"}, at : Gates \cup {Null}, col : Nat]
           /\ bps' \subseteq found' /\ found' \subseteq Gates /\ todo' \subseteq Gates
           /\ host' \in {"connect", "locate", "arm", "ready", "failed"}
           /\ worker' \in {"none", "wait", "run", "paused", "left", "bound"}
           /\ attach' \in {"none", "port", "locate", "arm", "release", "done", "failed"}
BY DEF GateTypes

\* The first stretch of the handler, whichever gate it takes.
LEMMA Takes ==
    ASSUME GateInv, handler.step = "paused",
           UNCHANGED <<app, bps, host, found, todo, worker, attach>>,
           \/ handler' = [handler EXCEPT !.step = "resume"] /\ UNCHANGED <<report, bound>>
           \/ \E g \in Gates :
                 /\ handler' = [handler EXCEPT !.gate = g, !.step = "eval", !.left = Rebinds[g]]
                 /\ report' = [report EXCEPT ![g].hit = TRUE]
                 /\ bound' = [bound EXCEPT ![g] = @ + 1]
    PROVE  /\ GateInv' /\ app.state = "paused"
           /\ \A g \in Gates : report[g].hit => report'[g].hit
<1> USE DEF GateInv
<1>0. app.state = "paused" /\ handler.gate = Null
  BY DEF Handles
<1>1. CASE handler' = [handler EXCEPT !.step = "resume"] /\ UNCHANGED <<report, bound>>
  <2>1. handler'.step = "resume" /\ handler'.gate = Null
    BY <1>0, <1>1 DEF GateTypes
  <2>2. GateTypes'
    BY <1>1 DEF GateTypes
  <2>3. Released' /\ AtGate'
    BY <1>1 DEF Released, AtGate
  <2>4. Handles'
    BY <1>0, <2>1 DEF Handles
  <2>5. QED BY <1>0, <1>1, <2>2, <2>3, <2>4
<1>2. ASSUME NEW g \in Gates,
             /\ handler' = [handler EXCEPT !.gate = g, !.step = "eval", !.left = Rebinds[g]]
             /\ report' = [report EXCEPT ![g].hit = TRUE]
             /\ bound' = [bound EXCEPT ![g] = @ + 1]
      PROVE  GateInv' /\ \A h \in Gates : report[h].hit => report'[h].hit
  <2>1. Rebinds[g] \in Nat /\ g # Null
    BY GatesAssumption
  <2>2. /\ handler' \in [gate : Gates \cup {Null}, step : {"none", "paused", "eval", "remove", "resume"},
                         left : Nat, ok : BOOLEAN]
        /\ handler'.gate = g /\ handler'.step = "eval"
    BY <1>2, <2>1 DEF GateTypes
  <2>3. bound' \in [Gates -> Nat]
    <3>0. bound \in [Gates -> Nat]
      BY DEF GateTypes
    <3>1. QED BY <1>2, <3>0, Counts
  <2>4. /\ report' \in [Gates -> [located : BOOLEAN, id : BOOLEAN, hit : BOOLEAN, ok : BOOLEAN]]
        /\ report'[g].hit
        /\ \A h \in Gates : /\ report'[h].located = report[h].located /\ report'[h].id = report[h].id
                            /\ report[h].hit => report'[h].hit
    <3>1. report[g] \in [located : BOOLEAN, id : BOOLEAN, hit : BOOLEAN, ok : BOOLEAN]
      BY DEF GateTypes
    <3> DEFINE r == [report[g] EXCEPT !.hit = TRUE]
    <3>2. r \in [located : BOOLEAN, id : BOOLEAN, hit : BOOLEAN, ok : BOOLEAN]
          /\ r.located = report[g].located /\ r.id = report[g].id /\ r.hit
      BY <3>1
    <3>3. report' = [report EXCEPT ![g] = r]
      BY <1>2 DEF GateTypes
    <3> HIDE DEF r
    <3>4. report'[g] = r /\ \A h \in Gates \ {g} : report'[h] = report[h]
      BY <3>3 DEF GateTypes
    <3>5. report' \in [Gates -> [located : BOOLEAN, id : BOOLEAN, hit : BOOLEAN, ok : BOOLEAN]]
      BY <3>2, <3>3 DEF GateTypes
    <3>6. QED BY <3>2, <3>4, <3>5
  <2>5. GateTypes'
    <3>1. report' \in [Gates -> [located : BOOLEAN, id : BOOLEAN, hit : BOOLEAN, ok : BOOLEAN]]
      BY <2>4
    <3>2. /\ app' \in [state : {"wait", "run", "paused", "left", "dead"}, at : Gates \cup {Null}, col : Nat]
          /\ bps' \subseteq found' /\ found' \subseteq Gates /\ todo' \subseteq Gates
          /\ host' \in {"connect", "locate", "arm", "ready", "failed"}
          /\ worker' \in {"none", "wait", "run", "paused", "left", "bound"}
          /\ attach' \in {"none", "port", "locate", "arm", "release", "done", "failed"}
      BY TypesStay
    <3> HIDE DEF GateInv
    <3>3. QED BY <2>2, <2>3, <3>1, <3>2, Zenon DEF GateTypes
  <2>6. Released'
    BY <2>4 DEF Released, GateTypes
  <2>7. AtGate'
    BY <2>4 DEF AtGate, GateTypes
  <2>8. Handles'
    BY <1>0, <2>1, <2>2, <2>4 DEF Handles
  <2>9. QED BY <2>4, <2>5, <2>6, <2>7, <2>8
<1>3. QED BY <1>0, <1>1, <1>2

\* Headless, it takes the gate of the pause.
LEMMA HandlesHeadless == ASSUME GateInv, Own1, Headless!Handle PROVE GateInv' /\ Own1'
<1>1. /\ handler.step = "paused" /\ UNCHANGED <<app, bps, host, found, todo, worker, attach>>
      /\ \/ handler' = [handler EXCEPT !.step = "resume"] /\ UNCHANGED <<report, bound>>
         \/ \E g \in Headless!Match :
               /\ handler' = [handler EXCEPT !.gate = g, !.step = "eval", !.left = Rebinds[g]]
               /\ report' = [report EXCEPT ![g].hit = TRUE]
               /\ bound' = [bound EXCEPT ![g] = @ + 1]
  BY DEF Headless!Handle, Headless!First
<1>2. Headless!Match \subseteq Gates
  BY DEF Headless!Match
<1>3. GateInv' /\ app.state = "paused"
  BY <1>1, <1>2, Takes
<1>4. ASSUME NEW g \in Headless!Match PROVE g = app.at
  <2>1. app.at \in found /\ app.at \in Gates /\ app.col \in Nat
        /\ Col[app.at] \in Nat /\ Col[app.at] <= app.col
    BY <1>3, GatesAssumption DEF GateInv, AtGate, GateTypes
  <2>2. Headless!Candidate(app.at)
    BY <2>1 DEF Headless!Candidate, Headless!Fresh
  <2>3. g \in Gates /\ Headless!Candidate(g) /\ Headless!Distance(g) <= Headless!Distance(app.at)
    BY <2>1, <2>2 DEF Headless!Match
  <2>4. /\ Line[g] = Line[app.at] /\ app.col >= Col[g] - 4
        /\ app.col - Col[g] <= app.col - Col[app.at]
    BY <2>3 DEF Headless!Candidate, Headless!Distance
  <2>5. QED BY <1>3, <2>3, <2>4, Nearest
<1>5. Own1'
  <2>1. CASE handler' = [handler EXCEPT !.step = "resume"]
    <3>1. handler.gate = Null
      BY <1>1 DEF GateInv, Handles
    <3>2. handler'.gate = Null
      BY <2>1, <3>1 DEF GateInv, GateTypes
    <3>3. QED BY <3>2 DEF Own1
  <2>2. ASSUME NEW g \in Headless!Match,
               handler' = [handler EXCEPT !.gate = g, !.step = "eval", !.left = Rebinds[g]]
        PROVE  Own1'
    <3>1. handler'.gate = g
      BY <2>2 DEF GateInv, GateTypes
    <3>2. QED BY <1>1, <1>4, <3>1 DEF Own1
  <2>3. QED BY <1>1, <2>1, <2>2
<1>6. QED BY <1>3, <1>5

\* Interactive, it passes that gate over only if it was hit before.
LEMMA HandlesInteractive == ASSUME GateInv, Own2, Interactive!Handle PROVE GateInv' /\ Own2'
<1>1. /\ handler.step = "paused" /\ UNCHANGED <<app, bps, host, found, todo, worker, attach>>
      /\ \/ handler' = [handler EXCEPT !.step = "resume"] /\ UNCHANGED <<report, bound>>
         \/ \E g \in Interactive!Match :
               /\ handler' = [handler EXCEPT !.gate = g, !.step = "eval", !.left = Rebinds[g]]
               /\ report' = [report EXCEPT ![g].hit = TRUE]
               /\ bound' = [bound EXCEPT ![g] = @ + 1]
  BY DEF Interactive!Handle, Interactive!First
<1>2. Interactive!Match \subseteq Gates
  BY DEF Interactive!Match
<1>3. GateInv' /\ app.state = "paused" /\ \A g \in Gates : report[g].hit => report'[g].hit
  BY <1>1, <1>2, Takes
<1>4. ASSUME NEW g \in Interactive!Match, g # app.at PROVE app.at \notin Sticky /\ report[app.at].hit
  <2>1. app.at \in found /\ app.at \in Gates /\ app.col \in Nat /\ report[app.at].id
        /\ Col[app.at] \in Nat /\ Col[app.at] <= app.col
    BY <1>3, GatesAssumption DEF GateInv, AtGate, GateTypes
  <2>2. SUFFICES ASSUME app.at \in Sticky \/ ~report[app.at].hit PROVE FALSE
    OBVIOUS
  <2>3. Interactive!Candidate(app.at)
    BY <2>1, <2>2 DEF Interactive!Candidate, Interactive!Fresh
  <2>4. g \in Gates /\ Interactive!Candidate(g) /\ Interactive!Distance(g) <= Interactive!Distance(app.at)
    BY <2>1, <2>3 DEF Interactive!Match
  <2>5. Interactive!Distance(app.at) = app.col - Col[app.at]
    BY <2>1 DEF Interactive!Distance
  <2>6. Col[g] \in Nat
    BY <2>4, GatesAssumption
  <2>7. app.col >= Col[g] => Interactive!Distance(g) = app.col - Col[g]
    BY <2>1, <2>6 DEF Interactive!Distance
  <2>8. /\ Line[g] = Line[app.at] /\ app.col >= Col[g] - 4
    BY <2>4 DEF Interactive!Candidate
  <2>9. app.col >= Col[g] => app.col - Col[g] <= app.col - Col[app.at]
    BY <2>4, <2>5, <2>7
  <2>10. QED BY <1>3, <1>4, <2>4, <2>8, <2>9, Nearest
<1>5. ASSUME NEW g \in Interactive!Match,
             handler' = [handler EXCEPT !.gate = g, !.step = "eval", !.left = Rebinds[g]],
             report' = [report EXCEPT ![g].hit = TRUE], bound' = [bound EXCEPT ![g] = @ + 1]
      PROVE  Own2'
  <2>1. handler'.gate = g /\ g \in Gates
    BY <1>2, <1>5 DEF GateInv, GateTypes
  <2>2. g # app.at => app.at \notin Sticky /\ report'[app.at].hit
    <3>1. app.at \in Gates
      BY <1>3 DEF GateInv, GateTypes, AtGate
    <3>2. QED BY <1>3, <1>4, <3>1
  <2>3. g \in Sticky \/ ~report[g].hit
    BY DEF Interactive!Match, Interactive!Candidate, Interactive!Fresh
  <2>4. /\ bound'[g] = bound[g] + 1 /\ bound[g] \in Nat
        /\ \A h \in Gates \ {g} : bound'[h] = bound[h]
    BY <1>5, <2>1 DEF GateInv, GateTypes
  <2>5. report'[g].hit
    <3>1. handler'.gate # Null => report'[handler'.gate].hit
      BY <1>3 DEF GateInv, Handles
    <3>2. QED BY <2>1, <3>1, GatesAssumption
  <2>6. ASSUME NEW h \in Gates \ Sticky PROVE bound'[h] <= 1 /\ (bound'[h] = 1 => report'[h].hit)
    <3>1. CASE h = g BY <2>3, <2>4, <2>5, <3>1 DEF Own2
    <3>2. CASE h # g BY <1>3, <2>4, <3>2 DEF Own2
    <3>3. QED BY <3>1, <3>2
  <2>7. QED BY <1>1, <2>1, <2>2, <2>6 DEF Own2
<1>6. CASE handler' = [handler EXCEPT !.step = "resume"] /\ UNCHANGED <<report, bound>>
  <2>1. handler.gate = Null
    BY <1>1 DEF GateInv, Handles
  <2>2. handler'.gate = Null
    BY <1>6, <2>1 DEF GateInv, GateTypes
  <2>3. UNCHANGED <<report, bound>>
    BY <1>6
  <2>4. \A g \in Gates \ Sticky : bound'[g] <= 1 /\ (bound'[g] = 1 => report'[g].hit)
    BY <2>3 DEF Own2
  <2>5. (handler.gate # Null /\ handler.gate # app.at => app.at \notin Sticky /\ report[app.at].hit)'
    BY <2>2
  <2>6. QED BY <1>3, <2>4, <2>5 DEF Own2
<1>7. QED BY <1>1, <1>3, <1>5, <1>6

\* The rest of the handler.
LEMMA GoesThrough ==
    ASSUME GateInv,
           \/ Headless!Evaluate \/ Headless!Evaluated \/ Headless!Remove \/ Headless!Resume
           \/ Interactive!Evaluate \/ Interactive!Evaluated \/ Interactive!Remove \/ Interactive!Resume
    PROVE  GateInv' /\ (Own1 => Own1') /\ (Own2 => Own2')
<1> USE DEF GateInv
<1> DEFINE Handler == [gate : Gates \cup {Null}, step : {"none", "paused", "eval", "remove", "resume"},
                       left : Nat, ok : BOOLEAN]
<1>0. handler \in Handler
  BY DEF GateTypes
<1>1. CASE Headless!Evaluate \/ Interactive!Evaluate
  <2>1. /\ handler.step = "eval" /\ handler.left > 0
        /\ handler' \in {[handler EXCEPT !.left = @ - 1], [handler EXCEPT !.left = @ - 1, !.ok = FALSE]}
        /\ UNCHANGED <<app, bps, host, found, todo, report, bound, worker, attach>>
    BY <1>1 DEF Headless!Evaluate, Interactive!Evaluate, Headless!OnError, Interactive!OnError
  <2>2. handler' \in Handler /\ handler'.step = "eval" /\ handler'.gate = handler.gate
    <3>1. handler.left - 1 \in Nat
      BY <1>0, <2>1
    <3>2. [handler EXCEPT !.left = @ - 1] = [handler EXCEPT !.left = handler.left - 1]
      BY <1>0
    <3>3. [handler EXCEPT !.left = @ - 1, !.ok = FALSE] = [handler EXCEPT !.left = handler.left - 1, !.ok = FALSE]
      BY <1>0
    <3> DEFINE n == handler.left - 1
    <3> HIDE DEF n
    <3>4. CASE handler' = [handler EXCEPT !.left = n]
      BY <1>0, <2>1, <3>1, <3>4 DEF n
    <3>5. CASE handler' = [handler EXCEPT !.left = n, !.ok = FALSE]
      BY <1>0, <2>1, <3>1, <3>5 DEF n
    <3>6. QED BY <2>1, <3>2, <3>3, <3>4, <3>5 DEF n
  <2>3. GateTypes'
    BY <2>1, <2>2 DEF GateTypes
  <2>4. Released' /\ AtGate' /\ Handles'
    BY <2>1, <2>2 DEF Released, AtGate, Handles
  <2>5. (Own1 => Own1') /\ (Own2 => Own2')
    BY <2>1, <2>2 DEF Own1, Own2
  <2>6. QED BY <2>3, <2>4, <2>5
<1>2. CASE Headless!Evaluated \/ Interactive!Evaluated
  <2>1. /\ handler.step = "eval"
        /\ report' = [report EXCEPT ![handler.gate].ok = handler.ok]
        /\ handler' = [handler EXCEPT !.step = "remove"] \/ handler' = [handler EXCEPT !.step = "resume"]
        /\ attach' = "port" \/ attach' = attach
        /\ UNCHANGED <<app, bps, host, found, todo, bound, worker>>
    BY <1>2 DEF Headless!Evaluated, Interactive!Evaluated
  <2>2. handler' \in Handler /\ handler'.step \in {"remove", "resume"} /\ handler'.gate = handler.gate
    BY <1>0, <2>1
  <2>3. handler.gate \in Gates /\ handler.gate # Null
    BY <1>0, <2>1 DEF Handles
  <2>4. /\ report' \in [Gates -> [located : BOOLEAN, id : BOOLEAN, hit : BOOLEAN, ok : BOOLEAN]]
        /\ \A h \in Gates : /\ report'[h].located = report[h].located /\ report'[h].id = report[h].id
                            /\ report'[h].hit = report[h].hit
    <3> DEFINE g == handler.gate
    <3>1. report[g] \in [located : BOOLEAN, id : BOOLEAN, hit : BOOLEAN, ok : BOOLEAN] /\ handler.ok \in BOOLEAN
      BY <2>3 DEF GateTypes
    <3> DEFINE r == [report[g] EXCEPT !.ok = handler.ok]
    <3>2. r \in [located : BOOLEAN, id : BOOLEAN, hit : BOOLEAN, ok : BOOLEAN]
          /\ r.located = report[g].located /\ r.id = report[g].id /\ r.hit = report[g].hit
      BY <3>1
    <3>3. report' = [report EXCEPT ![g] = r]
      BY <2>1, <2>3 DEF GateTypes
    <3> HIDE DEF r
    <3>4. report'[g] = r /\ \A h \in Gates \ {g} : report'[h] = report[h]
      BY <2>3, <3>3 DEF GateTypes
    <3>5. report' \in [Gates -> [located : BOOLEAN, id : BOOLEAN, hit : BOOLEAN, ok : BOOLEAN]]
      BY <3>2, <3>3 DEF GateTypes
    <3>6. QED BY <3>2, <3>4, <3>5
  <2>5. GateTypes'
    BY <2>1, <2>2, <2>4 DEF GateTypes
  <2>6. Released'
    BY <2>1, <2>4 DEF Released, GateTypes
  <2>7. AtGate'
    BY <2>1, <2>4 DEF AtGate, GateTypes
  <2>8. Handles'
    BY <2>1, <2>2, <2>3, <2>4 DEF Handles
  <2>9. app.at \in Gates => report'[app.at].hit = report[app.at].hit
    BY <2>4
  <2>10. app.state = "paused" => app.at \in Gates
    BY DEF AtGate, GateTypes
  <2>11. (Own1 => Own1') /\ (Own2 => Own2')
    BY <2>1, <2>2, <2>4, <2>9, <2>10 DEF Own1, Own2, Handles
  <2>12. QED BY <2>5, <2>6, <2>7, <2>8, <2>11
<1>3. CASE Headless!Remove \/ Interactive!Remove
  <2>1. /\ handler.step = "remove" /\ bps' \in {bps \ {handler.gate}, bps}
        /\ handler' = [handler EXCEPT !.step = "resume"]
        /\ UNCHANGED <<app, host, found, todo, report, bound, worker, attach>>
    BY <1>3 DEF Headless!Remove, Interactive!Remove, Headless!Removed, Interactive!Removed
  <2>2. handler' \in Handler /\ handler'.step = "resume" /\ handler'.gate = handler.gate
    BY <1>0, <2>1
  <2>3. GateTypes'
    BY <2>1, <2>2 DEF GateTypes
  <2>4. handler.gate # Null /\ report[handler.gate].hit
    BY <2>1 DEF Handles
  <2>5. Released'
    BY <2>1, <2>4 DEF Released, GateTypes
  <2>6. AtGate' /\ Handles'
    BY <2>1, <2>2 DEF AtGate, Handles
  <2>7. (Own1 => Own1') /\ (Own2 => Own2')
    BY <2>1, <2>2 DEF Own1, Own2
  <2>8. QED BY <2>3, <2>5, <2>6, <2>7
<1>4. CASE Headless!Resume \/ Interactive!Resume
  <2>1. /\ handler.step = "resume"
        /\ \/ app' = [state |-> "run", at |-> Null, col |-> 0]
           \/ app' = [app EXCEPT !.state = "left"]
        /\ handler' = [gate |-> Null, step |-> "none", left |-> 0, ok |-> TRUE]
        /\ worker' \in {"wait", "run", worker}
        /\ UNCHANGED <<bps, host, found, todo, report, bound, attach>>
    BY <1>4 DEF Headless!Resume, Interactive!Resume, Headless!Idle, Interactive!Idle
  <2>2. app.state = "paused"
    BY <2>1 DEF Handles
  <2>3. /\ app' \in [state : {"wait", "run", "paused", "left", "dead"}, at : Gates \cup {Null}, col : Nat]
        /\ app'.state \in {"run", "left"}
    BY <2>1 DEF GateTypes
  <2>4. GateTypes'
    BY <2>1, <2>3 DEF GateTypes
  <2>5. Released'
    BY <2>1, <2>2, <2>3 DEF Released
  <2>6. AtGate' /\ Handles'
    BY <2>1, <2>3 DEF AtGate, Handles
  <2>7. (Own1 => Own1') /\ (Own2 => Own2')
    BY <2>1 DEF Own1, Own2
  <2>8. QED BY <2>4, <2>5, <2>6, <2>7
<1>5. QED BY <1>1, <1>2, <1>3, <1>4

\* The worker is beside all this (attachChildAndRebind).
LEMMA WorkerBeside ==
    ASSUME GateInv,
           \/ Headless!WorkerStep \/ Headless!AttachFails
           \/ Interactive!WorkerStep \/ Interactive!AttachFails \/ UNCHANGED gateVars
    PROVE  GateInv' /\ (Own1 => Own1') /\ (Own2 => Own2')
<1>1. /\ UNCHANGED <<app, bps, host, found, todo, report, handler, bound>>
      /\ worker' \in {worker, "paused", "left", "bound", "run"}
      /\ attach' \in {attach, "locate", "arm", "release", "done", "failed"}
  BY DEF gateVars, Headless!WorkerStep, Headless!AttachFails, Headless!Attached, Headless!WorkerLocated,
         Headless!WorkerArmed, Headless!WorkerBound, Headless!WorkerReleased, Headless!Unlocated,
         Interactive!WorkerStep, Interactive!AttachFails, Interactive!Attached, Interactive!WorkerLocated,
         Interactive!WorkerArmed, Interactive!WorkerBound, Interactive!WorkerReleased, Interactive!Unlocated
<1>2. GateTypes'
  BY <1>1 DEF GateInv, GateTypes
<1>3. Released' /\ AtGate' /\ Handles'
  BY <1>1 DEF GateInv, Released, AtGate, Handles
<1>4. (Own1 => Own1') /\ (Own2 => Own2')
  BY <1>1 DEF Own1, Own2
<1>5. QED BY <1>2, <1>3, <1>4 DEF GateInv

\* Each step of runHeadless.
LEMMA HeadlessStep ==
    ASSUME GateInv, Own1, Headless!Next \/ UNCHANGED gateVars PROVE GateInv' /\ Own1'
BY Launches, Arms, Pauses, HandlesHeadless, GoesThrough, WorkerBeside
   DEF Headless!Next, Headless!HandlerStep

\* Each step of runInteractive.
LEMMA InteractiveStep ==
    ASSUME GateInv, Own2, Interactive!Next \/ UNCHANGED gateVars PROVE GateInv' /\ Own2'
BY Launches, Arms, Pauses, HandlesInteractive, GoesThrough, WorkerBeside
   DEF Interactive!Next, Interactive!HandlerStep

\* What the two say together of a host, whichever way it launches.
GatesInv ==
    /\ GateInv
    /\ part # "interactive" => Own1
    /\ part = "interactive" => Own2

\* The parts of GatesRebound are parts of the invariant.
LEMMA GatesMean == GatesInv => GatesRebound
<1> SUFFICES ASSUME GatesInv PROVE GatesRebound
  OBVIOUS
<1> USE DEF GatesInv, GateInv
<1>1. Headless!TypeOK /\ Interactive!TypeOK
  BY DEF GateTypes, Handles, Headless!TypeOK, Interactive!TypeOK, Headless!Report, Interactive!Report
<1>2. Headless!NoStartupRace /\ Interactive!NoStartupRace
  BY DEF Released, GateTypes, Headless!NoStartupRace, Interactive!NoStartupRace
<1>3. part = "headless" => Headless!RightGate
  BY DEF Own1, Headless!RightGate
<1>4. part = "interactive" => Interactive!RightGate /\ Interactive!HotOnce
  BY DEF Own2, Interactive!RightGate, Interactive!HotOnce
<1>5. QED BY <1>1, <1>2, <1>3, <1>4 DEF GatesRebound

\* anchors.ts:20, "we locate every gate before releasing - zero startup race", and
\* gate-rebind.ts: whatever gates a version has and however its breakpoints are
\* hit, while claude runs each gate found has its breakpoint, has been hit or is
\* reported; a pause rebinds the gate it is at; and no gate of a hot path is
\* rebound twice.
THEOREM NoGateIsMissed == HostSpec => []GatesRebound
<1>1. HostInit => GatesInv
  BY GateInit DEF HostInit, GatesInv
<1>2. GatesInv /\ [HostNext]_<<part, vars, clientVars, gateVars, driverVars, launchVars, loginVars, surfaceVars>>
      => GatesInv'
  <2> SUFFICES ASSUME GatesInv,
                      [HostNext]_<<part, vars, clientVars, gateVars, driverVars, launchVars, loginVars, surfaceVars>>
               PROVE  GatesInv'
    OBVIOUS
  <2>1. /\ part' = part
        /\ \/ part = "headless" /\ Headless!Next
           \/ part = "interactive" /\ Interactive!Next
           \/ UNCHANGED gateVars
    BY DEF HostNext
  <2>2. CASE part = "interactive"
    BY <2>1, <2>2, InteractiveStep DEF GatesInv
  <2>3. CASE part # "interactive"
    BY <2>1, <2>3, HeadlessStep DEF GatesInv
  <2>4. QED BY <2>2, <2>3
<1>3. QED BY <1>1, <1>2, GatesMean, PTL DEF HostSpec

-----------------------------------------------------------------------------
(* Launch.                                                                 *)

TreeProcs == 1 .. MaxProcs

TreeTypes ==
    /\ started \in 0 .. MaxProcs /\ alive \subseteq 1 .. started
    /\ parent \in [TreeProcs -> TreeProcs \cup {0, MaxProcs + 1, Null}]
    /\ launch \in {"spawn", "port", "connect", "rpc", "ready", "killing", "leaving", "failed", "gone"}
    /\ attempt \in 1 .. Attempts /\ root \in (1 .. started) \cup {Null} /\ dead \in BOOLEAN
    /\ listens \subseteq TreeProcs /\ doomed \in Seq(TreeProcs) /\ seen \subseteq 1 .. started

\* An attempt has its child; and a child whose exit was noticed is over.
HasChild ==
    /\ launch \in {"port", "connect", "rpc", "ready", "killing", "leaving"} => root # Null
    /\ dead => root # Null /\ root \notin alive

\* What of the tree still lives in a kill is still to be signalled; and the kill is
\* of the child, unless that is over.
Signalled ==
    IF launch \in {"killing", "leaving"}
    THEN seen \cap alive \subseteq ToSet(doomed) /\ (root \in seen \/ dead)
    ELSE seen \cap alive = {}

\* A process of the host is the child, and there is none before a spawn.
Only ==
    /\ \A p \in alive : parent[p] = 0 => p = root
    /\ launch = "spawn" => \A p \in alive : parent[p] # 0

\* A process that lives has an older parent, or is the host's or init's.
Born == \A q \in alive : parent[q] \in 0 .. q - 1 \/ parent[q] = MaxProcs + 1

TreeInv == TreeTypes /\ HasChild /\ Signalled /\ Only /\ Born

\* Nothing has started (launchAndAttach is called).
LEMMA TreeInit == Tree!Init => TreeInv
<1> SUFFICES ASSUME Tree!Init PROVE TreeInv
  OBVIOUS
<1>1. /\ started = 0 /\ alive = {} /\ parent = [p \in TreeProcs |-> Null]
      /\ launch = "spawn" /\ attempt = 1 /\ root = Null /\ dead = FALSE
      /\ listens = {} /\ doomed = <<>> /\ seen = {}
  BY DEF Tree!Init, Tree!Procs, TreeProcs
<1>2. /\ started \in 0 .. MaxProcs /\ attempt \in 1 .. Attempts /\ doomed \in Seq(TreeProcs)
  BY <1>1, ProcsAssumption
<1>3. parent \in [TreeProcs -> TreeProcs \cup {0, MaxProcs + 1, Null}]
  BY <1>1
<1>4. TreeTypes
  BY <1>1, <1>2, <1>3 DEF TreeTypes
<1>5. HasChild /\ Signalled /\ Only /\ Born
  BY <1>1 DEF HasChild, Signalled, Only, Born
<1>6. QED BY <1>4, <1>5 DEF TreeInv

\* The step of walk: the children of each process, each before its own.
Kids(p) == {q \in alive : parent[q] = p}
Below(v) == [p \in TreeProcs |->
    FlattenSeq([i \in DOMAIN SetToSeq(Kids(p)) |-> <<SetToSeq(Kids(p))[i]>> \o v[SetToSeq(Kids(p))[i]]])]

\* It lists the children and what is listed of each.
LEMMA BelowType ==
    ASSUME TreeTypes, NEW v \in [TreeProcs -> Seq(alive)]
    PROVE  /\ Below(v) \in [TreeProcs -> Seq(alive)]
           /\ \A p \in TreeProcs : ToSet(Below(v)[p]) = UNION {{k} \cup ToSet(v[k]) : k \in Kids(p)}
<1>1. ASSUME NEW p \in TreeProcs
      PROVE  LET row == [i \in DOMAIN SetToSeq(Kids(p)) |-> <<SetToSeq(Kids(p))[i]>> \o v[SetToSeq(Kids(p))[i]]]
             IN  /\ FlattenSeq(row) \in Seq(alive)
                 /\ ToSet(FlattenSeq(row)) = UNION {{k} \cup ToSet(v[k]) : k \in Kids(p)}
  <2> DEFINE S == Kids(p)
             kids == SetToSeq(S)
             row == [i \in DOMAIN kids |-> <<kids[i]>> \o v[kids[i]]]
  <2>1. S \subseteq 1 .. MaxProcs
    <3>1. started \in Nat /\ started <= MaxProcs /\ MaxProcs \in Nat /\ alive \subseteq 1 .. started
      BY ProcsAssumption DEF TreeTypes
    <3>2. 1 .. started \subseteq 1 .. MaxProcs
      BY <3>1
    <3>3. QED BY <3>1, <3>2 DEF Kids
  <2>2. IsFiniteSet(S)
    <3>1. IsFiniteSet(1 .. MaxProcs)
      BY ProcsAssumption, FS_Interval
    <3>2. QED BY ONLY <2>1, <3>1, FS_Subset
  <2> HIDE DEF S
  <2>3. kids \in [1 .. Cardinality(S) -> S] /\ Cardinality(S) \in Nat /\ ToSet(kids) = S
    BY <2>2, SetToSeqType, SetToSeqAll
  <2>4. ASSUME NEW i \in 1 .. Cardinality(S)
        PROVE  /\ <<kids[i]>> \o v[kids[i]] \in Seq(alive)
               /\ ToSet(<<kids[i]>> \o v[kids[i]]) = {kids[i]} \cup ToSet(v[kids[i]])
    <3>1. kids[i] \in TreeProcs /\ kids[i] \in alive BY <2>1, <2>3 DEF TreeProcs, S, Kids
    <3>2. v[kids[i]] \in Seq(alive) BY <3>1
    <3> HIDE DEF kids
    <3>3. <<kids[i]>> \in Seq(alive) BY <3>1
    <3>4. ToSet(<<kids[i]>>) = {kids[i]}
      <4>1. DOMAIN <<kids[i]>> = {1} /\ <<kids[i]>>[1] = kids[i] OBVIOUS
      <4>2. QED BY <4>1 DEF ToSet
    <3> DEFINE a == <<kids[i]>>
               c == v[kids[i]]
    <3>5. a \in Seq(alive) /\ c \in Seq(alive) BY <3>2, <3>3
    <3> HIDE DEF a, c
    <3>6. a \o c \in Seq(alive) /\ ToSet(a \o c) = ToSet(a) \cup ToSet(c)
      BY ONLY <3>5, ConcatSet
    <3>7. QED BY <3>4, <3>6 DEF a, c
  <2>5. DOMAIN kids = 1 .. Cardinality(S)
    BY <2>3
  <2> HIDE DEF kids
  <2>6. row \in [1 .. Cardinality(S) -> Seq(alive)]
    BY <2>4, <2>5
  <2>7. row \in Seq(Seq(alive))
    <3> HIDE DEF row
    <3>1. PICK n \in Nat : n = Cardinality(S)
      BY <2>3
    <3>2. row \in [1 .. n -> Seq(alive)]
      BY <2>6, <3>1
    <3>3. QED BY <3>2
  <2>8. FlattenSeq(row) \in Seq(alive) /\ ToSet(FlattenSeq(row)) = UNION {ToSet(row[i]) : i \in DOMAIN row}
    <3> HIDE DEF row
    <3>1. QED BY <2>7, FlattenSeqType
  <2>9. \A i \in DOMAIN row : ToSet(row[i]) = {kids[i]} \cup ToSet(v[kids[i]])
    BY <2>4, <2>5
  <2>10. S = {kids[i] : i \in DOMAIN row}
    BY <2>3, <2>5 DEF ToSet
  <2>11. UNION {ToSet(row[i]) : i \in DOMAIN row} = UNION {{k} \cup ToSet(v[k]) : k \in S}
    <3> HIDE DEF row, S
    <3>1. {ToSet(row[i]) : i \in DOMAIN row} = {{kids[i]} \cup ToSet(v[kids[i]]) : i \in DOMAIN row}
      BY <2>9
    <3>2. {{kids[i]} \cup ToSet(v[kids[i]]) : i \in DOMAIN row} = {{k} \cup ToSet(v[k]) : k \in S}
      BY <2>10
    <3>3. QED BY <3>1, <3>2
  <2>12. QED BY <2>8, <2>11 DEF kids, S, row
<1>2. \A p \in TreeProcs : ToSet(Below(v)[p]) = UNION {{k} \cup ToSet(v[k]) : k \in Kids(p)}
  BY <1>1 DEF Below
<1>3. QED BY <1>1, <1>2 DEF Below

\* The children of p and of what is in d are in d.
Closed(d, p) == Kids(p) \subseteq ToSet(d) /\ \A q \in ToSet(d) : Kids(q) \subseteq ToSet(d)

\* A step of walk is closed where what it lists of the younger is.
LEMMA BelowCloses ==
    ASSUME TreeTypes, Born, NEW v \in [TreeProcs -> Seq(alive)], NEW p \in TreeProcs,
           \A k \in TreeProcs : p < k => Closed(v[k], k)
    PROVE  Closed(Below(v)[p], p)
<1> DEFINE U == UNION {{k} \cup ToSet(v[k]) : k \in Kids(p)}
<1>1. \A k \in Kids(p) : k \in TreeProcs /\ p < k
  <2>1. alive \subseteq TreeProcs /\ MaxProcs \in Nat
    <3>1. started \in Nat /\ started <= MaxProcs /\ MaxProcs \in Nat /\ alive \subseteq 1 .. started
      BY ProcsAssumption DEF TreeTypes
    <3>2. 1 .. started \subseteq 1 .. MaxProcs
      BY <3>1
    <3>3. QED BY <3>1, <3>2 DEF TreeProcs
  <2>2. QED BY <2>1 DEF Kids, Born, TreeProcs
<1>2. ToSet(Below(v)[p]) = U
  BY BelowType
<1>3. Kids(p) \subseteq U
  OBVIOUS
<1>4. ASSUME NEW q \in U PROVE Kids(q) \subseteq U
  <2>1. PICK k \in Kids(p) : q = k \/ q \in ToSet(v[k])
    OBVIOUS
  <2>2. Kids(q) \subseteq ToSet(v[k])
    BY <1>1, <2>1 DEF Closed
  <2>3. QED BY <2>2
<1> HIDE DEF U
<1>5. QED BY <1>2, <1>3, <1>4 DEF Closed

\* The descendants of the child are alive, and nobody's children are left out.
LEMMA DescendantsType ==
    ASSUME TreeTypes, Born, root # Null
    PROVE  Tree!Descendants \in Seq(alive) /\ Closed(Tree!Descendants, root)
<1> DEFINE T == [TreeProcs -> Seq(alive)]
           none == [p \in TreeProcs |-> <<>>]
           g == [x \in (1 .. MaxProcs) \X T |-> Below(x[2])]
           w == CHOOSE f : f = [n \in 0 .. MaxProcs |->
                    [p \in TreeProcs |->
                       IF n = 0 THEN <<>>
                       ELSE FlattenSeq([i \in DOMAIN SetToSeq(Kids(p)) |->
                               <<SetToSeq(Kids(p))[i]>> \o f[n - 1][SetToSeq(Kids(p))[i]]])]]
<1>1. none \in T
  OBVIOUS
<1>2. g \in [(1 .. MaxProcs) \X T -> T]
  BY BelowType
<1>3. PICK f : Recursion(f, T, MaxProcs, none, g)
  <2> HIDE DEF T, none, g
  <2>1. QED BY <1>1, <1>2, ProcsAssumption, PrimitiveRecursion
<1>4. Tree!Descendants = w[MaxProcs][root]
  BY DEF Tree!Descendants, Tree!walk, Tree!Procs, TreeProcs, Tree!Children, Kids,
         Tree!FlattenSeq, FlattenSeq, Tree!SetToSeq, SetToSeq, Tree!IsInjective, IsInjective,
         Tree!Cardinality, Cardinality
<1>5. f \in [0 .. MaxProcs -> T] /\ f[0] = none /\ \A n \in 1 .. MaxProcs : f[n] = Below(f[n - 1])
  <2>1. ASSUME NEW n \in 1 .. MaxProcs PROVE f[n] = Below(f[n - 1])
    <3>1. n - 1 \in 0 .. MaxProcs BY ProcsAssumption
    <3>2. f[n - 1] \in T BY <1>3, <3>1 DEF Recursion
    <3>3. f[n] = g[<<n, f[n - 1]>>] BY <1>3 DEF Recursion
    <3> HIDE DEF T
    <3>4. QED BY <3>2, <3>3
  <2>2. QED BY <1>3, <2>1 DEF Recursion
<1> HIDE DEF g, T
<1>6. f = [n \in 0 .. MaxProcs |->
               [p \in TreeProcs |->
                   IF n = 0 THEN <<>>
                   ELSE FlattenSeq([i \in DOMAIN SetToSeq(Kids(p)) |->
                           <<SetToSeq(Kids(p))[i]>> \o f[n - 1][SetToSeq(Kids(p))[i]]])]]
  <2>1. ASSUME NEW n \in 0 .. MaxProcs
        PROVE  f[n] = [p \in TreeProcs |->
                   IF n = 0 THEN <<>>
                   ELSE FlattenSeq([i \in DOMAIN SetToSeq(Kids(p)) |->
                           <<SetToSeq(Kids(p))[i]>> \o f[n - 1][SetToSeq(Kids(p))[i]]])]
    <3>1. CASE n = 0 BY <1>5, <3>1
    <3>2. CASE n # 0
      <4>1. n \in 1 .. MaxProcs BY <3>2, ProcsAssumption
      <4>2. f[n] = Below(f[n - 1]) BY <1>5, <4>1
      <4>3. QED BY <3>2, <4>2 DEF Below
    <3>3. QED BY <3>1, <3>2
  <2>2. QED BY <1>5, <2>1
<1>7. w = [n \in 0 .. MaxProcs |->
               [p \in TreeProcs |->
                   IF n = 0 THEN <<>>
                   ELSE FlattenSeq([i \in DOMAIN SetToSeq(Kids(p)) |->
                           <<SetToSeq(Kids(p))[i]>> \o w[n - 1][SetToSeq(Kids(p))[i]]])]]
  BY <1>6
<1> HIDE DEF w
<1> DEFINE Fine == {n \in 0 .. MaxProcs :
                       w[n] \in T /\ \A p \in TreeProcs : p + n >= MaxProcs => Closed(w[n][p], p)}
<1>8. 0 \in Fine
  <2>1. w[0] = none
    BY <1>7, ProcsAssumption
  <2>2. ASSUME NEW p \in TreeProcs, p + 0 >= MaxProcs PROVE Closed(none[p], p)
    <3>1. none[p] = <<>> /\ ToSet(none[p]) = {}
      BY DEF ToSet
    <3>2. p = MaxProcs /\ MaxProcs \in Nat
      BY <2>2, ProcsAssumption DEF TreeProcs
    <3>3. \A q \in alive : q \in Nat /\ q <= MaxProcs
      BY <3>2 DEF TreeTypes
    <3>4. Kids(p) = {}
      BY <3>2, <3>3 DEF Kids, Born
    <3>5. QED BY <3>1, <3>4 DEF Closed
  <2>3. QED BY <1>1, <2>1, <2>2, ProcsAssumption
<1>9. ASSUME NEW n \in 1 .. MaxProcs, n - 1 \in Fine PROVE n \in Fine
  <2>1. n \in 0 .. MaxProcs /\ n # 0 BY ProcsAssumption
  <2>2. w[n] = Below(w[n - 1])
    BY <1>7, <2>1 DEF Below
  <2>3. w[n - 1] \in T /\ \A p \in TreeProcs : p + (n - 1) >= MaxProcs => Closed(w[n - 1][p], p)
    BY <1>9
  <2>4. Below(w[n - 1]) \in T
    BY <2>3, BelowType DEF T
  <2>5. ASSUME NEW p \in TreeProcs, p + n >= MaxProcs PROVE Closed(w[n][p], p)
    <3>1. \A k \in TreeProcs : p < k => k + (n - 1) >= MaxProcs
      BY <2>1, <2>5, ProcsAssumption DEF TreeProcs
    <3>2. QED BY <2>2, <2>3, <3>1, BelowCloses DEF T
  <2>6. QED BY <2>1, <2>2, <2>4, <2>5
<1>10. MaxProcs \in Fine
  <2> HIDE DEF Fine
  <2>1. 0 .. MaxProcs \subseteq Fine BY <1>8, <1>9, ProcsAssumption, UpTo
  <2>2. QED BY <2>1, ProcsAssumption
<1>11. root \in TreeProcs /\ root + MaxProcs >= MaxProcs
  BY ProcsAssumption DEF TreeTypes, TreeProcs
<1>12. w[MaxProcs] \in T /\ Closed(w[MaxProcs][root], root)
  BY <1>10, <1>11
<1>13. QED BY <1>4, <1>11, <1>12 DEF T

\* A signal or the end of a process: it is gone and its children are init's.
LEMMA EndsKeeps ==
    ASSUME TreeInv, NEW p \in TreeProcs, Tree!Ends(p), UNCHANGED <<started, launch, attempt, root, dead, listens, seen>>,
           \/ doomed' = doomed
           \/ /\ launch \in {"killing", "leaving"} /\ doomed' \in Seq(TreeProcs)
              /\ ToSet(doomed) \subseteq ToSet(doomed') \cup {p}
    PROVE  TreeInv'
<1> USE DEF TreeInv
<1>1. /\ alive' = alive \ {p}
      /\ parent' = [q \in TreeProcs |-> IF parent[q] = p THEN MaxProcs + 1 ELSE parent[q]]
  BY DEF Tree!Ends, Tree!Procs, Tree!InitProc, TreeProcs
<1>2. alive \subseteq TreeProcs /\ MaxProcs + 1 # 0
  <2>1. started \in Nat /\ started <= MaxProcs /\ MaxProcs \in Nat /\ alive \subseteq 1 .. started
    BY ProcsAssumption DEF TreeTypes
  <2>2. 1 .. started \subseteq 1 .. MaxProcs
    BY <2>1
  <2>3. QED BY <2>1, <2>2 DEF TreeProcs
<1>3. parent' \in [TreeProcs -> TreeProcs \cup {0, MaxProcs + 1, Null}]
  BY <1>1 DEF TreeTypes
<1>4. TreeTypes'
  BY <1>1, <1>3 DEF TreeTypes
<1>5. HasChild'
  BY <1>1 DEF HasChild
<1>6. Signalled'
  BY <1>1 DEF Signalled
<1>7. Only' /\ Born'
  BY <1>1, <1>2 DEF Only, Born
<1>8. QED BY <1>4, <1>5, <1>6, <1>7

\* Processes start, end and listen.
LEMMA ProcessesKeep ==
    ASSUME TreeInv, NEW p \in TreeProcs, Tree!Fork(p) \/ Tree!Exit(p) \/ Tree!Listen(p) PROVE TreeInv'
<1>1. CASE Tree!Fork(p)
  <2> USE DEF TreeInv
  <2> DEFINE q == started + 1
  <2>1. /\ p \in alive /\ q \in TreeProcs /\ started' = q /\ alive' = alive \cup {q}
        /\ parent' = [parent EXCEPT ![q] = p]
        /\ UNCHANGED <<launch, attempt, root, dead, listens, doomed, seen>>
    BY <1>1 DEF Tree!Fork, Tree!Start, Tree!Procs, TreeProcs
  <2>2. started \in Nat /\ MaxProcs \in Nat /\ q \in 0 .. MaxProcs /\ 1 .. started \subseteq 1 .. q /\ q \notin 1 .. started
        /\ q \in 1 .. q /\ p # 0
    BY <2>1, ProcsAssumption DEF TreeTypes, TreeProcs
  <2>3. root # q
    BY <2>1, <2>2, ProcsAssumption DEF TreeTypes, TreeProcs
  <2> HIDE DEF q
  <2>4. parent' \in [TreeProcs -> TreeProcs \cup {0, MaxProcs + 1, Null}] /\ parent'[q] = p
        /\ \A r \in alive : parent'[r] = parent[r]
    BY <2>1, <2>2 DEF TreeTypes
  <2>5. TreeTypes'
    BY <2>1, <2>2, <2>4 DEF TreeTypes
  <2>6. HasChild'
    BY <2>1, <2>3 DEF HasChild
  <2>7. Signalled'
    BY <2>1, <2>2 DEF Signalled, TreeTypes
  <2>8. Only'
    BY <2>1, <2>2, <2>4 DEF Only
  <2>9. Born'
    <3>1. p \in 0 .. q - 1
      BY <2>1, <2>2 DEF TreeTypes, q
    <3>2. QED BY <2>1, <2>4, <3>1 DEF Born
  <2>10. QED BY <2>5, <2>6, <2>7, <2>8, <2>9
<1>2. CASE Tree!Exit(p)
  <2>1. Tree!Ends(p) /\ UNCHANGED <<started, launch, attempt, root, dead, listens, doomed, seen>>
    BY <1>2 DEF Tree!Exit
  <2>2. QED BY <2>1, EndsKeeps
<1>3. CASE Tree!Listen(p)
  <2>1. /\ listens' = listens \cup {p}
        /\ UNCHANGED <<started, alive, parent, launch, attempt, root, dead, doomed, seen>>
    BY <1>3 DEF Tree!Listen
  <2>2. QED BY <2>1 DEF TreeInv, TreeTypes, HasChild, Signalled, Only, Born
<1>4. QED BY <1>1, <1>2, <1>3

\* A kill begins with the snapshot of the tree.
LEMMA KillKeeps ==
    ASSUME TreeInv, launch \in {"port", "connect", "rpc", "ready"}, NEW next \in {"killing", "leaving"},
           Tree!Kill(next), UNCHANGED <<started, alive, parent, attempt, root, dead, listens>>
    PROVE  TreeInv'
<1> USE DEF TreeInv
<1>1. root # Null /\ root \in 1 .. started /\ seen \cap alive = {}
  BY DEF HasChild, TreeTypes, Signalled
<1>2. root \in TreeProcs
  BY <1>1, ProcsAssumption DEF TreeTypes, TreeProcs
<1>3. CASE dead
  <2>1. launch' = next /\ doomed' = <<>> /\ seen' = seen
    BY <1>3 DEF Tree!Kill
  <2>2. TreeTypes'
    BY <2>1 DEF TreeTypes
  <2>3. HasChild' /\ Signalled' /\ Only' /\ Born'
    BY <1>1, <1>3, <2>1 DEF HasChild, Signalled, Only, Born
  <2>4. QED BY <2>2, <2>3
<1>4. CASE ~dead
  <2> DEFINE d == Tree!Descendants
             t == Append(Reverse(d), root)
  <2>1. launch' = next /\ doomed' = t /\ seen' = seen \cup Tree!Family
    BY <1>4 DEF Tree!Kill, Tree!killTree, Tree!Reverse, Reverse
  <2>2. d \in Seq(alive) /\ Closed(d, root)
    BY <1>1, DescendantsType
  <2>3. alive \subseteq 1 .. started /\ 1 .. started \subseteq TreeProcs
    BY ProcsAssumption DEF TreeTypes, TreeProcs
  <2> HIDE DEF d
  <2>4. d \in Seq(TreeProcs) /\ ToSet(d) \subseteq 1 .. started
    <3>1. \A i \in DOMAIN d : d[i] \in alive BY <2>2
    <3>2. d \in Seq(TreeProcs)
      <4>1. PICK n \in Nat : d \in [1 .. n -> alive] BY <2>2
      <4>2. d \in [1 .. n -> TreeProcs] BY <2>3, <4>1
      <4>3. QED BY <4>2
    <3>3. QED BY <2>3, <3>1, <3>2 DEF ToSet
  <2>5. t \in Seq(TreeProcs) /\ ToSet(t) = ToSet(d) \cup {root}
    <3>1. Reverse(d) \in Seq(TreeProcs) /\ ToSet(Reverse(d)) = ToSet(d)
      BY <2>4, ReverseSet
    <3>2. QED BY <1>2, <3>1, AppendSet
  <2> HIDE DEF t
  <2>6. root \in Tree!Family /\ Tree!Family \subseteq ToSet(d) \cup {root}
    <3> DEFINE S == ToSet(d) \cup {root}
    <3>1. S \in SUBSET TreeProcs /\ root \in S
      BY <1>2, <2>3, <2>4
    <3>2. \A q \in S : Kids(q) \subseteq S
      BY <2>2 DEF Closed
    <3> HIDE DEF S
    <3>3. \A q : Tree!Children(q) = Kids(q)
      BY DEF Tree!Children, Kids
    <3>4. Tree!Family \subseteq S
      BY <3>1, <3>2, <3>3 DEF Tree!Family, Tree!Procs, TreeProcs
    <3>5. root \in Tree!Family
      BY <1>2 DEF Tree!Family, Tree!Procs, TreeProcs
    <3>6. QED BY <3>4, <3>5 DEF S
  <2>7. TreeTypes'
    BY <1>1, <2>1, <2>4, <2>5, <2>6 DEF TreeTypes
  <2>8. HasChild' /\ Only' /\ Born'
    BY <1>1, <2>1 DEF HasChild, Only, Born
  <2>9. Signalled'
    BY <1>1, <2>1, <2>5, <2>6 DEF Signalled
  <2>10. QED BY <2>7, <2>8, <2>9
<1>5. QED BY <1>3, <1>4

\* The next pid of a kill (process.kill).
LEMMA SignalKeeps == ASSUME TreeInv, Tree!Signal PROVE TreeInv'
<1>1. /\ launch \in {"killing", "leaving"} /\ doomed # <<>> /\ doomed' = Tail(doomed)
      /\ IF Head(doomed) \in alive THEN Tree!Ends(Head(doomed)) ELSE UNCHANGED <<alive, parent>>
      /\ UNCHANGED <<started, launch, attempt, root, dead, listens, seen>>
  BY DEF Tree!Signal
<1>2. doomed \in Seq(TreeProcs)
  BY DEF TreeInv, TreeTypes
<1>3. /\ Head(doomed) \in TreeProcs /\ doomed' \in Seq(TreeProcs)
      /\ ToSet(doomed) \subseteq ToSet(doomed') \cup {Head(doomed)}
  BY <1>1, <1>2, TailSet
<1>4. CASE Head(doomed) \in alive
  BY <1>1, <1>3, <1>4, EndsKeeps
<1>5. CASE Head(doomed) \notin alive
  <2>1. TreeTypes'
    BY <1>1, <1>3, <1>5 DEF TreeInv, TreeTypes
  <2>2. Signalled'
    BY <1>1, <1>3, <1>5 DEF TreeInv, Signalled
  <2>3. HasChild' /\ Only' /\ Born'
    BY <1>1, <1>5 DEF TreeInv, HasChild, Only, Born
  <2>4. QED BY <2>1, <2>2, <2>3 DEF TreeInv
<1>6. QED BY <1>4, <1>5

\* The kill is over (killTree has returned).
LEMMA KilledKeeps == ASSUME TreeInv, Tree!Killed PROVE TreeInv'
<1> USE DEF TreeInv
<1>1. /\ launch \in {"killing", "leaving"} /\ doomed = <<>>
      /\ launch' \in {"gone", "spawn", "failed"}
      /\ attempt' = attempt \/ (attempt < Attempts /\ attempt' = attempt + 1)
      /\ UNCHANGED <<started, alive, parent, root, dead, listens, doomed, seen>>
  BY DEF Tree!Killed
<1>2. attempt' \in 1 .. Attempts
  BY <1>1, ProcsAssumption DEF TreeTypes
<1>3. TreeTypes'
  BY <1>1, <1>2 DEF TreeTypes
<1>4. ToSet(doomed) = {}
  BY <1>1 DEF ToSet
<1>5. seen \cap alive = {} /\ root \notin alive
  BY <1>1, <1>4 DEF Signalled, HasChild
<1>6. HasChild' /\ Signalled'
  BY <1>1, <1>5 DEF HasChild, Signalled
<1>7. Only' /\ Born'
  BY <1>1, <1>5 DEF Only, Born
<1>8. QED BY <1>3, <1>6, <1>7

\* A claude is spawned.
LEMMA SpawnKeeps == ASSUME TreeInv, Tree!Spawn PROVE TreeInv'
<1> USE DEF TreeInv
<1> DEFINE q == started + 1
<1>1. /\ q \in TreeProcs /\ started' = q /\ alive' = alive \cup {q} /\ launch = "spawn"
      /\ parent' = [parent EXCEPT ![q] = 0] /\ root' = q /\ dead' = FALSE /\ launch' = "port"
      /\ UNCHANGED <<attempt, listens, doomed, seen>>
  BY DEF Tree!Spawn, Tree!Start, Tree!Procs, Tree!Host, TreeProcs
<1>2. /\ started \in Nat /\ MaxProcs \in Nat /\ q \in 0 .. MaxProcs /\ 1 .. started \subseteq 1 .. q
      /\ q \notin 1 .. started /\ q \in 1 .. q
  BY <1>1, ProcsAssumption DEF TreeTypes, TreeProcs
<1>3. q # Null
  BY <1>2, ProcsAssumption
<1> HIDE DEF q
<1>4. parent' \in [TreeProcs -> TreeProcs \cup {0, MaxProcs + 1, Null}]
      /\ \A r \in alive : parent'[r] = parent[r]
  BY <1>1, <1>2 DEF TreeTypes
<1>5. TreeTypes'
  BY <1>1, <1>2, <1>4 DEF TreeTypes
<1>6. HasChild'
  BY <1>1, <1>3 DEF HasChild
<1>7. Signalled'
  BY <1>1, <1>2 DEF Signalled, TreeTypes
<1>8. Only'
  BY <1>1, <1>4 DEF Only
<1>9. Born'
  <2>1. parent'[q] = 0 /\ 0 \in 0 .. q - 1
    BY <1>1, <1>2 DEF TreeTypes
  <2>2. QED BY <1>1, <1>4, <2>1 DEF Born
<1>10. QED BY <1>5, <1>6, <1>7, <1>8, <1>9

\* Steps of the host that touch no process.
LEMMA HostGoesOn ==
    ASSUME TreeInv, Tree!NoticeExit \/ Tree!Proceed \/ Tree!LeaveFailed \/ UNCHANGED launchVars PROVE TreeInv'
<1> USE DEF TreeInv
<1>1. /\ UNCHANGED <<started, alive, parent, attempt, root, listens, doomed, seen>>
      /\ \/ launch' = launch /\ dead' = TRUE /\ root # Null /\ root \notin alive /\ launch \notin {"killing", "leaving"}
         \/ launch' = launch /\ dead' = dead
         \/ dead' = dead /\ launch \in {"port", "connect", "rpc"} /\ launch' \in {"connect", "rpc", "ready"}
         \/ dead' = dead /\ launch = "failed" /\ launch' = "gone"
  BY DEF Tree!NoticeExit, Tree!Proceed, Tree!LeaveFailed, launchVars
<1>2. TreeTypes'
  BY <1>1 DEF TreeTypes
<1>3. HasChild'
  BY <1>1 DEF HasChild
<1>4. Signalled'
  BY <1>1 DEF Signalled
<1>5. Only' /\ Born'
  BY <1>1 DEF Only, Born
<1>6. QED BY <1>2, <1>3, <1>4, <1>5

\* Each step of the host and of its processes (attach.ts).
LEMMA TreeStep == ASSUME TreeInv, Tree!Next \/ UNCHANGED launchVars PROVE TreeInv'
<1>1. CASE Tree!Fail
  <2>1. /\ launch \in {"port", "connect", "rpc"} /\ Tree!Kill("killing")
        /\ UNCHANGED <<started, alive, parent, attempt, root, dead, listens>>
    BY <1>1 DEF Tree!Fail
  <2>2. QED BY <2>1, KillKeeps
<1>2. CASE Tree!Leave
  <2>1. /\ launch \in {"ready", "port", "connect", "rpc"} /\ Tree!Kill("leaving")
        /\ UNCHANGED <<started, alive, parent, attempt, root, dead, listens>>
    BY <1>2 DEF Tree!Leave
  <2>2. QED BY <2>1, KillKeeps
<1>3. CASE \E p \in TreeProcs : Tree!Fork(p) \/ Tree!Exit(p) \/ Tree!Listen(p)
  BY <1>3, ProcessesKeep
<1>4. QED BY <1>1, <1>2, <1>3, SignalKeeps, KilledKeeps, SpawnKeeps, HostGoesOn
          DEF Tree!Next, Tree!Procs, TreeProcs

\* The parts of TreeReaped are parts of the invariant.
LEMMA TreeMeans == TreeInv => TreeReaped
<1> SUFFICES ASSUME TreeInv PROVE Tree!TypeOK /\ Tree!Reaped /\ Tree!OneChild
  BY DEF TreeReaped
<1>1. 1 .. started \subseteq TreeProcs
  BY ProcsAssumption DEF TreeInv, TreeTypes, TreeProcs
<1>2. Tree!TypeOK
  BY <1>1 DEF TreeInv, TreeTypes, Tree!TypeOK, Tree!Procs, Tree!Host, Tree!InitProc, TreeProcs
<1>3. Tree!Reaped
  BY DEF TreeInv, Signalled, Tree!Reaped
<1>4. Tree!OneChild
  BY DEF TreeInv, Only, Tree!OneChild, Tree!Host
<1>5. QED BY <1>2, <1>3, <1>4

\* attach.ts:57, "The snapshot must be taken BEFORE anything dies": however its
\* processes fork, end and are orphaned meanwhile, nothing lives after a kill that
\* was in the tree when it began, and the attempts of launchAndAttach leave no
\* claude behind but the last.
THEOREM NothingOutlivesAKill == HostSpec => []TreeReaped
<1>1. HostInit => TreeInv
  BY TreeInit DEF HostInit
<1>2. TreeInv /\ [HostNext]_<<part, vars, clientVars, gateVars, driverVars, launchVars, loginVars, surfaceVars>>
      => TreeInv'
  BY TreeStep DEF HostNext
<1>3. QED BY <1>1, <1>2, TreeMeans, PTL DEF HostSpec

-----------------------------------------------------------------------------
(* Terminal.                                                               *)

\* What may stand in a text, and the keys a read is made of.
Text == Bytes \ {"esc", "[", "A", "B"}
Key == Arrows \cup OneByte

\* A read of whole keys: "[" and the letter behind it are of an arrow.
Whole(s) ==
    \A i \in DOMAIN s :
        /\ s[i] = "[" => i > 1 /\ s[i - 1] = "esc" /\ i < Len(s) /\ s[i + 1] \in {"A", "B"}
        /\ s[i] \in {"A", "B"} => i > 1 /\ s[i - 1] = "["

PromptTypes ==
    /\ tty \in BOOLEAN /\ raw \in BOOLEAN /\ prompt \in 1 .. Len(Asks) + 1
    /\ at \in {"ask", "reading", "heard", "done", "cancelled"}
    /\ at # "done" => prompt \in DOMAIN Asks
    /\ cursor \in Nat /\ buf \in Seq(Text)
    /\ at = "reading" /\ tty /\ Asks[prompt].kind = "select" => cursor \in 1 .. Asks[prompt].n
    /\ typed \in Seq(Bytes) /\ Whole(typed)
    /\ rl \in {"none", "open", "ended"} /\ (tty => rl = "none" /\ at # "heard")
    /\ script \in Seq(Lines) /\ piped \in Seq(Lines) /\ queued \in Seq(Lines) /\ heard \in Seq(Lines)
    /\ line \in Lines \cup {Null} /\ (at = "heard" <=> line # Null)
    /\ ~tty /\ at = "reading" => queued = <<>>

PromptInv == PromptTypes /\ RawWhileReading /\ NoLineLost

\* A read followed by a key is still one of whole keys.
LEMMA WholeAppend ==
    ASSUME NEW s \in Seq(Bytes), Whole(s), NEW k \in Key
    PROVE  s \o k \in Seq(Bytes) /\ Whole(s \o k)
<1> DEFINE t == s \o k
<1>1. k \in Seq(Bytes) /\ \/ Len(k) = 3 /\ k[1] = "esc" /\ k[2] = "[" /\ k[3] \in {"A", "B"}
                          \/ Len(k) = 1 /\ k[1] \notin {"[", "A", "B"}
  <2>1. CASE k = <<"esc", "[", "A">> BY <2>1 DEF Bytes
  <2>2. CASE k = <<"esc", "[", "B">> BY <2>2 DEF Bytes
  <2>3. CASE k \in OneByte
    <3>1. PICK b \in Bytes \ {"[", "A", "B"} : k = <<b>> BY <2>3 DEF OneByte
    <3>2. QED BY <3>1
  <2>4. QED BY <2>1, <2>2, <2>3 DEF Key, Arrows
<1>2. /\ t \in Seq(Bytes) /\ Len(t) = Len(s) + Len(k) /\ Len(s) \in Nat /\ Len(k) \in Nat
      /\ \A i \in 1 .. Len(t) : t[i] = IF i <= Len(s) THEN s[i] ELSE k[i - Len(s)]
  BY <1>1
<1> HIDE DEF t
<1>3. ASSUME NEW i \in DOMAIN t
      PROVE  /\ t[i] = "[" => i > 1 /\ t[i - 1] = "esc" /\ i < Len(t) /\ t[i + 1] \in {"A", "B"}
             /\ t[i] \in {"A", "B"} => i > 1 /\ t[i - 1] = "["
  <2>1. i \in 1 .. Len(t) BY <1>2
  <2>2. CASE i <= Len(s)
    <3>1. i \in DOMAIN s /\ t[i] = s[i] BY <2>1, <2>2, <1>2
    <3>2. i > 1 => t[i - 1] = s[i - 1] BY <2>1, <2>2, <1>2
    <3>3. i < Len(s) => t[i + 1] = s[i + 1] /\ i < Len(t) BY <2>1, <2>2, <1>2
    <3>4. QED BY <3>1, <3>2, <3>3 DEF Whole
  <2>3. CASE i > Len(s)
    <3>1. PICK j \in 1 .. Len(k) : j = i - Len(s) BY <2>1, <2>3, <1>2
    <3>2. t[i] = k[j] BY <2>1, <2>3, <3>1, <1>2
    <3>3. j > 1 => i > 1 /\ t[i - 1] = k[j - 1] BY <2>1, <2>3, <3>1, <1>2
    <3>4. j < Len(k) => i < Len(t) /\ t[i + 1] = k[j + 1] BY <2>1, <2>3, <3>1, <1>2
    <3>5. CASE Len(k) = 1
      <4>1. j = 1 BY <3>1, <3>5
      <4>2. QED BY <1>1, <3>2, <3>5, <4>1
    <3>6. CASE Len(k) = 3
      <4>1. j \in {1, 2, 3} /\ "esc" \notin {"[", "A", "B"} /\ "[" \notin {"A", "B"} /\ k[3] # "["
        BY <1>1, <3>1, <3>6
      <4>2. CASE j = 1 BY <1>1, <3>2, <3>6, <4>1, <4>2
      <4>3. CASE j = 2 BY <1>1, <3>2, <3>3, <3>4, <3>6, <4>1, <4>3
      <4>4. CASE j = 3 BY <1>1, <3>2, <3>3, <3>6, <4>1, <4>4
      <4>5. QED BY <4>1, <4>2, <4>3, <4>4
    <3>7. QED BY <1>1, <3>5, <3>6
  <2>4. QED BY <2>1, <2>2, <2>3, <1>2
<1>4. Whole(t)
  BY <1>3 DEF Whole
<1>5. QED BY <1>2, <1>4 DEF t

\* splitKeys byte by byte.
Split == [keys : Seq(Seq(Bytes)), held : Seq(Bytes)]
SplitStep == [x \in Split \X Bytes |-> splitByte(x[1], x[2])]

LEMMA SplitTyped == ASSUME NEW s \in Split, NEW b \in Bytes PROVE splitByte(s, b) \in Split
<1>1. /\ s = [keys |-> s.keys, held |-> s.held] /\ s.keys \in Seq(Seq(Bytes)) /\ s.held \in Seq(Bytes)
      /\ <<b>> \in Seq(Bytes) /\ <<"esc">> \in Seq(Bytes)
  BY DEF Split, Bytes
<1>2. /\ Append(s.keys, <<b>>) \in Seq(Seq(Bytes)) /\ Append(s.keys, <<"esc">>) \in Seq(Seq(Bytes))
      /\ s.keys \o << <<"esc">>, <<b>> >> \in Seq(Seq(Bytes)) /\ Append(s.held, b) \in Seq(Bytes)
  BY <1>1
<1>3. Append(s.keys, Append(s.held, b)) \in Seq(Seq(Bytes)) /\ <<>> \in Seq(Bytes)
  BY <1>1, <1>2
<1>4. ASSUME NEW k \in Seq(Seq(Bytes)), NEW h \in Seq(Bytes)
      PROVE  /\ [s EXCEPT !.keys = k] \in Split /\ [s EXCEPT !.held = h] \in Split
             /\ [keys |-> k, held |-> h] \in Split
  BY <1>1 DEF Split
<1>5. QED BY <1>1, <1>2, <1>3, <1>4 DEF splitByte

LEMMA SplitStepTyped ==
    /\ StepOn(SplitStep, Split, Bytes)
    /\ \A s \in Split, b \in Bytes : SplitStep[<<s, b>>] = splitByte(s, b)
BY SplitTyped DEF SplitStep, StepOn

SplitFirst == [keys |-> <<>>, held |-> <<>>]

\* What splitKeys goes through.
LEMMA SplitResults ==
    ASSUME NEW s \in Seq(Bytes)
    PROVE  \E a : /\ Results(a, Split, s, SplitFirst, SplitStep)
                  /\ FoldLeft(splitByte, SplitFirst, s) = a[Len(s)]
<1> DEFINE IsIter(f) == f = [S \in SUBSET DOMAIN s |->
                               IF S = {} THEN SplitFirst ELSE splitByte(f[S \ {Max(S)}], s[Max(S)])]
           iter == CHOOSE f : IsIter(f)
<1>0. SplitFirst \in Split
  BY DEF SplitFirst, Split
<1>1. FoldLeft(splitByte, SplitFirst, s) = iter[DOMAIN s]
  BY DEF FoldLeft, MapThenFoldSet
<1>2. \E f : IsIter(f)
  <2>1. PICK f : Unfolds(f, Split, Bytes, s, SplitFirst, SplitStep) /\ Typed(f, Split, Bytes, s)
    BY <1>0, SplitStepTyped, FoldExists
  <2>2. ASSUME NEW S \in SUBSET DOMAIN s
        PROVE  f[S] = IF S = {} THEN SplitFirst ELSE splitByte(f[S \ {Max(S)}], s[Max(S)])
    BY <2>1, SplitStepTyped DEF Unfolds, Typed
  <2>3. IsIter(f)
    BY <2>1, <2>2 DEF Typed
  <2>4. QED BY <2>3
<1>3. IsIter(iter)
  <2> HIDE DEF IsIter
  <2>1. QED BY <1>2
<1>4. iter[{}] = SplitFirst
  BY <1>3
<1>5. ASSUME NEW S \in SUBSET DOMAIN s, S # {}, iter[S \ {Max(S)}] \in Split, s[Max(S)] \in Bytes
      PROVE  iter[S] = SplitStep[<<iter[S \ {Max(S)}], s[Max(S)]>>]
  <2>1. iter[S] = splitByte(iter[S \ {Max(S)}], s[Max(S)])
    <3> HIDE DEF iter
    <3>1. QED BY <1>3, <1>5
  <2>2. QED BY <2>1, <1>5, SplitStepTyped
<1> HIDE DEF iter, IsIter
<1>6. Unfolds(iter, Split, Bytes, s, SplitFirst, SplitStep)
  BY <1>4, <1>5 DEF Unfolds
<1>7. \E a : Results(a, Split, s, SplitFirst, SplitStep) /\ iter[DOMAIN s] = a[Len(s)]
  BY <1>0, <1>6, SplitStepTyped, FoldSteps
<1>8. QED BY <1>1, <1>7

\* A split in the middle of a read of whole keys: what is held is the start of
\* the key that its last byte is of.
InSplit(v, s, i) ==
    /\ v.keys \in Seq(Key)
    /\ \/ v.held = <<>> /\ (i > 0 => s[i] \notin {"esc", "["})
       \/ v.held = <<"esc">> /\ i > 0 /\ s[i] = "esc"
       \/ v.held = <<"esc", "[">> /\ i > 0 /\ s[i] = "["

LEMMA SplitGoesOn ==
    ASSUME NEW s \in Seq(Bytes), Whole(s), NEW i \in 1 .. Len(s), NEW v \in Split, InSplit(v, s, i - 1)
    PROVE  InSplit(splitByte(v, s[i]), s, i)
<1> DEFINE b == s[i]
<1>1. /\ i > 0 /\ b \in Bytes /\ v = [keys |-> v.keys, held |-> v.held] /\ v.keys \in Seq(Key)
      /\ (b = "[" => i > 1 /\ s[i - 1] = "esc") /\ (b \in {"A", "B"} => i > 1 /\ s[i - 1] = "[")
      /\ (i > 1 /\ s[i - 1] = "[" => b \in {"A", "B"})
  <2>1. /\ i > 0 /\ b \in Bytes /\ v = [keys |-> v.keys, held |-> v.held] /\ v.keys \in Seq(Key)
        /\ i \in DOMAIN s
    BY DEF Split, InSplit
  <2>2. (b = "[" => i > 1 /\ s[i - 1] = "esc") /\ (b \in {"A", "B"} => i > 1 /\ s[i - 1] = "[")
    BY <2>1 DEF Whole
  <2>3. ASSUME i > 1, s[i - 1] = "[" PROVE b \in {"A", "B"}
    <3>1. i - 1 \in DOMAIN s /\ (i - 1) + 1 = i BY <2>3
    <3>2. s[(i - 1) + 1] \in {"A", "B"} BY <2>3, <3>1 DEF Whole
    <3>3. QED BY <3>1, <3>2
  <2>4. QED BY <2>1, <2>2, <2>3
<1>2. /\ b \notin {"[", "A", "B"} => <<b>> \in Key
      /\ b \in {"A", "B"} => <<"esc", "[", b>> \in Key
      /\ <<"esc">> \in Key
  BY <1>1 DEF Key, Arrows, OneByte, Bytes
<1> HIDE DEF b
<1>3. CASE v.held = <<>>
  <2>1. i > 1 => s[i - 1] \notin {"esc", "["}
    BY <1>1, <1>3 DEF InSplit
  <2>2. b \notin {"[", "A", "B"}
    BY <2>1, <1>1
  <2>3. CASE b = "esc"
    <3>1. splitByte(v, b) = [v EXCEPT !.held = <<"esc">>] BY <1>3, <2>3 DEF splitByte
    <3>2. splitByte(v, b).keys = v.keys /\ splitByte(v, b).held = <<"esc">> BY <1>1, <3>1
    <3>3. QED BY <1>1, <2>3, <3>2 DEF InSplit, b
  <2>4. CASE b # "esc"
    <3>1. splitByte(v, b) = [v EXCEPT !.keys = Append(@, <<b>>)] BY <1>3, <2>4 DEF splitByte
    <3>2. splitByte(v, b).keys = Append(v.keys, <<b>>) /\ splitByte(v, b).held = <<>> BY <1>1, <1>3, <3>1
    <3>3. Append(v.keys, <<b>>) \in Seq(Key) BY <1>1, <1>2, <2>2
    <3>4. QED BY <1>1, <2>2, <2>4, <3>2, <3>3 DEF InSplit, b
  <2>5. QED BY <2>3, <2>4 DEF b
<1>4. CASE v.held = <<"esc">>
  <2>1. i > 1 /\ s[i - 1] = "esc" /\ Len(v.held) = 1 /\ v.held # <<>>
    BY <1>1, <1>4 DEF InSplit
  <2>2. b \notin {"A", "B"}
    BY <2>1, <1>1
  <2>3. CASE b = "["
    <3>1. splitByte(v, b) = [v EXCEPT !.held = Append(@, b)]
      BY <2>1, <2>3 DEF splitByte, Letters
    <3>2. splitByte(v, b).keys = v.keys /\ splitByte(v, b).held = Append(v.held, b) BY <1>1, <3>1
    <3>3. Append(v.held, b) = <<"esc", "[">>
      <4>1. Append(<<"esc">>, "[") = <<"esc", "[">> BY AppendToOne
      <4>2. QED BY <1>4, <2>3, <4>1
    <3>4. QED BY <1>1, <2>3, <3>2, <3>3 DEF InSplit, b
  <2>4. CASE b = "esc"
    <3>1. splitByte(v, b) = [v EXCEPT !.keys = Append(@, <<"esc">>)] BY <2>1, <2>4 DEF splitByte
    <3>2. splitByte(v, b).keys = Append(v.keys, <<"esc">>) /\ splitByte(v, b).held = <<"esc">>
      BY <1>1, <1>4, <3>1
    <3>3. Append(v.keys, <<"esc">>) \in Seq(Key) BY <1>1, <1>2
    <3>4. QED BY <1>1, <2>4, <3>2, <3>3 DEF InSplit, b
  <2>5. CASE b \notin {"[", "esc"}
    <3>1. splitByte(v, b) = [keys |-> v.keys \o << <<"esc">>, <<b>> >>, held |-> <<>>]
      BY <2>1, <2>5 DEF splitByte
    <3>2. splitByte(v, b).keys = v.keys \o << <<"esc">>, <<b>> >> /\ splitByte(v, b).held = <<>>
      BY <3>1
    <3>3. << <<"esc">>, <<b>> >> \in Seq(Key) BY <1>2, <2>2, <2>5
    <3>4. v.keys \o << <<"esc">>, <<b>> >> \in Seq(Key) BY <1>1, <3>3
    <3>5. QED BY <1>1, <2>5, <3>2, <3>4 DEF InSplit, b
  <2>6. QED BY <2>3, <2>4, <2>5 DEF b
<1>5. CASE v.held = <<"esc", "[">>
  <2>1. i > 1 /\ s[i - 1] = "[" /\ Len(v.held) = 2 /\ v.held # <<>>
    BY <1>1, <1>5 DEF InSplit
  <2>2. b \in {"A", "B"}
    BY <2>1, <1>1
  <2>3. splitByte(v, b) = [keys |-> Append(v.keys, Append(v.held, b)), held |-> <<>>]
    BY <2>1, <2>2 DEF splitByte, Letters
  <2>4. splitByte(v, b).keys = Append(v.keys, Append(v.held, b)) /\ splitByte(v, b).held = <<>>
    BY <2>3
  <2>5. Append(v.held, b) = <<"esc", "[", b>>
    <3>1. Append(<<"esc", "[">>, b) = <<"esc", "[", b>> BY AppendToTwo
    <3>2. QED BY <1>5, <3>1
  <2>6. Append(v.keys, Append(v.held, b)) \in Seq(Key) BY <1>1, <1>2, <2>2, <2>5
  <2>7. QED BY <1>1, <2>2, <2>4, <2>6 DEF InSplit, b
<1>6. QED BY <1>3, <1>4, <1>5 DEF InSplit

\* Of whole keys splitKeys makes keys.
LEMMA SplitsWhole == ASSUME NEW s \in Seq(Bytes), Whole(s) PROVE splitKeys(s) \in Seq(Key)
<1> DEFINE all == FoldLeft(splitByte, SplitFirst, s)
           left == [i \in DOMAIN all.held |-> <<all.held[i]>>]
<1>1. PICK a : Results(a, Split, s, SplitFirst, SplitStep) /\ all = a[Len(s)]
  BY SplitResults
<1> DEFINE Fine == {i \in 0 .. Len(s) : InSplit(a[i], s, i)}
<1>2. Len(s) \in Nat /\ \A i \in 1 .. Len(s) : s[i] \in Bytes
  OBVIOUS
<1>3. 0 \in Fine
  <2>1. a[0] = SplitFirst /\ 0 \in 0 .. Len(s) BY <1>1, <1>2 DEF Results
  <2>2. SplitFirst.keys = <<>> /\ SplitFirst.held = <<>> /\ <<>> \in Seq(Key) BY DEF SplitFirst
  <2>3. ~(0 > 0) OBVIOUS
  <2>4. InSplit(SplitFirst, s, 0) BY <2>2, <2>3 DEF InSplit
  <2>5. QED BY <2>1, <2>4
<1>4. ASSUME NEW i \in 1 .. Len(s), i - 1 \in Fine PROVE i \in Fine
  <2>1. i - 1 \in 0 .. Len(s) /\ a[i - 1] \in Split /\ InSplit(a[i - 1], s, i - 1)
    BY <1>1, <1>2, <1>4 DEF Results
  <2>2. a[i] = splitByte(a[i - 1], s[i])
    BY <1>1, <1>2, <2>1, SplitStepTyped DEF Results
  <2>3. InSplit(a[i], s, i)
    BY <2>1, <2>2, SplitGoesOn
  <2>4. QED BY <2>3
<1>5. 0 .. Len(s) \subseteq Fine
  <2> HIDE DEF Fine
  <2>1. QED BY <1>2, <1>3, <1>4, UpTo
<1>6. InSplit(all, s, Len(s))
  BY <1>1, <1>2, <1>5
<1>7. splitKeys(s) = all.keys \o left
  BY DEF splitKeys, SplitFirst
<1> HIDE DEF all, left
<1>8. all.keys \in Seq(Key) /\ (all.held = <<>> \/ all.held = <<"esc">>)
  <2>1. ASSUME Len(s) > 0, s[Len(s)] = "[" PROVE FALSE
    <3>1. Len(s) \in DOMAIN s BY <2>1, <1>2
    <3>2. Len(s) < Len(s) BY <2>1, <3>1 DEF Whole
    <3>3. QED BY <3>2, <1>2
  <2>2. QED BY <1>6, <2>1 DEF InSplit
<1>9. left \in Seq(Key)
  <2>1. CASE all.held = <<>>
    <3>1. left = <<>> BY <2>1 DEF left
    <3>2. QED BY <3>1
  <2>2. CASE all.held = <<"esc">>
    <3>1. left = << <<"esc">> >> BY <2>2 DEF left
    <3>2. <<"esc">> \in Key BY DEF Key, OneByte, Bytes
    <3>3. QED BY <3>1, <3>2
  <2>3. QED BY <2>1, <2>2, <1>8
<1>10. QED BY <1>7, <1>8, <1>9

\* What the keys of a read make of a prompt.
Typing(ask) ==
    [cursor : IF ask.kind = "select" THEN 1 .. ask.n ELSE Nat, buf : Seq(Text),
     end : {Null, "enter", "cancel"}]
KeyStep(ask) == [x \in Typing(ask) \X Key |-> onKey(ask, x[1], x[2])]

\* A prompt as they are asked.
Askable(ask) == ask \in Prompts /\ (ask.kind = "select" => ask.n > 0)

LEMMA TextOf == ASSUME NEW k \in Key, k # <<"cr">>, k # <<"del">>, k # <<"ctrlC">>, k # <<"esc">>, ~(Len(k) > 1)
                PROVE  k[1] \in Text
<1>1. CASE k \in Arrows
  <2>1. Len(k) = 3 BY <1>1 DEF Arrows
  <2>2. QED BY <2>1
<1>2. CASE k \in OneByte
  <2>1. PICK b \in Bytes \ {"[", "A", "B"} : k = <<b>> BY <1>2 DEF OneByte
  <2>2. b \notin {"cr", "del", "ctrlC", "esc"} /\ k[1] = b BY <2>1
  <2>3. QED BY <2>1, <2>2 DEF Text
<1>3. QED BY <1>1, <1>2 DEF Key

\* A menu stays on one of its choices, and no key that is a command is typed.
LEMMA KeyTyped ==
    ASSUME NEW ask, Askable(ask), NEW s \in Typing(ask), NEW k \in Key
    PROVE  onKey(ask, s, k) \in Typing(ask)
<1>1. /\ s = [cursor |-> s.cursor, buf |-> s.buf, end |-> s.end] /\ s.buf \in Seq(Text)
      /\ s.cursor \in (IF ask.kind = "select" THEN 1 .. ask.n ELSE Nat)
      /\ s.end \in {Null, "enter", "cancel"}
  BY DEF Typing
<1>2. /\ ask.n \in Nat /\ ask.kind \in {"select", "input"} /\ (ask.kind = "select" => ask.n > 0)
  BY DEF Askable, Prompts
<1>3. [s EXCEPT !.end = "enter"] \in Typing(ask) /\ [s EXCEPT !.end = "cancel"] \in Typing(ask)
  BY <1>1 DEF Typing
<1>4. ASSUME ask.kind = "select", k # <<"ctrlC">> PROVE menuKey(s, k, ask.n) \in Typing(ask)
  <2>1. ASSUME NEW c \in 1 .. ask.n PROVE [s EXCEPT !.cursor = c] \in Typing(ask)
    BY <1>1, <1>4 DEF Typing
  <2>2. s.cursor \in 1 .. ask.n /\ ask.n \in Nat /\ ask.n > 0
    BY <1>1, <1>2, <1>4
  <2>3. ((s.cursor + ask.n - 2) % ask.n) + 1 \in 1 .. ask.n /\ (s.cursor % ask.n) + 1 \in 1 .. ask.n
    <3>1. ASSUME NEW m \in Int PROVE m % ask.n \in 0 .. ask.n - 1
      BY <2>2
    <3>2. s.cursor + ask.n - 2 \in Int /\ s.cursor \in Int
      BY <2>2
    <3>3. (s.cursor + ask.n - 2) % ask.n \in 0 .. ask.n - 1 /\ s.cursor % ask.n \in 0 .. ask.n - 1
      BY <3>1, <3>2
    <3>4. ASSUME NEW r \in 0 .. ask.n - 1 PROVE r + 1 \in 1 .. ask.n
      BY <2>2
    <3>5. QED BY <3>3, <3>4
  <2>4. 1 \in 1 .. ask.n
    BY <2>2
  <2>5. /\ [s EXCEPT !.cursor = ((@ + ask.n - 2) % ask.n) + 1] \in Typing(ask)
        /\ [s EXCEPT !.cursor = (@ % ask.n) + 1] \in Typing(ask) /\ [s EXCEPT !.cursor = 1] \in Typing(ask)
    BY <2>1, <2>3, <2>4
  <2>6. QED BY <1>3, <2>5 DEF menuKey
<1>5. ASSUME ask.kind = "input", k # <<"ctrlC">> PROVE textKey(s, k) \in Typing(ask)
  <2>1. ASSUME NEW b \in Seq(Text) PROVE [s EXCEPT !.buf = b] \in Typing(ask)
    BY <1>1 DEF Typing
  <2>2. s.buf # <<>> => Front(s.buf) \in Seq(Text)
    BY <1>1 DEF Front
  <2>3. [s EXCEPT !.buf = IF @ = <<>> THEN @ ELSE Front(@)] \in Typing(ask)
    BY <1>1, <2>1, <2>2
  <2>4. CASE k = <<"cr">> BY <1>3, <2>4 DEF textKey
  <2>5. CASE k # <<"cr">> /\ k = <<"del">> BY <2>3, <2>5 DEF textKey
  <2>6. CASE k # <<"cr">> /\ k # <<"del">> /\ (Len(k) > 1 \/ k = <<"esc">>) BY <2>6 DEF textKey
  <2>7. CASE k # <<"cr">> /\ k # <<"del">> /\ ~(Len(k) > 1 \/ k = <<"esc">>)
    <3>1. k[1] \in Text BY <1>5, <2>7, TextOf
    <3>2. Append(s.buf, k[1]) \in Seq(Text) BY <1>1, <3>1
    <3>3. [s EXCEPT !.buf = Append(@, k[1])] \in Typing(ask) BY <2>1, <3>2
    <3>4. QED BY <2>7, <3>3 DEF textKey
  <2>8. QED BY <2>4, <2>5, <2>6, <2>7
<1>6. QED BY <1>2, <1>3, <1>4, <1>5 DEF onKey

LEMMA KeyStepTyped ==
    ASSUME NEW ask, Askable(ask)
    PROVE  /\ StepOn(KeyStep(ask), Typing(ask), Key)
           /\ \A s \in Typing(ask), k \in Key : KeyStep(ask)[<<s, k>>] = onKey(ask, s, k)
BY KeyTyped DEF KeyStep, StepOn

\* The keys of a read leave a prompt a prompt.
LEMMA KeysTyped ==
    ASSUME NEW ask, Askable(ask), NEW s \in Typing(ask), NEW keys \in Seq(Key)
    PROVE  heardKeys(ask, s, keys) \in Typing(ask)
<1> DEFINE T == Typing(ask)
           g == KeyStep(ask)
           IsIter(f) == f = [S \in SUBSET DOMAIN keys |->
                               IF S = {} THEN s ELSE onKey(ask, f[S \ {Max(S)}], keys[Max(S)])]
           iter == CHOOSE f : IsIter(f)
<1>0. StepOn(g, T, Key) /\ \A v \in T, k \in Key : g[<<v, k>>] = onKey(ask, v, k)
  BY KeyStepTyped
<1>1. heardKeys(ask, s, keys) = iter[DOMAIN keys]
  BY DEF heardKeys, FoldLeft, MapThenFoldSet
<1> HIDE DEF T, g
<1>2. s \in T
  BY DEF T
<1>3. \E f : IsIter(f)
  <2>1. PICK f : Unfolds(f, T, Key, keys, s, g) /\ Typed(f, T, Key, keys)
    BY <1>0, <1>2, FoldExists
  <2>2. ASSUME NEW S \in SUBSET DOMAIN keys
        PROVE  f[S] = IF S = {} THEN s ELSE onKey(ask, f[S \ {Max(S)}], keys[Max(S)])
    BY <2>1, <1>0 DEF Unfolds, Typed
  <2>3. IsIter(f)
    BY <2>1, <2>2 DEF Typed
  <2>4. QED BY <2>3
<1>4. IsIter(iter)
  <2> HIDE DEF IsIter
  <2>1. QED BY <1>3
<1>5. iter[{}] = s
  BY <1>4
<1>6. ASSUME NEW S \in SUBSET DOMAIN keys, S # {}, iter[S \ {Max(S)}] \in T, keys[Max(S)] \in Key
      PROVE  iter[S] = g[<<iter[S \ {Max(S)}], keys[Max(S)]>>]
  <2>1. iter[S] = onKey(ask, iter[S \ {Max(S)}], keys[Max(S)])
    <3> HIDE DEF iter
    <3>1. QED BY <1>4, <1>6
  <2>2. QED BY <2>1, <1>6, <1>0
<1> HIDE DEF iter, IsIter
<1>7. Unfolds(iter, T, Key, keys, s, g)
  BY <1>5, <1>6 DEF Unfolds
<1>8. PICK a : Results(a, T, keys, s, g) /\ iter[DOMAIN keys] = a[Len(keys)]
  BY <1>0, <1>2, <1>7, FoldSteps
<1>9. Len(keys) \in 0 .. Len(keys)
  OBVIOUS
<1>10. QED BY <1>1, <1>8, <1>9 DEF Results, T

-----------------------------------------------------------------------------
(* Its steps.                                                              *)

LEMMA PromptInit == Init => PromptInv
<1> SUFFICES ASSUME Init PROVE PromptInv
  OBVIOUS
<1>1. /\ tty \in BOOLEAN /\ prompt = 1 /\ at = "ask" /\ raw = FALSE /\ cursor = 1 /\ buf = <<>>
      /\ typed = <<>> /\ rl = "none" /\ queued = <<>> /\ line = Null /\ heard = <<>> /\ piped = script
      /\ script \in (IF tty THEN {<<>>} ELSE Scripts)
  BY DEF Init
<1>2. script \in Seq(Lines) /\ <<>> \in Seq(Lines) /\ <<>> \in Seq(Text) /\ <<>> \in Seq(Bytes)
  <2>1. CASE tty BY <1>1, <2>1
  <2>2. CASE ~tty BY <1>1, <2>2, PromptsAssumption
  <2>3. QED BY <2>1, <2>2
<1>3. 1 \in 1 .. Len(Asks) + 1 /\ 1 \in DOMAIN Asks
  BY PromptsAssumption
<1>4. Whole(<<>>)
  BY DEF Whole
<1>5. PromptTypes
  BY <1>1, <1>2, <1>3, <1>4 DEF PromptTypes
<1>6. NoLineLost
  <2>1. <<>> \o <<>> \o <<>> \o script = script BY <1>2
  <2>2. QED BY <1>1, <2>1 DEF NoLineLost
<1>7. QED BY <1>1, <1>5, <1>6 DEF PromptInv, RawWhileReading

\* What a prompt is asked with can be asked.
LEMMA AsksAskable == ASSUME NEW i \in DOMAIN Asks PROVE Askable(Asks[i])
BY PromptsAssumption DEF Askable

\* The last prompt was answered, or there is another.
LEMMA AnsweredTypes ==
    ASSUME PromptTypes, prompt \in DOMAIN Asks, Answered
    PROVE  /\ prompt' \in 1 .. Len(Asks) + 1 /\ at' \in {"ask", "done"}
           /\ at' # "done" => prompt' \in DOMAIN Asks
<1>1. Len(Asks) \in Nat /\ DOMAIN Asks = 1 .. Len(Asks)
  BY PromptsAssumption
<1>2. QED BY <1>1 DEF Answered

\* The keyboard.
LEMMA KeyboardKeeps ==
    ASSUME PromptInv, PromptKeys \/ OnData \/ (\E key \in Keys : Press(key)) PROVE PromptInv'
<1> USE DEF PromptInv
<1>1. /\ tty /\ tty' = tty /\ rl = "none"
      /\ UNCHANGED <<script, piped, rl, queued, line, heard>>
      /\ ~(at = "heard") /\ line = Null
  BY DEF PromptKeys, OnData, Press, pipe, PromptTypes
<1>2. NoLineLost'
  BY <1>1 DEF NoLineLost
<1>3. CASE PromptKeys
  <2>1. /\ at = "ask" /\ at' = "reading" /\ raw' = TRUE /\ cursor' = 1 /\ buf' = <<>>
        /\ UNCHANGED <<prompt, typed>>
    BY <1>3 DEF PromptKeys
  <2>2. prompt \in DOMAIN Asks /\ <<>> \in Seq(Text)
    BY <2>1 DEF PromptTypes
  <2>3. Asks[prompt].kind = "select" => 1 \in 1 .. Asks[prompt].n
    BY <2>2, AsksAskable DEF Askable, Prompts
  <2>4. PromptTypes'
    BY <1>1, <2>1, <2>2, <2>3 DEF PromptTypes
  <2>5. QED BY <1>1, <1>2, <2>1, <2>4 DEF RawWhileReading
<1>4. CASE OnData
  <2> DEFINE s0 == [cursor |-> cursor, buf |-> buf, end |-> Null]
             s == heardKeys(Asks[prompt], s0, splitKeys(typed))
  <2>1. /\ at = "reading" /\ cursor' = s.cursor /\ buf' = s.buf /\ raw' = (s.end = Null)
        /\ \/ s.end = Null /\ UNCHANGED <<prompt, at>>
           \/ s.end = "cancel" /\ at' = "cancelled" /\ UNCHANGED prompt
           \/ /\ s.end = "enter"
              /\ IF Asks[prompt].kind = "input" /\ s.buf = <<>>
                 THEN at' = "ask" /\ UNCHANGED prompt ELSE Answered
        /\ typed' = <<>>
    BY <1>4 DEF OnData, Restored
  <2>2. prompt \in DOMAIN Asks /\ Askable(Asks[prompt])
    BY <2>1, AsksAskable DEF PromptTypes
  <2>3. s0 \in Typing(Asks[prompt])
    BY <1>1, <2>1 DEF PromptTypes, Typing
  <2>4. splitKeys(typed) \in Seq(Key)
    BY SplitsWhole DEF PromptTypes
  <2>5. s \in Typing(Asks[prompt])
    <3> HIDE DEF s0
    <3>1. QED BY <2>2, <2>3, <2>4, KeysTyped
  <2> HIDE DEF s
  <2>6. /\ s.cursor \in Nat /\ (Asks[prompt].kind = "select" => s.cursor \in 1 .. Asks[prompt].n)
        /\ s.buf \in Seq(Text) /\ s.end \in {Null, "enter", "cancel"}
    <3>1. /\ s.cursor \in (IF Asks[prompt].kind = "select" THEN 1 .. Asks[prompt].n ELSE Nat)
          /\ s.buf \in Seq(Text) /\ s.end \in {Null, "enter", "cancel"}
      BY <2>5 DEF Typing
    <3>2. Asks[prompt].n \in Nat
      BY <2>2 DEF Askable, Prompts
    <3>3. QED BY <3>1, <3>2
  <2>7. /\ prompt' \in 1 .. Len(Asks) + 1 /\ (at' # "done" => prompt' \in DOMAIN Asks)
        /\ \/ s.end = Null /\ at' = "reading" /\ prompt' = prompt
           \/ s.end # Null /\ at' \in {"ask", "done", "cancelled"}
    <3>0. prompt \in 1 .. Len(Asks) + 1
      BY DEF PromptTypes
    <3>1. CASE s.end = Null /\ UNCHANGED <<prompt, at>>
      BY <2>1, <2>2, <3>0, <3>1
    <3>2. CASE s.end = "cancel" /\ at' = "cancelled" /\ UNCHANGED prompt
      BY <2>2, <3>0, <3>2, PromptsAssumption
    <3>3. CASE s.end = "enter" /\ at' = "ask" /\ UNCHANGED prompt
      BY <2>2, <3>0, <3>3, PromptsAssumption
    <3>4. CASE s.end = "enter" /\ Answered
      <4>1. /\ prompt' \in 1 .. Len(Asks) + 1 /\ at' \in {"ask", "done"}
            /\ at' # "done" => prompt' \in DOMAIN Asks
        BY <2>2, <3>4, AnsweredTypes
      <4>2. QED BY <3>4, <4>1, PromptsAssumption
    <3>5. QED BY <2>1, <3>1, <3>2, <3>3, <3>4
  <2>8. <<>> \in Seq(Bytes) /\ Whole(<<>>)
    BY DEF Whole
  <2>9. raw' \in BOOLEAN /\ RawWhileReading'
    BY <1>1, <2>1, <2>7 DEF RawWhileReading
  <2>10. PromptTypes'
    BY <1>1, <2>1, <2>6, <2>7, <2>8, <2>9 DEF PromptTypes
  <2>11. QED BY <1>2, <2>9, <2>10
<1>5. CASE \E key \in Keys : Press(key)
  <2>1. PICK k \in Key : typed' = typed \o k
    BY <1>5, PromptsAssumption DEF Press, Key
  <2>2. UNCHANGED <<prompt, at, raw, cursor, buf>>
    BY <1>5 DEF Press
  <2>3. typed' \in Seq(Bytes) /\ Whole(typed')
    BY <2>1, WholeAppend DEF PromptTypes
  <2>4. PromptTypes'
    BY <1>1, <2>2, <2>3 DEF PromptTypes, Whole
  <2>5. QED BY <1>1, <1>2, <2>2, <2>4 DEF RawWhileReading
<1>6. QED BY <1>3, <1>4, <1>5

\* The lines of a script, wherever they are.
Everywhere(h, l, q, p) == h \o (IF l = Null THEN <<>> ELSE <<l>>) \o q \o p

\* Lines that go from one place to the next, in the order they are in.
LEMMA LineTaken ==
    ASSUME NEW h \in Seq(Lines), NEW q \in Seq(Lines), NEW p \in Seq(Lines), NEW l \in Lines
    PROVE  Everywhere(Append(h, l), Null, q, p) = Everywhere(h, l, q, p)
<1>1. Null \notin Lines /\ <<>> \in Seq(Lines)
  BY PromptsAssumption
<1>2. Append(h, l) = h \o <<l>> /\ Append(h, l) \in Seq(Lines)
  BY AppendIsConcat
<1>3. Append(h, l) \o <<>> = Append(h, l)
  BY <1>2
<1>4. QED BY <1>1, <1>2, <1>3 DEF Everywhere

LEMMA LineDequeued ==
    ASSUME NEW h \in Seq(Lines), NEW q \in Seq(Lines), q # <<>>, NEW p \in Seq(Lines)
    PROVE  Everywhere(h, Head(q), Tail(q), p) = Everywhere(h, Null, q, p)
<1>1. Null \notin Lines /\ <<>> \in Seq(Lines) /\ h \o <<>> = h
  BY PromptsAssumption
<1>2. Head(q) \in Lines /\ Tail(q) \in Seq(Lines) /\ <<Head(q)>> \in Seq(Lines) /\ q = <<Head(q)>> \o Tail(q)
  BY HeadAndTail
<1>3. Associates(h, <<Head(q)>>, Tail(q))
  BY <1>2, Associate
<1>4. QED BY <1>1, <1>2, <1>3 DEF Everywhere, Associates

LEMMA LineGiven ==
    ASSUME heard \in Seq(Lines), NEW l \in Lines, NEW a \in Seq(Lines), NEW b \in Seq(Lines)
    PROVE  Everywhere(heard, l, a, b) = Everywhere(heard, Null, <<>>, (<<l>> \o a) \o b)
<1> DEFINE x == <<l>>
<1>1. Null \notin Lines /\ <<>> \in Seq(Lines) /\ heard \o <<>> = heard /\ x \in Seq(Lines)
  BY PromptsAssumption
<1> HIDE DEF x
<1>2. x \o a \in Seq(Lines)
  BY <1>1
<1>3. Associates(heard, x, a) /\ Associates(heard, x \o a, b)
  BY <1>1, <1>2, Associate
<1>4. QED BY <1>1, <1>3 DEF Everywhere, Associates, x

LEMMA LinesQueued ==
    ASSUME heard \in Seq(Lines), line \in Lines \cup {Null}, queued \in Seq(Lines),
           NEW a \in Seq(Lines), NEW b \in Seq(Lines)
    PROVE  Everywhere(heard, line, queued \o a, b) = Everywhere(heard, line, queued, a \o b)
<1> DEFINE m == heard \o (IF line = Null THEN <<>> ELSE <<line>>)
<1>1. m \in Seq(Lines)
  <2>1. (IF line = Null THEN <<>> ELSE <<line>>) \in Seq(Lines) OBVIOUS
  <2>2. QED BY <2>1
<1> HIDE DEF m
<1>2. m \o queued \in Seq(Lines)
  BY <1>1
<1>3. Associates(m, queued, a) /\ Associates(m \o queued, a, b)
  BY <1>1, <1>2, Associate
<1>4. QED BY <1>3 DEF Everywhere, Associates, m

\* The pipe.
LEMMA PipeKeeps ==
    ASSUME PromptInv, PromptLine \/ OnEnd \/ TakeLine \/ (\E k \in 1 .. 6 : OnLines(k)) PROVE PromptInv'
<1> USE DEF PromptInv
<1>1. ~tty /\ tty' = tty /\ script' = script /\ UNCHANGED <<raw, cursor, buf, typed>>
  BY DEF PromptLine, OnEnd, TakeLine, OnLines, keyboard, PromptTypes
<1>2. ~raw
  BY <1>1 DEF RawWhileReading
<1>3. RawWhileReading'
  BY <1>1, <1>2 DEF RawWhileReading
<1>4. script = Everywhere(heard, line, queued, piped)
  BY <1>1 DEF NoLineLost, Everywhere
<1>5. /\ heard \in Seq(Lines) /\ queued \in Seq(Lines) /\ piped \in Seq(Lines)
      /\ line \in Lines \cup {Null} /\ (at = "heard" <=> line # Null) /\ Null \notin Lines
  BY PromptsAssumption DEF PromptTypes
<1>6. ASSUME script = Everywhere(heard', line', queued', piped') PROVE NoLineLost'
  BY <1>1, <1>6 DEF NoLineLost, Everywhere
<1>7. CASE PromptLine
  <2>1. /\ at = "ask" /\ rl' \in {"none", "open", "ended"} /\ UNCHANGED <<prompt, piped, heard>>
        /\ \/ queued # <<>> /\ at' = "heard" /\ line' = Head(queued) /\ queued' = Tail(queued)
           \/ queued = <<>> /\ at' \in {"cancelled", "reading"} /\ UNCHANGED <<line, queued>>
    BY <1>7 DEF PromptLine, PromptTypes
  <2>2. CASE queued # <<>> /\ at' = "heard" /\ line' = Head(queued) /\ queued' = Tail(queued)
    <3>1. line' \in Lines /\ queued' \in Seq(Lines)
      BY <1>5, <2>2
    <3>2. PromptTypes'
      BY <1>1, <1>2, <1>5, <2>1, <2>2, <3>1 DEF PromptTypes, Whole
    <3>3. line = Null
      BY <1>5, <2>1
    <3>4. NoLineLost'
      BY <1>4, <1>5, <1>6, <2>1, <2>2, <3>3, LineDequeued
    <3>5. QED BY <1>3, <3>2, <3>4
  <2>3. CASE queued = <<>> /\ at' \in {"cancelled", "reading"} /\ UNCHANGED <<line, queued>>
    <3>1. PromptTypes'
      BY <1>1, <1>2, <1>5, <2>1, <2>3 DEF PromptTypes, Whole
    <3>2. QED BY <1>3, <1>4, <1>6, <2>1, <2>3, <3>1
  <2>4. QED BY <2>1, <2>2, <2>3
<1>8. CASE OnEnd
  <2>1. /\ rl' = "ended" /\ UNCHANGED <<prompt, piped, queued, line, heard>> /\ at \notin {"done", "cancelled"}
        /\ \/ at = "reading" /\ at' = "cancelled"
           \/ at # "reading" /\ at' = at
    BY <1>8 DEF OnEnd, WaitEnded
  <2>2. PromptTypes'
    BY <1>1, <1>2, <1>5, <2>1 DEF PromptTypes, Whole
  <2>3. QED BY <1>3, <1>4, <1>6, <2>1, <2>2
<1>9. CASE TakeLine
  <2>1. /\ at = "heard" /\ heard' = Append(heard, line) /\ line' = Null
        /\ UNCHANGED <<piped, rl, queued>>
        /\ Answered \/ (at' = "ask" /\ UNCHANGED prompt)
    <3>1. /\ at = "heard" /\ heard' = Append(heard, line) /\ line' = Null
          /\ UNCHANGED <<piped, rl, queued>>
          /\ IF (IF Asks[prompt].kind = "select" THEN line # "x" ELSE line # "none")
             THEN Answered ELSE at' = "ask" /\ UNCHANGED prompt
      BY <1>9 DEF TakeLine
    <3>2. QED BY <3>1, Zenon
  <2>2. prompt \in DOMAIN Asks /\ line \in Lines
    BY <1>5, <2>1 DEF PromptTypes
  <2>3. /\ prompt' \in 1 .. Len(Asks) + 1 /\ at' \in {"ask", "done"}
        /\ at' # "done" => prompt' \in DOMAIN Asks
    BY <2>1, <2>2, AnsweredTypes DEF PromptTypes
  <2>4. heard' \in Seq(Lines)
    BY <1>5, <2>1, <2>2
  <2>5. PromptTypes'
    BY <1>1, <1>2, <1>5, <2>1, <2>3, <2>4 DEF PromptTypes, Whole
  <2>6. NoLineLost'
    BY <1>4, <1>5, <1>6, <2>1, <2>2, LineTaken
  <2>7. QED BY <1>3, <2>5, <2>6
<1>10. CASE \E k \in 1 .. 6 : OnLines(k)
  <2>1. PICK k \in 1 .. Len(piped) : OnLines(k)
    BY <1>10 DEF OnLines
  <2>0. /\ SubSeq(piped, 1, k) = <<Head(piped)>> \o SubSeq(piped, 2, k)
        /\ SubSeq(piped, 1, k) \o SubSeq(piped, k + 1, Len(piped)) = piped
    <3>1. k \in 0 .. Len(piped) OBVIOUS
    <3>2. QED BY <1>5, <3>1, FirstAndRest, CutAt
  <2>2. /\ at \notin {"done", "cancelled"} /\ piped' = SubSeq(piped, k + 1, Len(piped))
        /\ UNCHANGED <<prompt, rl, heard>>
        /\ \/ /\ at = "reading" /\ at' = "heard" /\ line' = Head(piped)
              /\ queued' = queued \o SubSeq(piped, 2, k)
           \/ at # "reading" /\ queued' = queued \o SubSeq(piped, 1, k) /\ UNCHANGED <<at, line>>
    BY <2>1 DEF OnLines, lineQueue
  <2>3. piped' \in Seq(Lines) /\ Head(piped) \in Lines
        /\ SubSeq(piped, 1, k) \in Seq(Lines) /\ SubSeq(piped, 2, k) \in Seq(Lines)
    BY <1>5, <2>2
  <2>4. queued' \in Seq(Lines)
    <3>1. queued \o SubSeq(piped, 1, k) \in Seq(Lines) /\ queued \o SubSeq(piped, 2, k) \in Seq(Lines)
      BY <1>5, <2>3
    <3>2. QED BY <2>2, <3>1
  <2>5. CASE at = "reading"
    <3>1. /\ at' = "heard" /\ line' = Head(piped) /\ line = Null /\ queued = <<>>
          /\ queued' = SubSeq(piped, 2, k)
      BY <1>1, <1>5, <2>2, <2>3, <2>5 DEF PromptTypes
    <3>2. PromptTypes'
      BY <1>1, <1>2, <1>5, <2>2, <2>3, <2>4, <2>5, <3>1 DEF PromptTypes, Whole
    <3>3. Everywhere(heard', line', queued', piped') = Everywhere(heard, Null, <<>>, piped)
      <4>1. piped = (<<Head(piped)>> \o queued') \o piped'
        BY <2>0, <2>2, <3>1
      <4>2. Everywhere(heard, line', queued', piped') = Everywhere(heard, Null, <<>>, (<<line'>> \o queued') \o piped')
        BY <1>5, <2>3, <2>4, <3>1, LineGiven
      <4>3. QED BY <2>2, <3>1, <4>1, <4>2
    <3>4. NoLineLost'
      BY <1>4, <1>6, <3>1, <3>3
    <3>5. QED BY <1>3, <3>2, <3>4
  <2>6. CASE at # "reading"
    <3>1. queued' = queued \o SubSeq(piped, 1, k) /\ UNCHANGED <<at, line>>
      BY <2>2, <2>6
    <3>2. PromptTypes'
      BY <1>1, <1>2, <1>5, <2>2, <2>3, <2>4, <2>6, <3>1 DEF PromptTypes, Whole
    <3>3. Everywhere(heard', line', queued', piped') = Everywhere(heard, line, queued, piped)
      <4>1. Everywhere(heard, line, queued', piped') = Everywhere(heard, line, queued, SubSeq(piped, 1, k) \o piped')
        BY <1>5, <2>3, <3>1, LinesQueued
      <4>2. SubSeq(piped, 1, k) \o piped' = piped
        BY <2>0, <2>2
      <4>3. QED BY <2>2, <3>1, <4>1, <4>2
    <3>4. NoLineLost'
      BY <1>4, <1>6, <3>3
    <3>5. QED BY <1>3, <3>2, <3>4
  <2>7. QED BY <2>5, <2>6
<1>11. QED BY <1>7, <1>8, <1>9, <1>10

\* Each step of a prompt, of the keyboard and of the pipe (tui.ts).
LEMMA PromptStep == ASSUME PromptInv, Next \/ UNCHANGED vars PROVE PromptInv'
<1>1. CASE UNCHANGED vars
  <2>1. UNCHANGED <<tty, prompt, at, raw, cursor, buf, typed, script, piped, rl, queued, line, heard>>
    BY <1>1 DEF vars, keyboard, pipe
  <2>2. PromptTypes'
    BY <2>1 DEF PromptInv, PromptTypes, Whole
  <2>3. QED BY <2>1, <2>2 DEF PromptInv, RawWhileReading, NoLineLost
<1>2. QED BY <1>1, KeyboardKeeps, PipeKeeps DEF Next

\* The parts of PromptsInStep are parts of the invariant.
LEMMA PromptMeans == PromptInv => PromptsInStep
<1> SUFFICES ASSUME PromptInv PROVE TypeOK /\ RawWhileReading /\ NoLineLost /\ NoArrowInText
  BY DEF PromptsInStep
<1>1. buf \in Seq(Bytes)
  BY DEF PromptInv, PromptTypes, Text
<1>2. TypeOK
  BY <1>1 DEF PromptInv, PromptTypes, TypeOK, RawWhileReading
<1>3. NoArrowInText
  BY DEF PromptInv, PromptTypes, NoArrowInText, Text
<1>4. QED BY <1>2, <1>3 DEF PromptInv

\* "Restores the terminal on every exit path", "an arrow key must not land in a
\* password" (tui.ts): however reads cut the keys and the lines, a terminal is raw
\* exactly while a prompt reads keys, no part of an arrow is typed into a text,
\* and no line of a pipe is lost or taken out of its order.
THEOREM PromptsRestore == HostSpec => []PromptsInStep
<1>1. HostInit => PromptInv
  BY PromptInit DEF HostInit
<1>2. PromptInv /\ [HostNext]_<<part, vars, clientVars, gateVars, driverVars, launchVars, loginVars, surfaceVars>>
      => PromptInv'
  BY PromptStep DEF HostNext
<1>3. QED BY <1>1, <1>2, PromptMeans, PTL DEF HostSpec

=============================================================================
