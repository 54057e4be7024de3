------------------------------ MODULE CliLogin ------------------------------
(***************************************************************************)
(* Which server control-claude talks to and as whom: resolveAccount        *)
(* (src/control-cli.ts), the login flow and the config file                *)
(* (src/cli-auth.ts), of several terminals at once.                        *)
(*                                                                         *)
(* A token names the backend that issued it.  Left out: user names, the    *)
(* notice about the old credential file, how a typed address is given its  *)
(* scheme (every address is its normal form).  Servers, users and the file *)
(* system are external.                                                    *)
(***************************************************************************)
EXTENDS Naturals, FiniteSets, Subsequences

CONSTANTS
    Urls, Default, \* backends, and the one a fresh install points at
    Tokens,        \* tokens of each backend: [url, n]
    Procs,         \* terminals
    Null,
    MaxRefused,    \* bound: tokens that stop working
    MaxTries       \* bound: logins that fail, of each terminal

VARIABLES
    file,   \* config.json: its configuration, or Null when there is none to parse
    good,   \* external: tokens their backends accept
    at,     \* of each terminal: where it is
    cli,    \* ... its arguments: --server, --login
    config, \* ... the configuration it has loaded
    url,    \* ... the backend it is about
    token,  \* ... the token it holds or asks about
    tries   \* ... logins that failed

vars == <<file, good, at, cli, config, url, token, tries>>

Backend == [url : Urls, token : Tokens \cup {Null}]
Fresh == [current |-> Null, backends |-> <<>>]

IsConfig(c) ==
    /\ c.current \in Urls \cup {Null}
    /\ \A i \in DOMAIN c.backends : c.backends[i] \in Backend
    /\ \A i, j \in DOMAIN c.backends : c.backends[i].url = c.backends[j].url => i = j

TypeOK ==
    /\ file # Null => IsConfig(file)
    /\ \A p \in Procs : IsConfig(config[p])
    /\ at \in [Procs -> {"start", "check", "choose", "recheck", "obtain", "verify", "save",
                         "write", "launched", "cancelled"}]
    /\ url \in [Procs -> Urls \cup {Null}] /\ token \in [Procs -> Tokens \cup {Null}]

Init ==
    /\ file = Null /\ good = Tokens
    /\ at = [p \in Procs |-> "start"] /\ tries = [p \in Procs |-> 0]
    /\ cli \in [Procs -> [server : Urls \cup {Null}, login : BOOLEAN]]
    /\ config = [p \in Procs |-> Fresh]
    /\ url = [p \in Procs |-> Null] /\ token = [p \in Procs |-> Null]

-----------------------------------------------------------------------------
(* The configuration.                                                      *)

\* loadConfig: a file that is not there, or cannot be parsed, is none.
Loaded == IF file = Null THEN Fresh ELSE file

\* Mutant of findBackend: the backend in use, whichever was asked for.
firstBackend(c, u) == IF c.backends = <<>> THEN Null ELSE c.backends[1].token

findBackend(c, u) ==
    LET found == {i \in DOMAIN c.backends : c.backends[i].url = u}
    IN  IF found = {} THEN Null
        ELSE c.backends[CHOOSE i \in found : \A j \in found : i <= j].token

\* Mutant of rememberBackend: what was known of the backend stays.
rememberTwice(c, u, t) ==
    [current |-> u, backends |-> <<[url |-> u, token |-> t]>> \o c.backends]

rememberBackend(c, u, t) ==
    [current |-> u,
     backends |-> <<[url |-> u, token |-> t]>> \o SubseqAt(c.backends,
                     {i \in DOMAIN c.backends : c.backends[i].url # u})]

Orelse(x, y) == IF x # Null THEN x ELSE y

-----------------------------------------------------------------------------
(* A terminal.                                                             *)

To(p, where) == at' = [at EXCEPT ![p] = where]

\* resolveAccount, up to its first question to the server.
Start(p) ==
    /\ at[p] = "start"
    /\ config' = [config EXCEPT ![p] = Loaded]
    /\ LET u == Orelse(cli[p].server, Orelse(Loaded.current, Default))
           known == findBackend(Loaded, u)
       IN  IF ~cli[p].login /\ known # Null
           THEN To(p, "check") /\ url' = [url EXCEPT ![p] = u] /\ token' = [token EXCEPT ![p] = known]
           ELSE To(p, "choose") /\ UNCHANGED <<url, token>>
    /\ UNCHANGED <<file, good, cli, tries>>

\* checkToken: a server out of reach cannot say.
Says(p) == {"unreachable", IF token[p] \in good /\ token[p].url = url[p] THEN "ok" ELSE "rejected"}

\* Mutant of Refused: no answer is taken for a refusal.
RefusedOrAway(status) == status # "ok"
Refused(status) == status = "rejected"

CheckSaved(p, status) ==
    /\ at[p] = "check" /\ status \in Says(p)
    /\ To(p, IF Refused(status) THEN "choose" ELSE "launched")
    /\ UNCHANGED <<file, good, cli, config, url, token, tries>>

\* runLoginFlow: the backend asked for, or one of the list, or a new one; the
\* token it has is worth a round trip.
Choose(p, u) ==
    /\ at[p] = "choose" /\ (cli[p].server # Null => u = cli[p].server)
    /\ url' = [url EXCEPT ![p] = u]
    /\ token' = [token EXCEPT ![p] = findBackend(config[p], u)]
    /\ To(p, IF findBackend(config[p], u) # Null THEN "recheck" ELSE "obtain")
    /\ UNCHANGED <<file, good, cli, config, tries>>

Recheck(p, status) ==
    /\ at[p] = "recheck" /\ status \in Says(p)
    /\ To(p, IF Refused(status) THEN "obtain" ELSE "save")
    /\ UNCHANGED <<file, good, cli, config, url, token, tries>>

\* obtainToken: a login, which returns a token of this server, or a paste,
\* which may be of any.
Login(p, t) ==
    /\ at[p] = "obtain" /\ t \in good /\ t.url = url[p]
    /\ token' = [token EXCEPT ![p] = t] /\ To(p, "save")
    /\ UNCHANGED <<file, good, cli, config, url, tries>>

\* Mutant of Pasted: a pasted token is saved as it is.
PastedUnseen == "save"
Pasted == "verify"

Paste(p, t) ==
    /\ at[p] = "obtain" /\ tries[p] < MaxTries
    /\ token' = [token EXCEPT ![p] = t] /\ To(p, Pasted)
    /\ UNCHANGED <<file, good, cli, config, url, tries>>

Verify(p, status) ==
    /\ at[p] = "verify" /\ status \in Says(p)
    /\ To(p, IF status = "ok" THEN "save" ELSE "obtain")
    /\ tries' = [tries EXCEPT ![p] = IF status = "ok" THEN @ ELSE @ + 1]
    /\ UNCHANGED <<file, good, cli, config, url, token>>

\* Ctrl-C, or the end of the input, at a prompt.
Cancel(p) ==
    /\ at[p] = "obtain" \/ (at[p] = "choose" /\ cli[p].server = Null)
    /\ To(p, "cancelled")
    /\ UNCHANGED <<file, good, cli, config, url, token, tries>>

\* saveConfig: writeFileSync empties the file and then fills it, with what this
\* terminal loaded and what it has learned since.
Truncate(p) ==
    /\ at[p] = "save" /\ file' = Null /\ To(p, "write")
    /\ UNCHANGED <<good, cli, config, url, token, tries>>
Save(p) ==
    /\ at[p] = "write" /\ To(p, "launched")
    /\ file' = rememberBackend(config[p], url[p], token[p])
    /\ UNCHANGED <<good, cli, config, url, token, tries>>

\* External: a token stops working.
Refuse(t) ==
    /\ t \in good /\ Cardinality(Tokens \ good) < MaxRefused
    /\ good' = good \ {t}
    /\ UNCHANGED <<file, at, cli, config, url, token, tries>>

Next ==
    \/ \E p \in Procs :
         \/ Start(p) \/ Cancel(p) \/ Truncate(p) \/ Save(p)
         \/ \E u \in Urls : Choose(p, u)
         \/ \E t \in Tokens : Login(p, t) \/ Paste(p, t)
         \/ \E s \in {"ok", "rejected", "unreachable"} : CheckSaved(p, s) \/ Recheck(p, s) \/ Verify(p, s)
    \/ \E t \in Tokens : Refuse(t)

Spec == Init /\ [][Next]_vars

-----------------------------------------------------------------------------
(* Properties.                                                             *)

\* "A token belongs to a specific backend" (cli-auth.ts): claude is never
\* launched, and nothing is ever saved, with the token of another.
OwnToken ==
    /\ \A p \in Procs : at[p] = "launched" => token[p].url = url[p]
    /\ file # Null => \A i \in DOMAIN file.backends :
         file.backends[i].token # Null => file.backends[i].token.url = file.backends[i].url

\* "The TUI appears on a first run, after --login, or when a token stops
\* working" (control-cli.ts, resolveAccount), and not because a server is out
\* of reach.
AsksOnlyIfNeeded ==
    \A p \in Procs : at[p] \notin {"start", "check", "launched"} /\ ~cli[p].login =>
        LET u == Orelse(cli[p].server, Orelse(config[p].current, Default))
        IN  findBackend(config[p], u) # Null => findBackend(config[p], u) \notin good

===============================================================================
