------------------------------- MODULE Launch -------------------------------
(***************************************************************************)
(* Launching claude and reaping it (src/injector/attach.ts, the stop of    *)
(* src/control-cli.ts runHeadless).  The host spawns a claude, tries its   *)
(* port, connects and enables the domains; a failure kills the tree of     *)
(* processes and tries again, a fixed number of times.                     *)
(*                                                                         *)
(* Processes are external: a claude may fork workers and end when it       *)
(* likes, and runs on while the host looks through /proc.  A process that  *)
(* ends leaves its children to init.                                       *)
(***************************************************************************)
EXTENDS Naturals, Sequences, SequencesExt

CONSTANTS
    Null,
    Attempts,   \* attempts of launchAndAttach
    MaxProcs    \* bound: processes ever started

Procs == 1 .. MaxProcs
Host == 0
InitProc == MaxProcs + 1

VARIABLES
    started,  \* processes started so far
    alive,
    parent,
    host,     \* where the host is
    attempt,
    root,     \* child.pid of the attempt
    dead,     \* what the child's exit or error event has set
    listens,  \* processes whose inspector port is open
    doomed,   \* the pids killTree has still to signal, the next one first
    seen      \* history variable: the processes in the tree when a kill began

vars == <<started, alive, parent, host, attempt, root, dead, listens, doomed, seen>>

TypeOK ==
    /\ started \in 0 .. MaxProcs /\ alive \subseteq 1 .. started
    /\ parent \in [Procs -> Procs \cup {Host, InitProc, Null}]
    /\ host \in {"spawn", "port", "connect", "rpc", "ready", "killing", "leaving", "failed", "gone"}
    /\ attempt \in 1 .. Attempts /\ root \in Procs \cup {Null} /\ dead \in BOOLEAN
    /\ listens \subseteq Procs /\ doomed \in Seq(Procs) /\ seen \subseteq Procs

Init ==
    /\ started = 0 /\ alive = {} /\ parent = [p \in Procs |-> Null]
    /\ host = "spawn" /\ attempt = 1 /\ root = Null /\ dead = FALSE
    /\ listens = {} /\ doomed = <<>> /\ seen = {}

-----------------------------------------------------------------------------
(* Processes.                                                              *)

Start(p, by) ==
    /\ p \in Procs /\ started' = p
    /\ alive' = alive \cup {p}
    /\ parent' = [parent EXCEPT ![p] = by]

\* p ends, or is killed: its children are init's.
Ends(p) ==
    /\ alive' = alive \ {p}
    /\ parent' = [q \in Procs |-> IF parent[q] = p THEN InitProc ELSE parent[q]]

Fork(p) ==
    /\ p \in alive
    /\ Start(started + 1, p)
    /\ UNCHANGED <<host, attempt, root, dead, listens, doomed, seen>>

Exit(p) ==
    /\ p \in alive
    /\ Ends(p)
    /\ UNCHANGED <<started, host, attempt, root, dead, listens, doomed, seen>>

Listen(p) ==
    /\ p \in alive /\ p = root /\ p \notin listens
    /\ listens' = listens \cup {p}
    /\ UNCHANGED <<started, alive, parent, host, attempt, root, dead, doomed, seen>>

-----------------------------------------------------------------------------
(* Reaping.                                                                *)

Children(p) == {q \in alive : parent[q] = p}

\* walk(root): the descendants in the order they are met.
walk[n \in 0 .. MaxProcs] == [p \in Procs |->
    IF n = 0 THEN <<>>
    ELSE LET kids == SetToSeq(Children(p))
         IN  FlattenSeq([i \in DOMAIN kids |-> <<kids[i]>> \o walk[n - 1][kids[i]]])]
Descendants == walk[MaxProcs][root]

\* The tree of the child: what every set has that has the child and, with a
\* process, its children.
Family == {p \in Procs : \A S \in SUBSET Procs :
              root \in S /\ (\A q \in S : Children(q) \subseteq S) => p \in S}

\* Mutants of killTree: only the child is killed; only its workers; and the
\* host itself.
killChild == <<root>>
killWorkers == Descendants
killHost == Append(Descendants, Host)

\* killTree: the snapshot, deepest first and the child last.
killTree == Append(Reverse(Descendants), root)

\* The child's exit event.  A kill that is under way holds the only thread.
NoticeExit ==
    /\ root # Null /\ root \notin alive /\ ~dead /\ host \notin {"killing", "leaving", "gone"}
    /\ dead' = TRUE
    /\ UNCHANGED <<started, alive, parent, host, attempt, root, listens, doomed, seen>>

\* treeKiller's kill: nothing is killed if the child's exit was noticed.
Kill(next) ==
    /\ host' = next
    /\ doomed' = IF dead THEN <<>> ELSE killTree
    /\ seen' = IF dead THEN seen ELSE seen \cup Family

\* process.kill of the next pid; one that has ended is passed over.
Signal ==
    /\ host \in {"killing", "leaving"} /\ doomed # <<>>
    /\ doomed' = Tail(doomed)
    /\ IF Head(doomed) \in alive THEN Ends(Head(doomed)) ELSE UNCHANGED <<alive, parent>>
    /\ UNCHANGED <<started, host, attempt, root, dead, listens, seen>>

\* The kill is over: the next attempt, or the error of the last one.
Killed ==
    /\ host \in {"killing", "leaving"} /\ doomed = <<>>
    /\ CASE host = "leaving" -> host' = "gone" /\ UNCHANGED attempt
         [] host = "killing" /\ attempt < Attempts -> host' = "spawn" /\ attempt' = attempt + 1
         [] OTHER -> host' = "failed" /\ UNCHANGED attempt
    /\ UNCHANGED <<started, alive, parent, root, dead, listens, doomed, seen>>

-----------------------------------------------------------------------------
(* launchAndAttach.                                                        *)

Spawn ==
    /\ host = "spawn"
    /\ Start(started + 1, Host)
    /\ root' = started + 1 /\ dead' = FALSE
    /\ host' = "port"
    /\ UNCHANGED <<attempt, listens, doomed, seen>>

\* waitForPort sees the port open; connect and the calls are answered.
Proceed ==
    /\ \/ host = "port" /\ ~dead /\ root \in listens /\ host' = "connect"
       \/ host = "connect" /\ host' = "rpc"
       \/ host = "rpc" /\ host' = "ready"
    /\ root \in alive
    /\ UNCHANGED <<started, alive, parent, attempt, root, dead, listens, doomed, seen>>

\* The port never opens in time or the child is gone; the handshake fails; a
\* call meets its deadline or the end of its socket.
Fail ==
    /\ host \in {"port", "connect", "rpc"}
    /\ Kill("killing")
    /\ UNCHANGED <<started, alive, parent, attempt, root, dead, listens>>

\* stop() of runHeadless, or the host's own exit, with the listener that is
\* the net for hosts that just return.
Leave ==
    /\ host \in {"ready", "port", "connect", "rpc"}
    /\ Kill("leaving")
    /\ UNCHANGED <<started, alive, parent, attempt, root, dead, listens>>

\* The launch has failed, and the error ends the host.
LeaveFailed ==
    /\ host = "failed" /\ host' = "gone"
    /\ UNCHANGED <<started, alive, parent, attempt, root, dead, listens, doomed, seen>>

Next ==
    \/ \E p \in Procs : Fork(p) \/ Exit(p) \/ Listen(p)
    \/ NoticeExit \/ Signal \/ Killed \/ Spawn \/ Proceed \/ Fail \/ Leave \/ LeaveFailed

Spec == Init /\ [][Next]_vars

-----------------------------------------------------------------------------
(* Properties.                                                             *)

\* attach.ts:57, "The snapshot must be taken BEFORE anything dies": whatever
\* ends or is orphaned while the signals go out, when a kill is over nothing
\* lives that was in the tree when it began.
Reaped == host \notin {"killing", "leaving"} => seen \cap alive = {}

\* Attempts do not pile up: the only claude of this host that may live is the
\* child of the last attempt.
OneChild == \A p \in alive : parent[p] = Host => p = root

\* attach.ts:45, "Kill the child AND every process it spawned": the signal to the
\* child, the last of a kill, leaves no process of the child's behind.
NothingLeft ==
    [][doomed = <<root>> /\ doomed' = <<>> /\ root \in alive => Children(root) = {}]_vars

===============================================================================
