-------------------------------- MODULE MCHost --------------------------------
(* The programs of the host, on small instances, one of them in each behaviour:  *)
(*   "terminal"    Terminal: a menu and then a text, keyed in or piped.          *)
(*   "calls"       InspectorClient: two calls, answered in any order.            *)
(*   "events"      InspectorClient: one call among events, pings and junk.       *)
(*   "headless"    GateRebind: two gates on one line, one with two rebinds, and  *)
(*                 the worker's spawner; any of them may not be found.           *)
(*   "interactive" GateRebind: the same gates, one of which keeps its breakpoint. *)
(*   "driver"      Driver: two environments and three turns.                     *)
(*   "launch"      Launch: two attempts and five processes.                      *)
(*   "login"       CliLogin: two terminals, two backends.                        *)
(*   "surface"     Surface: a release before, within and after the measured ones. *)
EXTENDS Terminal

CONSTANTS
    g1, g2, g3,
    Part, \* the instance of a behaviour
    \* GateRebind
    Gates, Line, Col, Rebinds, Sticky, Spawner, Slack, MaxHits,
    \* Driver
    Envs, MaxTurns, MaxRegisters, MaxDrops,
    \* Launch
    Attempts, MaxProcs,
    \* CliLogin
    Urls, Default, Tokens, Terminals, MaxRefused, MaxTries,
    \* Surface
    Patches, Names, MaxDrift

VARIABLES part,
    sock, connected, timer, closed, calls, pending, rx, rxPend, msg, msgOpcode, messages, pongs,
    wire, target,
    app, bps, host, found, todo, report, handler, bound, hits, worker, attach,
    phase, last, due, pushes, registers, reached, stream, drops, turn, inbox, working, asking, wait, ended,
    started, alive, parent, launch, attempt, root, dead, listens, doomed, seen,
    file, good, stage, cli, config, url, token, tries,
    patch, facts, name, version, profile, note, located

TestAsks == <<[kind |-> "select", n |-> 2], [kind |-> "input", n |-> 0]>>
TestKeys ==
    {<<"esc", "[", "A">>, <<"esc", "[", "B">>, <<"cr">>, <<"del">>, <<"x">>, <<"1">>, <<"ctrlC">>}
TestScripts == UNION {[1..n -> Lines] : n \in 0..4}

clientVars == <<sock, connected, timer, closed, calls, pending, rx, rxPend, msg, msgOpcode,
                messages, pongs, wire, target>>
gateVars   == <<app, bps, host, found, todo, report, handler, bound, hits, worker, attach>>
driverVars == <<phase, last, due, pushes, registers, reached, stream, drops, turn, inbox, working,
                asking, wait, ended>>
launchVars == <<started, alive, parent, launch, attempt, root, dead, listens, doomed, seen>>
loginVars  == <<file, good, stage, cli, config, url, token, tries>>
surfaceVars == <<patch, facts, name, version, profile, note, located>>

Calls == INSTANCE InspectorClient WITH
    heard <- messages, Sizes <- {1}, MaxCalls <- 2, MaxTold <- 0, MaxWire <- 8

Events == INSTANCE InspectorClient WITH
    heard <- messages, Sizes <- {1}, MaxCalls <- 1, MaxTold <- 2, MaxWire <- 6

TestLine == [g \in {g1, g2, g3} |-> IF g = g3 THEN 2 ELSE 1]
TestCol == [g \in {g1, g2, g3} |-> IF g = g1 THEN 10 ELSE IF g = g2 THEN 20 ELSE 5]
TestRebinds == [g \in {g1, g2, g3} |-> IF g = g1 THEN 2 ELSE 1]
TestTokens == [url : Urls, n : {1}]

\* Two gates of a line are further apart than a breakpoint may move and a pause
\* is tolerated early.
ASSUME GatesAssumption ==
    /\ Null \notin Gates
    /\ Line \in [Gates -> Nat] /\ Col \in [Gates -> Nat] /\ Rebinds \in [Gates -> Nat]
    /\ Slack \in Nat
    /\ \A g, h \in Gates : g # h /\ Line[g] = Line[h] =>
          Col[g] > Col[h] + Slack + 4 \/ Col[h] > Col[g] + Slack + 4

Headless == INSTANCE GateRebind WITH Sticky <- {}, Interactive <- FALSE

Interactive == INSTANCE GateRebind WITH Spawner <- Null, Interactive <- TRUE

\* No environment is the absence of one.
ASSUME EnvsAssumption == Null \notin Envs /\ MaxTurns \in Nat

Drive == INSTANCE Driver WITH connected <- reached

\* Null is no process, nor the host or init.
ASSUME ProcsAssumption ==
    /\ Attempts \in Nat \ {0} /\ MaxProcs \in Nat
    /\ Null \notin 0 .. MaxProcs + 1

Tree == INSTANCE Launch WITH host <- launch

\* Null is no backend and no token; a token is of a backend.
ASSUME TokensAssumption ==
    /\ Null \notin Urls \cup Tokens /\ Default \in Urls
    /\ \A t \in Tokens : t.url \in Urls

Login == INSTANCE CliLogin WITH at <- stage, Procs <- Terminals

Bundle == INSTANCE Surface WITH found <- located

\* A part that another behaviour is about is at one of its initial states.
HostInit ==
    /\ part \in Part
    /\ Init /\ (part # "terminal" => tty)
    /\ Login!Init /\ (part # "login" => cli = [p \in Terminals |-> [server |-> Null, login |-> FALSE]])
    /\ Bundle!Init /\ (part # "surface" => patch = 238)
    /\ Calls!Init /\ Drive!Init /\ Tree!Init
    /\ IF part = "interactive" THEN Interactive!Init ELSE Headless!Init
    /\ part \notin {"headless", "interactive"} => found = {}

HostNext ==
    \/ /\ part = "terminal" /\ Next
       /\ UNCHANGED <<part, clientVars, gateVars, driverVars, launchVars, loginVars, surfaceVars>>
    \/ /\ part = "calls" /\ Calls!Next
       /\ UNCHANGED <<part, vars, gateVars, driverVars, launchVars, loginVars, surfaceVars>>
    \/ /\ part = "events" /\ Events!Next
       /\ UNCHANGED <<part, vars, gateVars, driverVars, launchVars, loginVars, surfaceVars>>
    \/ /\ part = "headless" /\ Headless!Next
       /\ UNCHANGED <<part, vars, clientVars, driverVars, launchVars, loginVars, surfaceVars>>
    \/ /\ part = "interactive" /\ Interactive!Next
       /\ UNCHANGED <<part, vars, clientVars, driverVars, launchVars, loginVars, surfaceVars>>
    \/ /\ part = "driver" /\ Drive!Next
       /\ UNCHANGED <<part, vars, clientVars, gateVars, launchVars, loginVars, surfaceVars>>
    \/ /\ part = "launch" /\ Tree!Next
       /\ UNCHANGED <<part, vars, clientVars, gateVars, driverVars, loginVars, surfaceVars>>
    \/ /\ part = "login" /\ Login!Next
       /\ UNCHANGED <<part, vars, clientVars, gateVars, driverVars, launchVars, surfaceVars>>
    \/ /\ part = "surface" /\ Bundle!Next
       /\ UNCHANGED <<part, vars, clientVars, gateVars, driverVars, launchVars, loginVars>>

\* The fairness of each module, of the behaviours it is in.
HostFairness ==
    /\ Fairness
    /\ \A id \in Calls!Ids : WF_clientVars(part = "calls" /\ Calls!Timeout(id))
    /\ WF_clientVars(part = "events" /\ Events!Timeout(1))
    /\ WF_gateVars(part = "headless" /\ Headless!HandlerStep)
    /\ WF_gateVars(part = "headless" /\ Headless!WorkerStep)
    /\ WF_gateVars(part = "interactive" /\ Interactive!HandlerStep)
    /\ WF_driverVars(part = "driver" /\ Drive!TurnTimeout)
    /\ \A e \in Envs : WF_driverVars(part = "driver" /\ Drive!Push(e))

HostSpec ==
    /\ HostInit
    /\ [][HostNext]_<<part, vars, clientVars, gateVars, driverVars, launchVars, loginVars, surfaceVars>>
    /\ HostFairness

\* The terminal (tui.ts) is raw exactly while a prompt reads keys, so that claude
\* gets a sane one; a line that was piped in goes to a prompt or waits for one;
\* and no key that is a command ends up in a text.
PromptsInStep == part = "terminal" => TypeOK /\ RawWhileReading /\ NoLineLost /\ NoArrowInText

\* However TCP cuts the stream, the reader of ws-client.ts never loses its place
\* in it, and what it has handed on is what the target said, in its order; and a
\* call is in _pending exactly while its promise waits.
ClientInStep ==
    /\ part = "calls" => Calls!TypeOK /\ Calls!Reassembled /\ Calls!PendingIsWaiting
    /\ part = "events" => Events!TypeOK /\ Events!Reassembled

\* anchors.ts:20, "we locate every gate before releasing - zero startup race":
\* while claude runs, each gate has its breakpoint, has had its hit, or is
\* reported as one that has none.  A pause is taken for the gate it is at
\* (gate-rebind.ts), though JSC does not say which that is; and no gate of a hot
\* path is rebound twice.
GatesRebound ==
    /\ part = "headless" => Headless!TypeOK /\ Headless!NoStartupRace /\ Headless!RightGate
    /\ part = "interactive" =>
         Interactive!TypeOK /\ Interactive!NoStartupRace /\ Interactive!RightGate /\ Interactive!HotOnce

\* A `result` "resolves the in-flight turn" (cli.ts): a wait is ended by the
\* result of its own turn, or by one of an earlier turn that was given up; and
\* a worker is left waiting for an answer only if its stream was down.
TurnsInStep == part = "driver" => Drive!TypeOK /\ Drive!OwnOrLate /\ Drive!AskedIsAnswered

\* attach.ts:57, "The snapshot must be taken BEFORE anything dies": when a kill is
\* over nothing lives that was in the tree when it began; and attempts do not
\* pile up (launchAndAttach): the only claude of this host that may live is the
\* child of the last.
TreeReaped == part = "launch" => Tree!TypeOK /\ Tree!Reaped /\ Tree!OneChild

\* "A token belongs to a specific backend" (cli-auth.ts): claude is never
\* launched, and nothing is ever saved, with the token of another; and a
\* password is asked for "on a first run, after --login, or when a token stops
\* working" (control-cli.ts), not because a server is out of reach.
OwnToken == part = "login" => Login!TypeOK /\ Login!OwnToken /\ Login!AsksOnlyIfNeeded

\* Every version measured (profiles.ts) is injected whole; "A bad guess degrades
\* to a loud, specific miss, not a silent wrong-rebind"; and a guess costs no
\* gate but those whose code changed.
ProfileFits == part = "surface" =>
    Bundle!TypeOK /\ Bundle!MeasuredIsWhole /\ Bundle!MissIsLoud /\ Bundle!GuessCostsLittle

\* The first or second of those who may wait in a behaviour waits.
Waits(k) ==
    \/ k = 1 /\ part = "terminal" /\ Prompting
    \/ part \in {"calls", "events"} /\ Calls!Unsettled(k)
    \/ k = 1 /\ part \in {"headless", "interactive"} /\ Headless!Stopped
    \/ k = 2 /\ part = "headless" /\ Headless!Held
    \/ k = 1 /\ part = "driver" /\ Drive!InTurn

\* Nobody who waits on a program of the host waits for ever: a prompt ends with
\* its input (tui.ts), "every RPC gets a deadline" (ws-client.ts:21), a claude that
\* is stopped at a gate is resumed whatever its rebinds return, unless the resume
\* itself fails, and a worker that waits for a debugger is released unless the
\* attach to it fails (gate-rebind.ts), and the conversation goes on whatever is
\* lost (cli.ts, sendAndWait).
NobodyHangs == \A k \in {1, 2} : Waits(k) ~> ~Waits(k)

===============================================================================
