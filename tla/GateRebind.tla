----------------------------- MODULE GateRebind -----------------------------
(***************************************************************************)
(* Injection (src/injector/gate-rebind.ts, with the gates of anchors.ts):  *)
(* claude is spawned in the inspector's wait state, every gate is located  *)
(* and gets a breakpoint, claude is released, and each pause rebinds what  *)
(* its gate reads and resumes.  Headless, the pause before a worker is     *)
(* spawned has the worker start in the wait state, too, and it is attached *)
(* to beside the pauses of its parent.  Interactive, a gate on a hot path  *)
(* loses its breakpoint at its first hit.                                  *)
(*                                                                         *)
(* claude and its worker are external: which gates a version of its bundle *)
(* has, which it passes and how often, and calls that fail.  claude spawns *)
(* one worker: each hit of the spawner would start another attach, and all *)
(* of them have one port.                                                  *)
(***************************************************************************)
EXTENDS Integers, FiniteSets

CONSTANTS
    Null,
    Gates,        \* ids of the profile's gates
    Line, Col,    \* where each is in the bundle
    Rebinds,      \* how many statements rebind it
    Sticky,       \* gates that keep their breakpoint
    Spawner,      \* "spawner.spawn"
    Interactive,  \* launchInteractiveWithGatesRebound
    Slack,        \* columns a pending breakpoint may resolve forward
    MaxHits       \* bound: pauses

VARIABLES
    app,      \* claude: wait, run, paused, left paused or dead, and where
    bps,      \* the breakpoints it has
    host,     \* where the launch is
    found,    \* the gates the locator finds in this version
    todo,     \* gates without a report yet
    report,   \* the reports
    handler,  \* the handler of the pause
    bound,    \* history variable: the pauses that ran each gate's rebinds
    hits,
    worker,   \* the worker's process
    attach    \* where attachChildAndRebind is

vars == <<app, bps, host, found, todo, report, handler, bound, hits, worker, attach>>

Report == [located : BOOLEAN, id : BOOLEAN, hit : BOOLEAN, ok : BOOLEAN]
NoReport == [located |-> FALSE, id |-> FALSE, hit |-> FALSE, ok |-> TRUE]
Idle == [gate |-> Null, step |-> "none", left |-> 0, ok |-> TRUE]

TypeOK ==
    /\ app.state \in {"wait", "run", "paused", "left", "dead"} /\ app.at \in Gates \cup {Null}
    /\ bps \subseteq Gates /\ found \subseteq Gates /\ todo \subseteq Gates
    /\ host \in {"connect", "locate", "arm", "ready", "failed"}
    /\ report \in [Gates -> Report] /\ bound \in [Gates -> Nat]
    /\ handler.gate \in Gates \cup {Null} /\ handler.left \in Nat
    /\ handler.step \in {"none", "paused", "eval", "remove", "resume"}
    /\ handler.step # "none" <=> app.state = "paused"
    /\ worker \in {"none", "wait", "run", "paused", "left", "bound"}
    /\ attach \in {"none", "port", "locate", "arm", "release", "done", "failed"}

Init ==
    /\ app = [state |-> "wait", at |-> Null, col |-> 0]
    /\ bps = {} /\ host = "connect"
    /\ found \in SUBSET Gates /\ todo = Gates
    /\ report = [g \in Gates |-> NoReport]
    /\ handler = Idle /\ bound = [g \in Gates |-> 0] /\ hits = 0
    /\ worker = "none" /\ attach = "none"

-----------------------------------------------------------------------------
(* The launch.                                                             *)

\* The port opens, the client connects and the domains are enabled.
Connected ==
    /\ host = "connect" /\ app.state = "wait"
    /\ host' = "locate"
    /\ UNCHANGED <<app, bps, found, todo, report, handler, bound, hits, worker, attach>>

\* The locator's answer is polled for.
Located ==
    /\ host = "locate" /\ app.state = "wait"
    /\ host' = "arm"
    /\ UNCHANGED <<app, bps, found, todo, report, handler, bound, hits, worker, attach>>

\* setBreakpointByUrl for the next gate; a gate that was not found, or gets no
\* breakpoint, is reported.
Arm(g) ==
    /\ host = "arm" /\ app.state = "wait" /\ g \in todo
    /\ todo' = todo \ {g}
    /\ \/ /\ g \in found /\ bps' = bps \cup {g}
          /\ report' = [report EXCEPT ![g].located = TRUE, ![g].id = TRUE]
       \/ UNCHANGED <<bps, report>>
    /\ UNCHANGED <<app, host, found, handler, bound, hits, worker, attach>>

\* Mutant of Armed: claude is released once one gate is armed.
ArmedOne == todo # Gates
Armed == todo = {}

\* Inspector.initialized.
Release ==
    /\ host = "arm" /\ app.state = "wait" /\ Armed
    /\ host' = "ready" /\ app' = [app EXCEPT !.state = "run"]
    /\ UNCHANGED <<bps, found, todo, report, handler, bound, hits, worker, attach>>

\* A call fails, the locator never answers or finds no main script, or the
\* child dies: it is killed and the launch has failed.
Fail ==
    /\ host \in {"connect", "locate", "arm"}
    /\ host' = "failed" /\ app' = [app EXCEPT !.state = "dead"]
    /\ UNCHANGED <<bps, found, todo, report, handler, bound, hits, worker, attach>>

-----------------------------------------------------------------------------
(* Pauses.                                                                 *)

\* claude comes to a breakpoint, or a few columns past it.
Pause(g) ==
    /\ app.state = "run" /\ g \in bps /\ hits < MaxHits
    /\ g = Spawner => worker = "none"
    /\ \E k \in 0 .. Slack : app' = [state |-> "paused", at |-> g, col |-> Col[g] + k]
    /\ hits' = hits + 1
    /\ handler' = [Idle EXCEPT !.step = "paused"]
    /\ UNCHANGED <<bps, host, found, todo, report, bound, worker, attach>>

\* Mutant of Fresh: a gate is taken at every pause.
Always(g) == TRUE

\* Interactive, a gate that was hit is passed over unless it is sticky.
Fresh(g) == Interactive => report[g].id /\ (g \in Sticky \/ ~report[g].hit)

\* Mutant of Candidate: any gate on the line.
OnLine(g) == g \in found /\ Fresh(g) /\ Line[g] = Line[app.at]

\* The gates of the line that begin before the pause; a gate whose breakpoint
\* was refused has a place all the same.
Candidate(g) == g \in found /\ Fresh(g) /\ Line[g] = Line[app.at] /\ app.col >= Col[g] - 4
Distance(g) ==
    IF Interactive /\ app.col < Col[g] THEN Col[g] - app.col ELSE app.col - Col[g]
Match == {g \in Gates : Candidate(g) /\ \A h \in Gates : Candidate(h) => Distance(g) <= Distance(h)}

\* The handler's first stretch, up to its first await.
First(g) == [handler EXCEPT !.gate = g, !.step = "eval", !.left = Rebinds[g]]
Handle ==
    /\ handler.step = "paused"
    /\ IF Match = {}
       THEN handler' = [handler EXCEPT !.step = "resume"] /\ UNCHANGED <<report, bound>>
       ELSE \E g \in Match :
                /\ handler' = First(g)
                /\ report' = [report EXCEPT ![g].hit = TRUE]
                /\ bound' = [bound EXCEPT ![g] = @ + 1]
    /\ UNCHANGED <<app, bps, host, found, todo, hits, worker, attach>>

\* Mutant of OnError: a call that fails ends the handler.
OnErrorStop(h) == Idle
OnError(h) == [h EXCEPT !.left = @ - 1, !.ok = FALSE]

\* evaluateOnCallFrame of the next statement: an error is kept for the report.
Evaluate ==
    /\ handler.step = "eval" /\ handler.left > 0
    /\ handler' \in {[handler EXCEPT !.left = @ - 1], OnError(handler)}
    /\ UNCHANGED <<app, bps, host, found, todo, report, bound, hits, worker, attach>>

\* After the last: the report, and headless, at the spawner, the worker's
\* attach, which runs beside.
Evaluated ==
    /\ handler.step = "eval" /\ handler.left = 0
    /\ report' = [report EXCEPT ![handler.gate].ok = handler.ok]
    /\ handler' = [handler EXCEPT
           !.step = IF Interactive /\ handler.gate \notin Sticky THEN "remove" ELSE "resume"]
    /\ attach' = IF handler.gate = Spawner THEN "port" ELSE attach
    /\ UNCHANGED <<app, bps, host, found, todo, bound, hits, worker>>

Removed == bps \ {handler.gate}

\* removeBreakpoint; it may fail, and the pause is resumed all the same.
Remove ==
    /\ handler.step = "remove"
    /\ bps' \in {Removed, bps}
    /\ handler' = [handler EXCEPT !.step = "resume"]
    /\ UNCHANGED <<app, host, found, todo, report, bound, hits, worker, attach>>

\* Debugger.resume.  Past the spawner, claude spawns its worker, which waits
\* for a debugger if its environment was changed.  The call may fail, which is
\* swallowed: claude is left paused.
Resume ==
    /\ handler.step = "resume"
    /\ handler' = Idle
    /\ \/ /\ app' = [state |-> "run", at |-> Null, col |-> 0]
          /\ worker' = IF worker = "none" /\ app.at = Spawner
                       THEN IF handler.gate = Spawner /\ handler.ok THEN "wait" ELSE "run"
                       ELSE worker
       \/ app' = [app EXCEPT !.state = "left"] /\ UNCHANGED worker
    /\ UNCHANGED <<bps, host, found, todo, report, bound, hits, attach>>

-----------------------------------------------------------------------------
(* attachChildAndRebind.                                                   *)

Attached ==
    /\ attach = "port" /\ worker = "wait"
    /\ attach' = "locate"
    /\ UNCHANGED <<app, bps, host, found, todo, report, handler, bound, hits, worker>>

\* No port in time, or a call that fails, the release included: the error is
\* logged or swallowed, no more.
AttachFails ==
    /\ attach \in {"port", "locate", "arm", "release"}
    /\ attach' = "failed"
    /\ UNCHANGED <<app, bps, host, found, todo, report, handler, bound, hits, worker>>

\* Mutant of Unlocated: a worker whose gate is not found is left.
UnlocatedLeft == "failed"
Unlocated == "release"

\* The gate of the worker is found or not; not found, it is released anyway.
WorkerLocated ==
    /\ attach = "locate"
    /\ attach' \in {"arm", Unlocated}
    /\ UNCHANGED <<app, bps, host, found, todo, report, handler, bound, hits, worker>>

WorkerArmed ==
    /\ attach = "arm" /\ attach' = "done"
    /\ worker' = "paused"
    /\ UNCHANGED <<app, bps, host, found, todo, report, handler, bound, hits>>

\* The worker, released, comes to its gate, which is rebound, and goes on; its
\* resume may fail, too.
WorkerBound ==
    /\ worker = "paused" /\ worker' \in {"bound", "left"}
    /\ UNCHANGED <<app, bps, host, found, todo, report, handler, bound, hits, attach>>

WorkerReleased ==
    /\ attach = "release" /\ attach' = "done"
    /\ worker' = "run"
    /\ UNCHANGED <<app, bps, host, found, todo, report, handler, bound, hits>>

HandlerStep == Handle \/ Evaluate \/ Evaluated \/ Remove \/ Resume
WorkerStep == Attached \/ WorkerLocated \/ WorkerArmed \/ WorkerBound \/ WorkerReleased

Next ==
    \/ Connected \/ Located \/ Release \/ Fail
    \/ \E g \in Gates : Arm(g) \/ Pause(g)
    \/ HandlerStep \/ WorkerStep \/ AttachFails

Spec == Init /\ [][Next]_vars

\* A call is answered, refused or meets its deadline (InspectorClient).
Fairness == WF_vars(HandlerStep) /\ WF_vars(WorkerStep)
FairSpec == Spec /\ Fairness

-----------------------------------------------------------------------------
(* Properties.                                                             *)

\* anchors.ts:20, "we locate every gate before releasing - zero startup race":
\* while claude runs, each gate has its breakpoint, has had its hit, or is
\* reported as one that has none.
NoStartupRace ==
    app.state \in {"run", "paused"} =>
        \A g \in found : g \in bps \/ report[g].hit \/ (g \notin todo /\ ~report[g].located)

\* A pause is taken for the gate it is at, though JSC does not say which that
\* is, as long as gates are further apart than a breakpoint may move: the one
\* exception is a gate that was hit before and kept its breakpoint because
\* removing it failed.
RightGate ==
    handler.gate # Null /\ handler.gate # app.at =>
        Interactive /\ app.at \notin Sticky /\ report[app.at].hit

\* "we rebind on the first hit and immediately REMOVE the breakpoint"
\* (gate-rebind.ts, interactive): no gate of a hot path is rebound twice, even
\* if its breakpoint stays.
HotOnce == Interactive => \A g \in Gates \ Sticky : bound[g] <= 1

\* claude is stopped for good by nothing but the resume call itself: whatever
\* its rebinds and the removal of its breakpoint return, each pause is resumed,
\* or left because Debugger.resume failed.
Stopped == app.state = "paused"
PausesEnd == Stopped ~> ~Stopped

\* A worker that waits for a debugger is released and runs, whether its gate is
\* found or not, unless the attach to it fails: then nothing releases it.
Held == worker \in {"wait", "paused"} /\ attach # "failed"
WorkerRuns == Held ~> ~Held

===============================================================================
