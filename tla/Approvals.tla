------------------------------ MODULE Approvals ------------------------------
(***************************************************************************)
(* One session as its worker, the server and a phone that watches it see   *)
(* it: the turn, the tool calls, and the permission requests that hold a   *)
(* call back until somebody answers (src/server/store.ts foldDigest,       *)
(* clearPendingApproval, load; index.ts POST /worker/events and            *)
(* sendControlResponse; web/src/model.ts, session.ts).                     *)
(*                                                                         *)
(* The worker is external: it is modelled by the events it is seen to      *)
(* emit, reduced to the kinds the three readers tell apart.                *)
(*                                                                         *)
(* The hop between the server and the phone is instantaneous downwards     *)
(* (WebChannel is about that one) and a queue upwards; the pushes of the   *)
(* session list are left out.                                              *)
(***************************************************************************)
EXTENDS Naturals, Subsequences

CONSTANTS
    Tools,       \* tool_use_ids of the session
    Hidden,      \* those of calls to a tool in HIDDEN_TOOLS
    Null,
    HasPool,     \* a PostgreSQL pool is configured
    MaxTurns,    \* bound: turns and local commands
    MaxBatch,    \* bound: events in one POST
    MaxDetach,   \* bound: times the worker's event stream is lost
    MaxRestarts, \* bound: restarts of the server
    MaxReopens,  \* bound: times the phone reconnects or reopens the session
    MayExit      \* the worker may shut down

VARIABLES
    turns,      \* turns and commands so far
    worker,     \* what claude is doing
    call,       \* where each of its tool calls is
    outbox,     \* events it has emitted and not posted
    attached,   \* its event stream is open at both ends
    wire,       \* answers on that stream
    posting,    \* the batch of a POST suspended between relay and append
    stored,     \* events appended to the history
    digest,     \* s.digest, with s.currentToolUseId and s.pendingTools
    dirty,      \* dirtyActivity holds the session
    saved,      \* the status in the digest column
    sheet,      \* the permission sheet the phone shows
    answers,    \* answers on their way from the phone
    used        \* counts of losses, restarts and reopenings

workerVars == <<turns, worker, call>>
rowVars    == <<dirty, saved>>
phoneVars  == <<sheet, answers>>
vars == <<workerVars, outbox, attached, wire, posting, stored, digest, rowVars,
          phoneVars, used>>

Statuses == {"none", "running", "over"}
Kinds == {"init", "prompt", "echo", "call", "ask", "cancel", "finish",
          "result", "summary", "shutdown", "reset"}
Event == [kind : Kinds, tool : Tools \cup {Null}]
Digest == [turn : BOOLEAN, status : Statuses,
           current : Tools \cup {Null}, pending : SUBSET Tools]

E(kind, tool) == [kind |-> kind, tool |-> tool]

\* Calls that have not finished, and the one the worker waits to be allowed.
Running == {t \in Tools : call[t] \in {"open", "asking", "answered"}}
Waiting == {t \in Tools : call[t] = "asking"}

TypeOK ==
    /\ turns \in 0 .. MaxTurns
    /\ worker \in {"idle", "turn", "gone"}
    /\ call \in [Tools -> {"new", "open", "asking", "answered", "over"}]
    /\ outbox \in Seq(Event) /\ posting \in Seq(Event) /\ stored \in Seq(Event)
    /\ attached \in BOOLEAN /\ dirty \in BOOLEAN
    /\ wire \in Seq(Tools) /\ answers \in Seq(Tools)
    /\ digest \in Digest
    /\ saved \in Statuses
    /\ sheet \in Tools \cup {Null}
    /\ used \in [{"detach", "restart", "reopen"} -> Nat]

Blank == [turn |-> FALSE, status |-> "none", current |-> Null, pending |-> {}]

Init ==
    /\ turns = 0 /\ worker = "idle" /\ call = [t \in Tools |-> "new"]
    /\ outbox = <<>> /\ wire = <<>> /\ posting = <<>> /\ stored = <<>>
    /\ attached = TRUE
    /\ digest = Blank
    /\ dirty = FALSE /\ saved = "none"
    /\ sheet = Null /\ answers = <<>>
    /\ used = [u \in {"detach", "restart", "reopen"} |-> 0]

-----------------------------------------------------------------------------
(* What the three readers make of an event.                                *)

\* Mutants of Cleared, Asked, Finished and Settled: nothing is cleared; the
\* request is filed without its id; any result drives the row; a call that is
\* running is not settled.
ClearedNothing(d) == d
AskedNothing(d, t) == [d EXCEPT !.pending = @ \cup {Null}]
FinishedAny(d, t) == [d EXCEPT !.pending = @ \ {t}, !.status = "over"]
SettledTurn(d) == [d EXCEPT !.turn = FALSE, !.pending = {}]

\* The pending set when a request is withdrawn or answered, asked, and run;
\* only the newest visible call drives the status.
Cleared(d)  == [d EXCEPT !.pending = {}]
Asked(d, t) == [d EXCEPT !.pending = @ \cup {t}]
Finished(d, t) == [d EXCEPT !.pending = @ \ {t},
                            !.status = IF t = d.current THEN "over" ELSE @]

\* foldDigest: the four ends of a turn settle everything.
Settled(d) == [d EXCEPT !.turn = FALSE, !.pending = {},
                        !.status = IF @ = "running" THEN "over" ELSE @]

Fold(d, e) ==
    CASE e.kind = "prompt" -> [d EXCEPT !.turn = TRUE]
      [] e.kind = "call"   -> IF e.tool \in Hidden THEN d
                              ELSE [d EXCEPT !.turn = TRUE, !.status = "running",
                                             !.current = e.tool]
      [] e.kind = "ask"    -> Asked(d, e.tool)
      [] e.kind = "cancel" -> Cleared(d)
      [] e.kind = "finish" -> Finished(d, e.tool)
      [] e.kind \in {"result", "summary", "shutdown", "reset"} -> Settled(d)
      [] OTHER             -> d

\* Mutant of Withdraws: a request answered in the terminal stays open.
RunsOnly(e) == e.kind = "finish"

Withdraws(e) == e.kind \in {"cancel", "finish"}

\* The permission sheet under the browser's reducer, live or replayed.
ShowSheet(open, e) ==
    CASE e.kind = "ask" -> e.tool
      [] Withdraws(e) -> IF open = e.tool THEN Null ELSE open
      [] e.kind \in {"result", "reset"} -> Null
      [] OTHER -> open

\* turnActiveIn: the last event that is not neutral decides.
EndsTurn(e) == e.kind \in {"result", "summary", "shutdown", "reset"}
ShowsTool(e) == e.kind \in {"finish", "call"}   \* mutant of ShowsTurn: no user messages
ShowsTurn(e) == e.kind \in {"prompt", "echo", "finish", "call"}
turnActiveIn(events) ==
    \E i \in DOMAIN events :
        /\ ShowsTurn(events[i])
        /\ \A j \in i + 1 .. Len(events) : ~EndsTurn(events[j])

-----------------------------------------------------------------------------
(* The worker.                                                             *)

Emit(events) == outbox' = outbox \o events
ServerAndPhone ==
    <<attached, wire, posting, stored, digest, rowVars, phoneVars, used>>

\* A turn begins; an init that names another directory may come first.
StartTurn ==
    /\ worker = "idle" /\ turns < MaxTurns
    /\ turns' = turns + 1
    /\ worker' = "turn"
    /\ \/ Emit(<<E("prompt", Null)>>)
       \/ Emit(<<E("init", Null), E("prompt", Null)>>)
    /\ UNCHANGED <<call, ServerAndPhone>>

\* A local command: its echoes are user messages nobody sees.
LocalCommand ==
    /\ worker = "idle" /\ turns < MaxTurns
    /\ turns' = turns + 1
    /\ Emit(<<E("echo", Null)>>)
    /\ UNCHANGED <<worker, call, ServerAndPhone>>

Call(t) ==
    /\ worker = "turn" /\ Waiting = {} /\ call[t] = "new"
    /\ call' = [call EXCEPT ![t] = "open"]
    /\ Emit(<<E("call", t)>>)
    /\ UNCHANGED <<turns, worker, ServerAndPhone>>

\* Requests are serialised: one at a time.
Ask(t) ==
    /\ Waiting = {} /\ call[t] = "open" /\ t \notin Hidden
    /\ call' = [call EXCEPT ![t] = "asking"]
    /\ Emit(<<E("ask", t)>>)
    /\ UNCHANGED <<turns, worker, ServerAndPhone>>

\* Somebody answers in the terminal.
AnswerInTerminal(t) ==
    /\ call[t] = "asking"
    /\ call' = [call EXCEPT ![t] = "answered"]
    /\ Emit(<<E("cancel", t)>>)
    /\ UNCHANGED <<turns, worker, ServerAndPhone>>

\* An answer from the phone arrives; one to another request is rejected.
ReadAnswer ==
    /\ wire # <<>>
    /\ call' = [call EXCEPT ![Head(wire)] = IF @ = "asking" THEN "answered" ELSE @]
    /\ wire' = Tail(wire)
    /\ UNCHANGED <<turns, worker, outbox, attached, posting, stored, digest,
                   rowVars, phoneVars, used>>

Finish(t) ==
    /\ t \in Running \ Waiting
    /\ call' = [call EXCEPT ![t] = "over"]
    /\ Emit(<<E("finish", t)>>)
    /\ UNCHANGED <<turns, worker, ServerAndPhone>>

Stopped == [t \in Tools |-> IF t \in Running THEN "over" ELSE call[t]]

\* The turn ends with a result or only a summary, or the conversation is reset
\* under it.
EndTurn ==
    /\ worker = "turn"
    /\ \/ Running = {} /\ Emit(<<E("result", Null)>>)
       \/ Running = {} /\ Emit(<<E("summary", Null)>>)
       \/ Emit(<<E("reset", Null)>>)
    /\ worker' = "idle"
    /\ call' = Stopped
    /\ UNCHANGED <<turns, ServerAndPhone>>

\* claude exits, at any moment.
Exit ==
    /\ MayExit /\ worker # "gone"
    /\ Emit(<<E("shutdown", Null)>>)
    /\ worker' = "gone"
    /\ call' = Stopped
    /\ UNCHANGED <<turns, ServerAndPhone>>

WorkerStep ==
    \/ StartTurn \/ LocalCommand \/ ReadAnswer \/ EndTurn \/ Exit
    \/ \E t \in Tools : Call(t) \/ Ask(t) \/ AnswerInTerminal(t) \/ Finish(t)

-----------------------------------------------------------------------------
(* The server.                                                             *)

Changed(batch) == \E i \in DOMAIN batch : batch[i].kind = "init"

\* POST /worker/events: the batch is relayed and the session touched, then a
\* changed init saves the session, then the batch is folded and stored.  Only
\* the save waits for anything, and only with a pool.
Post(k) ==
    LET batch == SubSeq(outbox, 1, k)
    IN  /\ posting = <<>> /\ k <= Len(outbox)
        /\ outbox' = SubSeq(outbox, k + 1, Len(outbox))
        /\ sheet' = Reduce(ShowSheet, sheet, batch)
        /\ dirty' = HasPool
        /\ \/ /\ HasPool /\ Changed(batch)
              /\ posting' = batch
              /\ UNCHANGED <<stored, digest>>
           \/ /\ ~(HasPool /\ Changed(batch))
              /\ digest' = Reduce(Fold, digest, batch)
              /\ stored' = stored \o batch
              /\ UNCHANGED posting
        /\ UNCHANGED <<workerVars, attached, wire, saved, answers, used>>

ResumePost ==
    /\ posting # <<>>
    /\ digest' = Reduce(Fold, digest, posting)
    /\ stored' = stored \o posting
    /\ posting' = <<>>
    /\ UNCHANGED <<workerVars, outbox, attached, wire, rowVars, phoneVars, used>>

\* sendControlResponse: every pending request is forgotten, then the answer is
\* sent, if there is a stream to send it on.
HandleAnswer ==
    /\ answers # <<>>
    /\ answers' = Tail(answers)
    /\ digest' = Cleared(digest)
    /\ wire' = IF attached THEN Append(wire, Head(answers)) ELSE wire
    /\ dirty' = (dirty \/ (HasPool /\ attached))
    /\ UNCHANGED <<workerVars, outbox, attached, posting, stored, saved,
                   sheet, used>>

\* The flush timer writes the digest of the sessions touched since.
Flush ==
    /\ dirty
    /\ dirty' = FALSE
    /\ saved' = digest.status
    /\ UNCHANGED <<workerVars, outbox, attached, wire, posting, stored, digest,
                   phoneVars, used>>

\* The stream comes or goes; both touch the session.
LoseStream ==
    /\ attached /\ used["detach"] < MaxDetach
    /\ used' = [used EXCEPT !["detach"] = @ + 1]
    /\ attached' = FALSE
    /\ wire' = <<>>
    /\ dirty' = HasPool
    /\ UNCHANGED <<workerVars, outbox, posting, stored, digest, saved, phoneVars>>

OpenStream ==
    /\ ~attached /\ worker # "gone"
    /\ attached' = TRUE
    /\ dirty' = HasPool
    /\ UNCHANGED <<workerVars, outbox, wire, posting, stored, digest, saved,
                   phoneVars, used>>

\* An orderly stop, which flushes what is dirty, and a start that loads the
\* column.  The worker lives on; the phone reconnects.
Restart ==
    LET column == IF dirty THEN digest.status ELSE saved
        loaded == [Blank EXCEPT !.status = column]
    IN  /\ HasPool /\ used["restart"] < MaxRestarts
        /\ posting = <<>>
        /\ used' = [used EXCEPT !["restart"] = @ + 1]
        /\ digest' = loaded
        /\ dirty' = FALSE /\ saved' = column
        /\ attached' = FALSE
        /\ wire' = <<>> /\ answers' = <<>>
        /\ sheet' = Reduce(ShowSheet, Null, stored)
        /\ UNCHANGED <<workerVars, outbox, posting, stored>>

ServerStep ==
    \/ \E k \in 1 .. MaxBatch : Post(k)
    \/ ResumePost \/ HandleAnswer \/ Flush \/ LoseStream \/ OpenStream \/ Restart

-----------------------------------------------------------------------------
(* The phone.                                                              *)

\* The sheet is answered and closes at once.
Answer ==
    /\ sheet # Null
    /\ answers' = Append(answers, sheet)
    /\ sheet' = Null
    /\ UNCHANGED <<workerVars, outbox, attached, wire, posting, stored, digest,
                   rowVars, used>>

\* The phone reconnects or reopens the session: the backfill replaces what it
\* shows.
Reopen ==
    /\ used["reopen"] < MaxReopens
    /\ used' = [used EXCEPT !["reopen"] = @ + 1]
    /\ sheet' = Reduce(ShowSheet, Null, stored)
    /\ UNCHANGED <<workerVars, outbox, attached, wire, posting, stored, digest,
                   rowVars, answers>>

Next == WorkerStep \/ ServerStep \/ Answer \/ Reopen

Spec == Init /\ [][Next]_vars

-----------------------------------------------------------------------------
(* Properties.                                                             *)

\* Everything the worker emitted has been folded.
Quiet == outbox = <<>> /\ posting = <<>>

\* A turn is over, and the server has been told.
Reported == Quiet /\ worker # "turn"

\* A row "stuck on running (or on a pending-approval badge) is the failure
\* mode" (store.ts, settle): once a turn is over and reported, the row says so,
\* whatever was answered or lost meanwhile.
NoStuckRow ==
    Reported => digest.status # "running" /\ digest.pending = {} /\ ~digest.turn

\* The same as far as the fold answers for it: a status loaded by a restart is
\* left aside, badge and turn are not.
RowSettles ==
    Reported => /\ digest.pending = {} /\ ~digest.turn
                /\ used["restart"] = 0 => digest.status # "running"

\* "Only the newest call drives the row" (store.ts, foldDigest): in a turn the
\* row is running exactly while the newest visible call is, however the results
\* of parallel and hidden calls come in.
RowIsNewestCall ==
    Quiet /\ worker = "turn" => (digest.status = "running" <=> digest.current \in Running)

\* "The list badge must drop as soon as we answer" (index.ts,
\* sendControlResponse): with no answer on the stream, it is lit only for the
\* request the worker waits on.
BadgeNotStale == Quiet /\ wire = <<>> => digest.pending \subseteq Waiting

\* A session the server reports as mid-turn offers a Stop button when it is
\* reopened: what the digest calls a turn, turnActiveIn does.
StopButtonOffered == digest.turn => turnActiveIn(stored)

\* The sheet a phone shows is of the request the worker waits on, or else the
\* phone "keeps a sheet whose answer the worker would reject" (model.ts,
\* controlCancel).
SheetIsLive == Quiet /\ sheet # Null => sheet \in Waiting

\* The pending set holds the requests "whose can_use_tool is still unanswered"
\* (store.ts, SessionRecord): with nothing on its way, what the worker waits on.
PendingIsUnanswered ==
    Quiet /\ wire = <<>> /\ answers = <<>> => digest.pending = Waiting

=============================================================================
