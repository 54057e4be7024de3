------------------------------ MODULE ChatSession ------------------------------
(***************************************************************************)
(* One session open on one screen (web/src/session.ts over model.ts): a    *)
(* worker that emits, a live stream to the screen, and a user who sends,   *)
(* answers, stops and reopens.                                             *)
(*                                                                         *)
(* The worker is external; it emits what the events of docs/EVENTS.md and  *)
(* the tests show it to.  The relay is the one WebChannel promises: live   *)
(* events in order, and a reopening that replays what is stored.           *)
(***************************************************************************)
EXTENDS Transcript

CONSTANTS
    Scenes,     \* kinds of things that happen in one behaviour, and in it ...
    MaxEvents,  \* ... bound: events the worker emits
    MaxWire,    \* bound: events not yet reduced
    MaxSends,   \* bound: texts sent from the screen
    MaxReopens  \* bound: reopenings

ASSUME ChatAssumption == MaxEvents \in [Scenes -> Nat] /\ {MaxWire, MaxSends, MaxReopens} \subseteq Nat

VARIABLES
    scene,   \* what happens in this behaviour
    worker,  \* the turn, the draft and what is open at the worker
    log,     \* events stored
    emitted, \* events emitted
    wire,    \* events relayed and not yet reduced
    inbox,   \* texts that reached the worker and that it has not taken
    screen,  \* TranscriptState
    used     \* counts of sends and reopenings

vars == <<scene, worker, log, emitted, wire, inbox, screen, used>>

Calls == {"c1", "c2", "c3"}
Texts == {"yes"}
Stream == {"prose", "thinking"}

Has(kind) == kind \in scene

Init ==
    /\ scene \in Scenes
    /\ worker = [turn |-> FALSE, gone |-> FALSE, draft |-> <<>>, messages |-> 0,
                 calls |-> [c \in Calls |-> "new"], kind |-> [c \in Calls |-> "none"],
                 tasks |-> {}]
    /\ log = <<>> /\ emitted = 0 /\ wire = <<>> /\ inbox = <<>>
    /\ screen = initialState
    /\ used = [sends |-> 0, reopens |-> 0]

-----------------------------------------------------------------------------
(* The worker.                                                             *)

\* Deltas are relayed and never stored (store.ts, UNSTORED_EVENT_TYPES).
Emit(e) ==
    /\ ~worker.gone /\ emitted < MaxEvents[scene] /\ Len(wire) < MaxWire
    /\ emitted' = emitted + 1
    /\ wire' = Append(wire, e)
    /\ log' = IF e.type = "stream_event" THEN log ELSE Append(log, e)
    /\ UNCHANGED <<scene, screen, used>>

User(texts, results) == [type |-> "user", texts |-> texts, results |-> results]
System(subtype) == [type |-> "system", subtype |-> subtype]
Assistant(blocks) == [type |-> "assistant", blocks |-> blocks]
Quiet == worker.draft = <<>>
CallsIn(states) == {c \in Calls : worker.calls[c] \in states}
Unsettled == CallsIn({"open", "asking"})

\* A turn typed in the terminal, or a local command whose echo nobody sees.
Type(text) ==
    /\ Has("typing") /\ ~worker.turn
    /\ Emit(User(<<text>>, <<>>))
    /\ worker' = [worker EXCEPT !.turn = TRUE]
    /\ UNCHANGED inbox

LocalCommand ==
    /\ Has("commands") /\ ~worker.turn
    /\ Emit(User(<<>>, <<>>))
    /\ UNCHANGED <<worker, inbox>>

\* A text sent from a screen starts a turn or joins the one that runs.
Take ==
    /\ inbox # <<>> /\ Quiet
    /\ Emit(User(<<Head(inbox)>>, <<>>))
    /\ inbox' = Tail(inbox)
    /\ worker' = [worker EXCEPT !.turn = TRUE]

\* A message: its chunks, the stop, then the whole.
Delta(block) ==
    /\ Has("stream") /\ worker.turn /\ Len(worker.draft) < 2
    /\ worker.draft # <<>> => Last(worker.draft).block # "stopped"
    /\ LET chunk == <<worker.messages, Len(worker.draft)>>
       IN  /\ Emit([type |-> "stream_event", delta |-> TRUE, block |-> block, chunk |-> chunk])
           /\ worker' = [worker EXCEPT !.draft = Append(@, [block |-> block, chunk |-> chunk])]
    /\ UNCHANGED inbox

MessageStop ==
    /\ worker.draft # <<>> /\ Last(worker.draft).block # "stopped"
    /\ Emit([type |-> "stream_event", delta |-> FALSE])
    /\ worker' = [worker EXCEPT !.draft = Append(@, [block |-> "stopped"])]
    /\ UNCHANGED inbox

\* The blocks of a draft, chunks of one kind joined.
TextBlock(block, text) == [type |-> IF block = "prose" THEN "text" ELSE "thinking", text |-> text]
Whole(draft) ==
    FoldLeft(LAMBDA blocks, c :
               LET b == TextBlock(c.block, <<c.chunk>>)
               IN  IF blocks # <<>> /\ Last(blocks).type = b.type
                   THEN [blocks EXCEPT ![Len(blocks)].text = @ \o b.text]
                   ELSE Append(blocks, b),
             <<>>, Front(draft))

Message ==
    /\ \/ /\ Quiet /\ worker.turn /\ Has("prose")
          /\ \/ Emit(Assistant(<<TextBlock("prose", <<<<worker.messages, 0>>>>)>>))
             \/ Emit(Assistant(<<TextBlock("thinking", <<>>),
                                 TextBlock("prose", <<<<worker.messages, 0>>>>)>>))
       \/ /\ ~Quiet /\ Last(worker.draft).block = "stopped"
          /\ Emit(Assistant(Whole(worker.draft)))
    /\ worker' = [worker EXCEPT !.draft = <<>>, !.messages = @ + 1]
    /\ UNCHANGED inbox

ToolUseBlock(c, tool) ==
    [type |-> "tool_use", id |-> c, tool |-> tool, task |-> "c1",
     status |-> IF tool = "create" THEN "pending" ELSE "deleted"]

\* Calls, alone or in parallel; a question asks its user at once.
Call(c, tool) ==
    /\ Has(tool) /\ worker.turn /\ Quiet /\ worker.calls[c] = "new"
    /\ \A b \in Calls : b # c /\ worker.calls[b] = "new" => c = "c1" \/ b = "c3"
    /\ tool = "update" => worker.calls["c1"] = "over"
    /\ Emit(Assistant(<<ToolUseBlock(c, tool)>>))
    /\ worker' = [worker EXCEPT !.calls[c] = "open", !.kind[c] = tool]
    /\ UNCHANGED inbox

Ask(c) ==
    /\ worker.calls[c] = "open" /\ worker.kind[c] \in {"plain", "question"}
    /\ worker.kind[c] = "plain" => Has("ask")
    /\ CallsIn({"asking"}) = {}
    /\ Emit([type |-> "control_request", request |-> c, id |-> c,
             question |-> worker.kind[c] = "question"])
    /\ worker' = [worker EXCEPT !.calls[c] = "asking"]
    /\ UNCHANGED inbox

\* The same request again, as the bridge sends it on every connection.
AskAgain(c) ==
    /\ worker.calls[c] = "asking" /\ Has("again")
    /\ Emit([type |-> "control_request", request |-> c, id |-> c,
             question |-> worker.kind[c] = "question"])
    /\ UNCHANGED <<worker, inbox>>

AnsweredInTerminal(c) ==
    /\ worker.calls[c] = "asking"
    /\ Emit([type |-> "control_cancel_request", request |-> c])
    /\ worker' = [worker EXCEPT !.calls[c] = "open"]
    /\ UNCHANGED inbox

Finish(c, failed) ==
    /\ worker.calls[c] = "open" \/ (worker.calls[c] = "asking" /\ failed)
    /\ worker.kind[c] # "question" \/ ~failed
    /\ Emit(User(<<>>, <<[id |-> c, failed |-> failed]>>))
    /\ worker' = [worker EXCEPT !.calls[c] = "over"]
    /\ UNCHANGED inbox

Over(w) == [w EXCEPT !.turn = FALSE, !.draft = <<>>,
                     !.calls = [c \in Calls |-> IF @[c] \in {"open", "asking"}
                                                THEN "over" ELSE @[c]]]

\* A result ends a turn, an error in the middle of whatever it was doing; a
\* summary may come instead; a reset ends it and the conversation.
EndTurn ==
    /\ worker.turn
    /\ \/ Unsettled = {} /\ Quiet /\ Emit([type |-> "result", failed |-> FALSE])
       \/ Emit([type |-> "result", failed |-> TRUE])
       \/ /\ Has("summary") /\ Unsettled = {} /\ Quiet
          /\ \E detail \in BOOLEAN :
               Emit([type |-> "system", subtype |-> "post_turn_summary", detail |-> detail])
       \/ Has("reset") /\ Emit([type |-> "reset"])
    /\ worker' = Over(worker)
    /\ UNCHANGED inbox

\* A final text, after the result of its turn.
Trailing ==
    /\ Has("trailing") /\ ~worker.turn /\ log # <<>> /\ Last(log).type = "result"
    /\ Emit(Assistant(<<TextBlock("prose", <<<<worker.messages, 0>>>>)>>))
    /\ worker' = [worker EXCEPT !.messages = @ + 1]
    /\ UNCHANGED inbox

\* Background tasks outlive their turn.
StartTask(t) ==
    /\ Has("tasks") /\ t \notin worker.tasks
    /\ Emit([type |-> "system", subtype |-> "task_started", task |-> t])
    /\ worker' = [worker EXCEPT !.tasks = @ \cup {t}]
    /\ UNCHANGED inbox

ReportTask(t) ==
    /\ Has("tasks") /\ t \in worker.tasks
    /\ \/ /\ \/ \E s \in {"completed", "failed"} :
                   Emit([type |-> "system", subtype |-> "task_notification", task |-> t, status |-> s])
             \/ Emit([type |-> "system", subtype |-> "tasks_changed", tasks |-> worker.tasks \ {t}])
          /\ worker' = [worker EXCEPT !.tasks = @ \ {t}]
       \/ /\ Emit([type |-> "system", subtype |-> "task_updated", task |-> t, status |-> "paused"])
          /\ UNCHANGED worker
       \/ /\ Emit([type |-> "system", subtype |-> "task_started", task |-> t])
          /\ UNCHANGED worker
    /\ UNCHANGED inbox

\* Compaction and reasoning happen inside a turn, other notices at any time.
Notice ==
    /\ Quiet
    /\ \/ /\ Has("compaction") /\ worker.turn
          /\ \/ \E s \in {"thinking_tokens", "compacting", "compact_boundary"} : Emit(System(s))
             \/ \E f \in BOOLEAN : Emit([type |-> "system", subtype |-> "compact_result", failed |-> f])
       \/ /\ Has("notices")
          /\ \/ \E s \in {"notice", "line"} : Emit(System(s))
             \/ Emit([type |-> "unknown", shape |-> "new"])
             \/ \E a \in BOOLEAN : Emit([type |-> "rate_limit", allowed |-> a])
             \/ Emit([type |-> "ignored"])
    /\ UNCHANGED <<worker, inbox>>

ShutDown ==
    /\ Has("exit")
    /\ Emit(System("shutting_down"))
    /\ worker' = [Over(worker) EXCEPT !.gone = TRUE, !.tasks = {}]
    /\ UNCHANGED inbox

WorkerStep ==
    \/ \E t \in Texts : Type(t)
    \/ LocalCommand \/ Take \/ MessageStop \/ Message
    \/ EndTurn \/ Trailing \/ Notice \/ ShutDown
    \/ \E b \in Stream : Delta(b)
    \/ \E c \in Calls :
          \/ \E tool \in {"plain", "hidden", "question", "create", "update"} : Call(c, tool)
          \/ Ask(c) \/ AskAgain(c) \/ AnsweredInTerminal(c)
          \/ \E failed \in BOOLEAN : Finish(c, failed)
    \/ \E t \in {"t1", "t2"} : StartTask(t) \/ ReportTask(t)

-----------------------------------------------------------------------------
(* The screen.                                                             *)

Receive ==
    /\ wire # <<>>
    /\ screen' = reduce(screen, Head(wire), FALSE)
    /\ wire' = Tail(wire)
    /\ UNCHANGED <<scene, worker, log, emitted, inbox, used>>

\* send; a frame sent while the socket is not open is dropped.
Send(text) ==
    /\ Has("sends") /\ used.sends < MaxSends
    /\ used' = [used EXCEPT !.sends = @ + 1]
    /\ screen' = localSend(screen, text)
    /\ \/ inbox' = Append(inbox, text)
       \/ Has("lossy") /\ UNCHANGED inbox
    /\ UNCHANGED <<scene, worker, log, emitted, wire>>

\* answerPermission and onAnswerQuestion.
Answered(c) ==
    worker' = [worker EXCEPT !.calls[c] = IF @ = "asking" THEN "open" ELSE @]

answerPermission ==
    /\ screen.live.permission # Null
    /\ Answered(screen.live.permission)
    /\ screen' = clearPermission(screen)
    /\ UNCHANGED <<scene, log, emitted, wire, inbox, used>>

onAnswerQuestion(i) ==
    /\ screen.items[i].kind = "question" /\ ~screen.items[i].answered
    /\ Answered(screen.items[i].request)
    /\ screen' = markQuestionAnswered(screen, screen.items[i].request)
    /\ UNCHANGED <<scene, log, emitted, wire, inbox, used>>

\* The worker hears of it later, if ever, and ends the turn then.
Stop ==
    /\ Has("stop") /\ screen.live.busy
    /\ screen' = stop(screen)
    /\ UNCHANGED <<scene, worker, log, emitted, wire, inbox, used>>

\* The effect of useSession again, or the backfill of a reconnection.
Reopen ==
    /\ used.reopens < MaxReopens
    /\ used' = [used EXCEPT !.reopens = @ + 1]
    /\ screen' = Replayed(log, ~worker.gone)
    /\ wire' = <<>>
    /\ UNCHANGED <<scene, worker, log, emitted, inbox>>

Next ==
    \/ WorkerStep \/ Receive \/ answerPermission \/ Stop \/ Reopen
    \/ \E t \in Texts : Send(t)
    \/ \E i \in DOMAIN screen.items : onAnswerQuestion(i)

Spec == Init /\ [][Next]_vars

-----------------------------------------------------------------------------
(* Properties.                                                             *)

ItemKinds == {"user", "prose", "thinking", "tools", "todo", "question", "bgtask",
              "note", "unknown"}

TypeOK ==
    /\ \A i \in DOMAIN screen.items : screen.items[i].kind \in ItemKinds
    /\ DOMAIN screen.index \subseteq Calls
    /\ screen.pendingWeb \in Seq(Texts)
    /\ screen.live \in [busy : BOOLEAN, thinking : BOOLEAN, compacting : BOOLEAN,
                        running : Calls \cup {Null}, permission : Calls \cup {Null},
                        asked : Calls \cup {Null}]
    /\ (screen.live.permission = Null) = (screen.live.asked = Null)

\* A tool_result finds its card (model.ts, index): whatever was appended,
\* replaced or regrouped since, the place noted for a call is that call's, and
\* no call has two cards.
IndexFindsCard ==
    \A i \in Positions(screen, "tools") : \A j \in DOMAIN screen.items[i].calls :
        screen.index[screen.items[i].calls[j].id] = <<i, j>>

\* "The tool currently held open" (model.ts, Live): the activity line never
\* names a call that has settled.
LineIsOpen ==
    screen.live.running # Null => Open(Card(screen, screen.live.running))

\* How often a text stands in a sequence, and is echoed in events.
Times(texts, text) == Cardinality({i \in DOMAIN texts : texts[i] = text})
EchoesIn(e, text) == IF e.type = "user" THEN Times(e.texts, text) ELSE 0
Echoes(events, text) == FoldLeft(LAMBDA n, e : n + EchoesIn(e, text), 0, events)

\* No text sent or typed is lost: the bubbles of a text are its echoes that have
\* arrived and the sends still waiting for theirs.  And none is shown twice: once
\* the worker has taken everything there is a bubble for each echo, whether a
\* text came from here, from the terminal or from both at once.
BubblesOf(d, text) == {i \in Positions(d, "user") : d.items[i].text = text}
Bubbles(text) == Cardinality(BubblesOf(screen, text))
BubblesMatchEchoes ==
    \A t \in Texts :
        /\ Bubbles(t) + Echoes(wire, t) = Echoes(log, t) + Times(screen.pendingWeb, t)
        /\ wire = <<>> /\ inbox = <<>> /\ ~Has("lossy") => Bubbles(t) = Echoes(log, t)

\* A bubble that says queued is of a text whose echo has not come.
QueuedOf(d, text) == {i \in BubblesOf(d, text) : d.items[i].state = "queued"}
QueuedIsPending ==
    \A t \in Texts : Cardinality(QueuedOf(screen, t)) <= Times(screen.pendingWeb, t)

\* A task and a question have one card each, however often they are announced.
OneCardEach ==
    \A i, j \in DOMAIN screen.items :
        /\ screen.items[i].kind = "bgtask" /\ screen.items[j].kind = "bgtask"
             /\ screen.items[i].task = screen.items[j].task => i = j
        /\ screen.items[i].kind = "question" /\ screen.items[j].kind = "question"
             /\ screen.items[i].request = screen.items[j].request => i = j

\* The newest task list on the screen is the list as it is.
TodoCardFresh ==
    screen.todos # <<>> => screen.items[Max(Positions(screen, "todo"))].tasks = screen.todos

\* Between turns, with everything received.
AtRest == wire = <<>> /\ ~worker.turn

\* What a screen says, apart from the order of bubbles and the drafts of a
\* stream the bridge does not relay.
Said(s) ==
    [calls |-> [c \in {x \in Calls : HasCard(s, x)} |-> Card(s, c).status],
     tasks |-> {<<s.items[i].task, s.items[i].status>> : i \in Positions(s, "bgtask")},
     prose |-> SelectSeq(s.items, LAMBDA i : i.kind = "prose"),
     todos |-> s.todos]

\* "What you see after reopening a session is byte-identical to what you saw
\* while it happened" (model.ts): between turns, reopening would change no card,
\* no text and no list, and answer no question less.
ReplayAgrees ==
    AtRest /\ ~worker.gone /\ ~Has("stream") =>
        LET replayed == Replayed(log, TRUE)
        IN  /\ Said(screen) = Said(replayed)
            /\ \A i \in Positions(replayed, "question") :
                 replayed.items[i].answered =>
                   \A j \in Positions(screen, "question") :
                     screen.items[j].request = replayed.items[i].request => screen.items[j].answered

\* "Nothing, live or rendered, may keep claiming to be in flight" (model.ts,
\* endTurn): between turns no card runs or waits, no caret blinks, no sheet is
\* open; a task card runs only while its task does.
NothingInFlight ==
    /\ AtRest /\ ~worker.gone =>
         /\ \A c \in Calls : HasCard(screen, c) => ~Open(Card(screen, c))
         /\ \A i \in Positions(screen, "prose") \cup Positions(screen, "thinking") :
              ~screen.items[i].streaming
         /\ screen.live.permission = Null /\ screen.live.running = Null
         /\ ~screen.live.thinking /\ ~screen.live.compacting
    /\ wire = <<>> => \A i \in Positions(screen, "bgtask") :
         screen.items[i].status = "running" => screen.items[i].task \in worker.tasks

\* "The streamed draft is replaced in place, never appended twice"
\* (docs/MOBILE-UI.md): between turns no chunk of text is shown in two places.
Shows(i, chunk) ==
    screen.items[i].kind \in Stream /\ Contains(screen.items[i].text, chunk)
NeverTwice ==
    AtRest => \A i, j \in DOMAIN screen.items : \A m, k \in 0 .. MaxEvents[scene] :
        Shows(i, <<m, k>>) /\ Shows(j, <<m, k>>) => i = j

===============================================================================
