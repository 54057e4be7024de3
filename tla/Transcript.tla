------------------------------ MODULE Transcript ------------------------------
(***************************************************************************)
(* The browser's reducer (web/src/model.ts, transcript.ts): the events of  *)
(* a session folded into what its screen shows, one payload at a time,     *)
(* live or replayed.                                                       *)
(*                                                                         *)
(* A text is a sequence of chunks, so that a text that came in pieces can  *)
(* be told from one that came whole; a call, a task, a request and a       *)
(* notice are names.  Left out: every wording, argument, token count, time *)
(* and image; model, mode and directory; the count of unknown shapes.      *)
(***************************************************************************)
EXTENDS Naturals, SequencesExt, Subsequences

CONSTANT Null

initialState ==
    [items |-> <<>>, index |-> <<>>, pendingWeb |-> <<>>, todos |-> <<>>,
     live |-> [busy |-> FALSE, thinking |-> FALSE, compacting |-> FALSE,
               running |-> Null, permission |-> Null, asked |-> Null]]

-----------------------------------------------------------------------------
(* Items: appended at the tail or replaced where they are.                 *)

push(d, item) == [d EXCEPT !.items = Append(@, item)]
ReplaceLast(d, item) == [d EXCEPT !.items[Len(d.items)] = item]
LastKind(d) == IF d.items = <<>> THEN "none" ELSE Last(d.items).kind
Positions(d, kind) == {i \in DOMAIN d.items : d.items[i].kind = kind}

Block(kind, text) ==
    [kind |-> kind, text |-> text, streaming |-> FALSE, fromStream |-> FALSE]
Note(what) == [kind |-> "note", what |-> what]

\* The item at the tail is a draft of this kind, settled or not.
OnDraft(d, kind) ==
    LastKind(d) = kind /\ (Last(d.items).streaming \/ Last(d.items).fromStream)

settleStreamed(d, kind, text) ==
    IF OnDraft(d, kind) THEN ReplaceLast(d, Block(kind, text))
                        ELSE push(d, Block(kind, text))

appendStreamed(d, kind, chunk) ==
    IF LastKind(d) = kind /\ Last(d.items).streaming
    THEN ReplaceLast(d, [Last(d.items) EXCEPT !.text = Append(@, chunk)])
    ELSE push(d, [Block(kind, <<chunk>>) EXCEPT !.streaming = TRUE, !.fromStream = TRUE])

\* Thinking that carries no text is a marker; adjacent markers are one.
markThinking(d) ==
    IF LastKind(d) = "thinking" /\ Last(d.items).text = <<>>
    THEN d ELSE push(d, Block("thinking", <<>>))

-----------------------------------------------------------------------------
(* Tool calls.  index finds the card of a call: <<item, place in it>>, or  *)
(* <<0, 0>> for a call that has none.                                      *)

Open(call) == call.status \in {"running", "awaiting"}

\* The place of a call is noted, over any it had.
Placed(index, id, place) ==
    [c \in DOMAIN index \cup {id} |-> IF c = id THEN place ELSE index[c]]

\* Mutant of addToolCall: the place of a call is looked for in a new group.
addToolCallFirst(d, id) ==
    LET calls == IF LastKind(d) = "tools" THEN Last(d.items).calls ELSE <<>>
        item  == [kind |-> "tools", calls |-> Append(calls, [id |-> id, status |-> "running"])]
        n     == IF calls = <<>> THEN push(d, item) ELSE ReplaceLast(d, item)
    IN  [n EXCEPT !.index = Placed(@, id, <<Len(n.items), 1>>)]

addToolCall(d, id) ==
    LET calls == IF LastKind(d) = "tools" THEN Last(d.items).calls ELSE <<>>
        item  == [kind |-> "tools", calls |-> Append(calls, [id |-> id, status |-> "running"])]
        n     == IF calls = <<>> THEN push(d, item) ELSE ReplaceLast(d, item)
    IN  [n EXCEPT !.index = Placed(@, id, <<Len(n.items), Len(item.calls)>>)]

HasCard(d, id) == id \in DOMAIN d.index /\ d.index[id][1] > 0
Card(d, id) == d.items[d.index[id][1]].calls[d.index[id][2]]

patchCall(d, id, status) ==
    IF ~HasCard(d, id) THEN d
    ELSE [d EXCEPT !.items[d.index[id][1]].calls[d.index[id][2]].status = status]

-----------------------------------------------------------------------------
(* The task list of TaskCreate and TaskUpdate.  A task is known by the id  *)
(* of its call until the result names its number.                          *)

ById(id) == <<"call", id>>
ByNumber(id) == <<"number", id>>

snapshotTodos(d) ==
    LET card == [kind |-> "todo", tasks |-> d.todos]
    IN  IF LastKind(d) = "todo" THEN ReplaceLast(d, card) ELSE push(d, card)

ListTask(todos, key, status) ==
    LET place == {i \in DOMAIN todos : todos[i].key = key}
        new   == IF place = {} THEN Append(todos, [key |-> key, status |-> status])
                 ELSE [todos EXCEPT ![Min(place)].status = status]
    IN  SubseqAt(new, {i \in DOMAIN new : new[i].status # "deleted"})

applyTodoTool(d, b) ==
    LET key == IF b.tool = "create" THEN ById(b.id) ELSE ByNumber(b.task)
        n   == [d EXCEPT !.todos = ListTask(@, key, b.status)]
    IN  [snapshotTodos(n) EXCEPT !.index = Placed(@, b.id, <<0, 0>>)]

\* Mutant of learnTodoId: the card that shows the list is not refreshed.
learnTodoIdOnly(d, id) ==
    [d EXCEPT !.todos = [i \in DOMAIN @ |->
        IF @[i].key = ById(id) THEN [@[i] EXCEPT !.key = ByNumber(id)] ELSE @[i]]]

learnTodoId(d, id) ==
    LET n == learnTodoIdOnly(d, id)
        cards == Positions(d, "todo")
    IN  IF n = d \/ cards = {} THEN n
        ELSE [n EXCEPT !.items[Max(cards)].tasks = n.todos]

-----------------------------------------------------------------------------
(* The ends of a turn.                                                     *)

idle(d) == [d EXCEPT !.live.busy = FALSE, !.live.thinking = FALSE,
                     !.live.compacting = FALSE, !.live.running = Null]

\* Mutant of SettledItem: only a call that was being run is settled.
SettledRunning(item, status) ==
    IF item.kind # "tools" THEN item
    ELSE [item EXCEPT !.calls = [j \in DOMAIN @ |->
            IF @[j].status = "running" THEN [@[j] EXCEPT !.status = status] ELSE @[j]]]

SettledItem(item, status) ==
    CASE item.kind = "tools" ->
           [item EXCEPT !.calls = [j \in DOMAIN @ |->
               IF Open(@[j]) THEN [@[j] EXCEPT !.status = status] ELSE @[j]]]
      [] item.kind \in {"prose", "thinking"} -> [item EXCEPT !.streaming = FALSE]
      [] OTHER -> item

endTurn(d, failed) ==
    [idle(d) EXCEPT
        !.live.permission = Null, !.live.asked = Null,
        !.items = [i \in DOMAIN @ |-> SettledItem(@[i], IF failed THEN "error" ELSE "ok")]]

result(d, failed) ==
    IF failed THEN push(endTurn(d, TRUE), Note("error")) ELSE endTurn(d, FALSE)

conversationReset(d) == push([endTurn(d, FALSE) EXCEPT !.todos = <<>>], Note("reset"))

-----------------------------------------------------------------------------
(* Background tasks.                                                       *)

TaskCards(d, task) == {i \in Positions(d, "bgtask") : d.items[i].task = task}
Task(task, status) == [kind |-> "bgtask", task |-> task, status |-> status]
WithStatus(d, task, status) ==
    IF TaskCards(d, task) = {} THEN d
    ELSE [d EXCEPT !.items[Min(TaskCards(d, task))].status = status]

\* Every running task that is not listed gets this status.
Dropped(d, listed, status) ==
    [d EXCEPT !.items = [i \in DOMAIN @ |->
        IF @[i].kind = "bgtask" /\ @[i].status = "running" /\ @[i].task \notin listed
        THEN [@[i] EXCEPT !.status = status] ELSE @[i]]]

\* Mutant of TaskStarted: a task announced twice has two cards.
TaskStartedAgain(d, task) == push(d, Task(task, "running"))

TaskStarted(d, task) ==
    IF TaskCards(d, task) # {} THEN d ELSE push(d, Task(task, "running"))

TaskNotification(d, task, status) ==
    IF TaskCards(d, task) # {} THEN WithStatus(d, task, status)
                               ELSE push(d, Task(task, status))

\* Only two names of a status are known; any other is taken for "running".
TaskUpdated(d, task, status) ==
    WithStatus(d, task, IF status \in {"failed", "completed"} THEN status ELSE "running")

\* Mutant of WorkerShutdown: the task cards are left as they are.
WorkerShutdownOnly(d) == push(idle(d), Note("shutdown"))

WorkerShutdown(d) == push(Dropped(idle(d), {}, "interrupted"), Note("shutdown"))

markUnknown(d, shape) ==
    IF LastKind(d) = "unknown" /\ Last(d.items).shape = shape
    THEN ReplaceLast(d, [Last(d.items) EXCEPT !.count = @ + 1])
    ELSE push(d, [kind |-> "unknown", shape |-> shape, count |-> 1])

Compacted(d) == [d EXCEPT !.live.compacting = FALSE]

system(d, e) ==
    CASE e.subtype = "thinking_tokens"   -> [d EXCEPT !.live.thinking = TRUE]
      [] e.subtype = "post_turn_summary" ->
           IF e.detail THEN push(idle(d), Note("summary")) ELSE idle(d)
      [] e.subtype = "compacting"        -> [d EXCEPT !.live.compacting = TRUE]
      [] e.subtype = "compact_result"    ->
           IF e.failed THEN push(Compacted(d), Note("error")) ELSE Compacted(d)
      [] e.subtype = "compact_boundary"  -> push(Compacted(d), Note("boundary"))
      [] e.subtype = "notice"            -> markUnknown(d, "notice")
      [] e.subtype = "task_started"      -> TaskStarted(d, e.task)
      [] e.subtype = "task_notification" -> TaskNotification(d, e.task, e.status)
      [] e.subtype = "task_updated"      -> TaskUpdated(d, e.task, e.status)
      [] e.subtype = "tasks_changed"     -> Dropped(d, e.tasks, "completed")
      [] e.subtype = "shutting_down"     -> WorkerShutdown(d)
      [] e.subtype = "line"              -> push(d, Note("line"))

-----------------------------------------------------------------------------
(* Messages.                                                               *)

ToolUse(d, b, isHistory) ==
    LET quiet == IF isHistory THEN d ELSE [d EXCEPT !.live.thinking = FALSE]
        armed == IF isHistory THEN quiet ELSE [quiet EXCEPT !.live.busy = TRUE]
    IN  CASE b.tool \in {"hidden", "question"} -> quiet
          [] b.tool \in {"create", "update"}   -> applyTodoTool(armed, b)
          [] b.tool = "plain" -> [addToolCall(armed, b.id) EXCEPT !.live.running = b.id]

AssistantBlock(d, b, isHistory) ==
    LET Thinking(t) == IF isHistory THEN d ELSE [d EXCEPT !.live.thinking = t]
    IN  CASE b.type = "text" -> settleStreamed(Thinking(FALSE), "prose", b.text)
          [] b.type = "thinking" /\ b.text # <<>> ->
               settleStreamed(Thinking(TRUE), "thinking", b.text)
          [] b.type = "thinking" /\ b.text = <<>> -> markThinking(Thinking(TRUE))
          [] b.type = "tool_use" -> ToolUse(d, b, isHistory)

assistant(d, e, isHistory) ==
    FoldLeft(LAMBDA s, b : AssistantBlock(s, b, isHistory), d, e.blocks)

\* Mutant of settleQueued: the echo settles nothing.
settleNothing(d, text) == d

settleQueued(d, text) ==
    LET queued == {i \in Positions(d, "user") :
                     d.items[i].state = "queued" /\ d.items[i].text = text}
    IN  IF queued = {} THEN d ELSE [d EXCEPT !.items[Min(queued)].state = "sent"]

Bubble(text, state) == [kind |-> "user", text |-> text, state |-> state]

\* Mutant of EchoOfOwn: every echo is taken for a terminal's.
EchoOfNone(d, text, isHistory) == FALSE

\* A live echo of a text sent from here is on the screen already.
EchoOfOwn(d, text, isHistory) == ~isHistory /\ Contains(d.pendingWeb, text)

UserText(d, text, isHistory) ==
    IF EchoOfOwn(d, text, isHistory)
    THEN settleQueued([d EXCEPT !.pendingWeb = RemoveFirst(@, text)], text)
    ELSE LET n == push(d, Bubble(text, "sent"))
         IN  IF isHistory THEN n
             ELSE [n EXCEPT !.live.busy = TRUE, !.live.thinking = FALSE]

\* The newest call still open in the group of a call that has just finished.
NextOpen(d, id) ==
    LET calls == d.items[d.index[id][1]].calls
        open  == {j \in DOMAIN calls : Open(calls[j])}
    IN  IF open = {} THEN Null ELSE calls[Max(open)].id

Questions(d, id) == {i \in Positions(d, "question") : d.items[i].id = id}

ToolResult(d, id, failed) ==
    LET n == IF d.live.permission # Null /\ d.live.asked = id
             THEN [d EXCEPT !.live.permission = Null, !.live.asked = Null] ELSE d
        p == patchCall(n, id, IF failed THEN "error" ELSE "ok")
    IN  CASE Questions(d, id) # {} -> [n EXCEPT !.items[Min(Questions(d, id))].answered = TRUE]
          [] Questions(d, id) = {} /\ id \in DOMAIN d.index /\ ~HasCard(d, id) ->
               IF failed THEN n ELSE learnTodoId(n, id)
          [] Questions(d, id) = {} /\ HasCard(d, id) ->
               IF d.live.running # id THEN p ELSE [p EXCEPT !.live.running = NextOpen(p, id)]
          [] OTHER -> n

user(d, e, isHistory) ==
    FoldLeft(LAMBDA s, r : ToolResult(s, r.id, r.failed),
             FoldLeft(LAMBDA s, t : UserText(s, t, isHistory), d, e.texts), e.results)

\* Mutant of controlRequest: a request seen again is another question.
controlRequestAgain(d, e) ==
    IF e.question
    THEN push(d, [kind |-> "question", request |-> e.request, id |-> e.id, answered |-> FALSE])
    ELSE [patchCall(d, e.id, "awaiting") EXCEPT !.live.permission = e.request, !.live.asked = e.id]

controlRequest(d, e) ==
    IF e.question
    THEN IF \E i \in Positions(d, "question") : d.items[i].request = e.request THEN d
         ELSE push(d, [kind |-> "question", request |-> e.request, id |-> e.id, answered |-> FALSE])
    ELSE [patchCall(d, e.id, "awaiting") EXCEPT !.live.permission = e.request, !.live.asked = e.id]

\* Mutant of clearPermission: the call it was asked for stays noted.
clearPermissionOnly(d) == [d EXCEPT !.live.permission = Null]

clearPermission(d) ==
    LET n == [d EXCEPT !.live.permission = Null, !.live.asked = Null]
    IN  IF d.live.permission = Null THEN n ELSE patchCall(n, d.live.asked, "running")

Unanswered(d, request) ==
    {i \in Positions(d, "question") : d.items[i].request = request /\ ~d.items[i].answered}

controlCancel(d, request) ==
    LET n == IF d.live.permission = request THEN clearPermission(d) ELSE d
    IN  IF Unanswered(d, request) = {} THEN n
        ELSE [n EXCEPT !.items[Min(Unanswered(d, request))].answered = TRUE]

streamEvent(d, e, isHistory) ==
    IF e.delta
    THEN LET n == appendStreamed(d, e.block, e.chunk)
         IN  IF isHistory THEN n
             ELSE [n EXCEPT !.live.busy = TRUE, !.live.thinking = (e.block = "thinking")]
    ELSE LET streaming == {i \in Positions(d, "prose") \cup Positions(d, "thinking") :
                             d.items[i].streaming}
         IN  IF streaming = {} THEN d
             ELSE [d EXCEPT !.items[Max(streaming)].streaming = FALSE]

reduce(d, e, isHistory) ==
    CASE e.type = "system"         -> system(d, e)
      [] e.type = "assistant"      -> assistant(d, e, isHistory)
      [] e.type = "user"           -> user(d, e, isHistory)
      [] e.type = "result"         -> result(d, e.failed)
      [] e.type = "control_request"        -> controlRequest(d, e)
      [] e.type = "control_cancel_request" -> controlCancel(d, e.request)
      [] e.type = "stream_event"   -> streamEvent(d, e, isHistory)
      [] e.type = "reset"          -> conversationReset(d)
      [] e.type = "rate_limit"     -> IF e.allowed THEN d ELSE push(d, Note("line"))
      [] e.type = "unknown"        -> markUnknown(d, e.shape)
      [] e.type = "ignored"        -> d

\* Does a history end in the middle of a turn?
EndsTurn(e) ==
    \/ e.type \in {"result", "reset"}
    \/ e.type = "system" /\ e.subtype \in {"post_turn_summary", "shutting_down"}
ShowsTurn(e) ==
    \/ e.type \in {"user", "stream_event"}
    \/ e.type = "assistant" /\ \E i \in DOMAIN e.blocks : e.blocks[i].type = "tool_use"
turnActiveIn(events) ==
    \E i \in DOMAIN events : /\ ShowsTurn(events[i])
                             /\ \A j \in i + 1 .. Len(events) : ~EndsTurn(events[j])

\* The backfill handler of useSession: everything is replaced.
Replayed(events, active) ==
    LET s == FoldLeft(LAMBDA d, e : reduce(d, e, TRUE), initialState, events)
    IN  [s EXCEPT !.live.busy = active /\ turnActiveIn(events)]

localSend(d, text) ==
    LET state == IF d.live.busy THEN "queued" ELSE "sent"
    IN  [push([d EXCEPT !.pendingWeb = Append(@, text)], Bubble(text, state))
            EXCEPT !.live.busy = TRUE, !.live.thinking = FALSE]

markQuestionAnswered(d, request) ==
    LET cards == {i \in Positions(d, "question") : d.items[i].request = request}
    IN  IF cards = {} THEN d ELSE [d EXCEPT !.items[Min(cards)].answered = TRUE]

\* The Stop button: the line is put out before the worker hears of it.
stop(d) == [d EXCEPT !.live.busy = FALSE, !.live.running = Null, !.live.thinking = FALSE]

===============================================================================
