------------------------------- MODULE Shapes -------------------------------
(***************************************************************************)
(* The shape of every stored payload, the decision about it, and the       *)
(* backlog of those nobody has decided about: src/wire-shape.ts, the       *)
(* column events.shape and its backfill (src/server/db.ts), the report     *)
(* read from it (test/shape-report.ts) and what the reducer marks          *)
(* (web/src/model.ts).                                                     *)
(*                                                                         *)
(* A payload is its type, the field that discriminates it further (sub),   *)
(* of a notice (system:status) what it says, and of a message the types of *)
(* its content blocks and of the blocks of its tool results.  A shape is   *)
(* the type with the set of what discriminates it.  Left out: content that *)
(* is no array, counts' dates.                                             *)
(***************************************************************************)
EXTENDS Naturals, Sequences, SequencesExt, FiniteSets, Subsequences

CONSTANTS
    Payloads, \* external: [type, sub, notice, blocks, inner]
    Servers,  \* processes on one database
    Batch,    \* rows of one batch of the backfill
    Null,
    MaxOld,   \* bound: rows older than the column
    MaxRows,  \* bound: rows
    MaxFails  \* bound: queries that fail and processes that stop

VARIABLES
    rows,   \* events, in the order of their ids: [payload, shape]
    at,     \* of each server: "off", "select", "update", "done" or "stopped"
    batch,  \* ... the ids of the batch it has read
    fails

vars == <<rows, at, batch, fails>>

-----------------------------------------------------------------------------
(* src/wire-shape.ts                                                       *)

Messages == {"assistant", "user"}
Families == {"system", "result", "stream_event", "control_request", "control_response"}

shapeOf(p) ==
    [type |-> p.type,
     rest |-> IF p.type \in Families THEN {p.sub} ELSE IF p.type \in Messages THEN p.blocks ELSE {}]

HandledShapes ==
    {[type |-> "system", rest |-> {s}] : s \in
        {"init", "thinking_tokens", "post_turn_summary", "status", "compact_boundary", "task_started",
         "task_progress", "task_updated", "task_notification", "background_tasks_changed",
         "vcs_state_changed", "worker_shutting_down", "api_error", "permission_denied", "mirror_error"}}
    \cup {[type |-> "stream_event", rest |-> {s}] : s \in {"content_block_delta", "message_stop"}}
    \cup {[type |-> "control_request", rest |-> {"can_use_tool"}]}
    \cup {[type |-> t, rest |-> {}] : t \in {"control_cancel_request", "conversation_reset", "rate_limit_event"}}

IgnoredShapes ==
    {[type |-> "control_request", rest |-> {s}] : s \in
        {"interrupt", "set_permission_mode", "set_model", "set_max_thinking_tokens", "initialize",
         "apply_flag_settings"}}
    \cup {[type |-> "stream_event", rest |-> {s}] : s \in
        {"message_start", "message_delta", "content_block_start", "content_block_stop", "ping"}}
    \cup {[type |-> "keep_alive", rest |-> {}]}

\* The rows of SHAPES with a wildcard.
HandledFamilies == Messages \cup {"result"}
IgnoredFamilies == {"control_response"}

verdictOf(shape) ==
    IF shape \in HandledShapes \/ shape.type \in HandledFamilies THEN "handled"
    ELSE IF shape \in IgnoredShapes \/ shape.type \in IgnoredFamilies THEN "ignored" ELSE "unknown"

BlockShapes == {"text", "thinking", "tool_use", "tool_result", "image"}

unknownBlockTypes(blocks) == blocks \ BlockShapes

\* system of model.ts: the notices it knows, the start of a compaction and its result.
Compaction == {"compacting", "done"}

\* reduce, system, assistant and user of model.ts: what a payload puts on the
\* backlog of a phone that shows it, a shape, a notice or a type of block.
Marks(p) ==
    CASE verdictOf(shapeOf(p)) = "unknown" -> {shapeOf(p)}
      [] shapeOf(p) = [type |-> "system", rest |-> {"status"}] ->
            {[type |-> "system:status", rest |-> {n}] : n \in {p.notice} \ Compaction}
      [] verdictOf(shapeOf(p)) = "handled" /\ p.type \in Messages ->
            {[type |-> "block", rest |-> {b}] :
                b \in unknownBlockTypes(p.blocks) \cup (IF p.type = "user" THEN unknownBlockTypes(p.inner) ELSE {})}
      [] OTHER -> {}

\* A mark that is a shape, not a notice or a block of a payload of a known shape.
IsShape(m) == m.type \notin {"block", "system:status"} \/ m.rest = {}

-----------------------------------------------------------------------------
(* src/server/db.ts                                                        *)

\* selectShapeStats, and what test/shape-report.ts lists of it.
selectShapeStats ==
    {[shape |-> rows[i].shape,
      n |-> Cardinality({j \in DOMAIN rows : rows[j].shape = rows[i].shape}),
      firstId |-> Min({j \in DOMAIN rows : rows[j].shape = rows[i].shape})]
     : i \in {i \in DOMAIN rows : rows[i].shape # Null}}
Backlog == {s.shape : s \in {s \in selectShapeStats : verdictOf(s.shape) = "unknown"}}

Unstamped == SubseqAt([i \in DOMAIN rows |-> i], {i \in DOMAIN rows : rows[i].shape = Null})
\* Mutant of Taken: no limit.
TakenAll(ids) == ids
Taken(ids) == SubSeq(ids, 1, IF Len(ids) < Batch THEN Len(ids) ELSE Batch)

TypeOK ==
    /\ \A i \in DOMAIN rows : rows[i].payload \in Payloads
    /\ at \in [Servers -> {"off", "select", "update", "done", "stopped"}]
    /\ \A s \in Servers : ToSet(batch[s]) \subseteq DOMAIN rows /\ Len(batch[s]) <= Batch
    /\ \A s \in Servers : (at[s] = "update") = (batch[s] # <<>>)

Init ==
    /\ rows \in UNION {[1..n -> [payload : Payloads, shape : {Null}]] : n \in 0..MaxOld}
    /\ at = [s \in Servers |-> "off"] /\ batch = [s \in Servers |-> <<>>] /\ fails = 0

Boot(s) ==
    /\ at[s] = "off" /\ at' = [at EXCEPT ![s] = "select"]
    /\ UNCHANGED <<rows, batch, fails>>

\* backfillShapes: the oldest rows with no shape; none ends the loop.
Select(s) ==
    /\ at[s] = "select"
    /\ batch' = [batch EXCEPT ![s] = Taken(Unstamped)]
    /\ at' = [at EXCEPT ![s] = IF Unstamped = <<>> THEN "done" ELSE "update"]
    /\ UNCHANGED <<rows, fails>>

\* Mutant of stamped: rows and shapes out of step.
stampedFirst(ids) == [i \in DOMAIN rows |->
    IF i \in ToSet(ids) THEN [rows[i] EXCEPT !.shape = shapeOf(rows[ids[1]].payload)] ELSE rows[i]]
\* Mutant of stamped: no shape for a type that is not known.
stampedKnown(ids) == [i \in DOMAIN rows |->
    IF i \in ToSet(ids) /\ verdictOf(shapeOf(rows[i].payload)) # "unknown"
    THEN [rows[i] EXCEPT !.shape = shapeOf(rows[i].payload)] ELSE rows[i]]
stamped(ids) == [i \in DOMAIN rows |->
    IF i \in ToSet(ids) THEN [rows[i] EXCEPT !.shape = shapeOf(rows[i].payload)] ELSE rows[i]]

\* Mutant of Then: one batch is all.
ThenDone == "done"
\* After a batch, and the pause that lets other queries through: the next.
Then == "select"

Update(s) ==
    /\ at[s] = "update"
    /\ rows' = stamped(batch[s]) /\ batch' = [batch EXCEPT ![s] = <<>>]
    /\ at' = [at EXCEPT ![s] = Then]
    /\ UNCHANGED fails

\* A query fails: the backfill gives up, the server goes on.
Fail(s) ==
    /\ at[s] \in {"select", "update"} /\ fails < MaxFails
    /\ at' = [at EXCEPT ![s] = "stopped"] /\ batch' = [batch EXCEPT ![s] = <<>>]
    /\ fails' = fails + 1 /\ UNCHANGED rows

\* A process stops, wherever its backfill is.
Stop(s) ==
    /\ at[s] # "off" /\ fails < MaxFails
    /\ at' = [at EXCEPT ![s] = "off"] /\ batch' = [batch EXCEPT ![s] = <<>>]
    /\ fails' = fails + 1 /\ UNCHANGED rows

\* insertEvents, of a server that runs.
InsertEvent(p) ==
    /\ Len(rows) < MaxRows /\ \E s \in Servers : at[s] # "off"
    /\ rows' = Append(rows, [payload |-> p, shape |-> shapeOf(p)])
    /\ UNCHANGED <<at, batch, fails>>

Next ==
    \/ \E s \in Servers : Boot(s) \/ Select(s) \/ Update(s) \/ Fail(s) \/ Stop(s)
    \/ \E p \in Payloads : InsertEvent(p)

Spec == Init /\ [][Next]_vars

\* A server is started, and its queries are answered.
Fairness == \A s \in Servers : WF_vars(Boot(s)) /\ WF_vars(Select(s)) /\ WF_vars(Update(s))
FairSpec == Spec /\ Fairness

-----------------------------------------------------------------------------
(* Properties.                                                             *)

\* "The queue is a predicate, not a bookmark": a backfill that ran to its end
\* has left no row behind, and none lacks a shape after, whatever another
\* server inserted, stamped or left undone meanwhile.
DoneMeansStamped == (\E s \in Servers : at[s] = "done") => Unstamped = <<>>

\* "One implementation, so the four can never disagree", as far as it goes: once
\* the rows are stamped, the report lists the shapes that phones showing these
\* events mark, and its pointer leads to a payload that a phone marks so.  (It does
\* not list the notices and the blocks they mark: a notice nobody knows is
\* "system:status" in the column, which is handled, and so is a message.)
ReportAgrees ==
    Unstamped = <<>> =>
        /\ Backlog = {m \in UNION {Marks(rows[i].payload) : i \in DOMAIN rows} : IsShape(m)}
        /\ \A s \in selectShapeStats : s.shape \in Backlog => s.shape \in Marks(rows[s.firstId].payload)

\* The backfill comes to an end while events keep arriving, unless a query
\* fails or the server stops.
BackfillEnds == \A s \in Servers : at[s] \in {"select", "update"} ~> at[s] \in {"done", "stopped", "off"}

=============================================================================
