------------------------------- MODULE MCSession -------------------------------
(* One session, on small instances of the modules about it, one of them in     *)
(* each behaviour:                                                             *)
(*   "chat"   ChatSession, on scenes that each bring a few kinds of events     *)
(*            together and between them bring every kind.                      *)
(*   "digest" Approvals: calls to visible and hidden tools, batched every way, *)
(*            and answers that cross.                                          *)
(*   "worker" Approvals with PostgreSQL: turns, and a worker, a server and a   *)
(*            phone, one of which may go and come back.                        *)
(*   "images" Images: tool results and blocks with several images, one of a    *)
(*            payload that can not be referred to.                             *)
EXTENDS ChatSession, TLC

CONSTANTS
    Part,           \* the instance of a behaviour
    ToolCalls,      \* tool_use_ids of the instance "digest"
    HiddenCalls,    \* those of calls to a tool in HIDDEN_TOOLS
    WorkerCalls,    \* tool_use_ids of the instance "worker"
    DigestTurns,    \* bound: turns and local commands in "digest"
    WorkerTurns,    \* bound: the same in "worker"
    MaxPosted,      \* bound: events in one POST
    u1, u2,         \* uuids of the instance "images"
    Payloads,       \* payloads of the instance "images"
    MemoryLimit     \* of these, memory keeps the newest

ASSUME CallsAssumption ==
    /\ Null \notin ToolCalls \cup WorkerCalls /\ HiddenCalls \subseteq ToolCalls
    /\ {DigestTurns, WorkerTurns, MaxPosted} \subseteq Nat

InnerBlocks == [type : {"text"}] \cup [type : {"image"}, source : {"base64", "url"}]
PayloadBlocks == InnerBlocks \cup [type : {"result"}, inner : Seq(InnerBlocks)]
Uuids == {p.uuid : p \in Payloads}
Place == Nat \X Nat

\* "every payload carries a unique `uuid`" (image-blob.ts), or one that can not be
\* referred to; a worker sends no reference; and Null is none of what it stands
\* in for.
ASSUME PayloadsAssumption ==
    /\ \A p \in Payloads : /\ p = [uuid |-> p.uuid, copy |-> p.copy, content |-> p.content]
                          /\ p.copy \in BOOLEAN /\ p.content \in Seq(PayloadBlocks)
    /\ \A p, q \in Payloads : p.uuid = q.uuid /\ p.uuid # Null => p = q
    /\ Null \notin Payloads /\ Null \notin [uuid : Uuids, n : Nat] /\ Null \notin Uuids \X Place
    /\ MemoryLimit \in Nat \ {0}

VARIABLES part,
    turns, agent, call, outbox, attached, answering, posting, stored, digest, dirty, saved,
    sheet, answers, lapses,
    pool, kept, relaying, posted, sent, cards

rows == <<turns, agent, call, outbox, attached, answering, posting, stored, digest, dirty,
          saved, sheet, answers, lapses>>
pictures == <<pool, kept, relaying, posted, sent, cards>>

TestScenes ==
    {{"typing", "prose", "sends", "trailing", "lossy"},
     {"typing", "plain", "ask", "hidden"},
     {"typing", "prose", "plain", "reset"},
     {"typing", "question", "again"},
     {"typing", "create", "update", "reset"},
     {"tasks", "exit"},
     {"typing", "stream", "sends"},
     {"typing", "compaction", "summary"},
     {"typing", "notices"},
     {"typing", "plain", "commands", "summary", "stop"}}
TestEvents ==
    [s \in TestScenes |-> IF {"typing", "plain"} \subseteq s \/ "question" \in s \/ "update" \in s
                          THEN 7 ELSE IF "notices" \in s THEN 4 ELSE IF "trailing" \in s THEN 5 ELSE 6]

Img(source) == [type |-> "image", source |-> source]
Text == [type |-> "text"]
Result(blocks) == [type |-> "result", inner |-> blocks]
TestPayloads ==
    {[uuid |-> u1, copy |-> TRUE,
      content |-> <<Result(<<Img("base64")>>), Img("base64"),
                    Result(<<Text, Img("base64"), Img("base64")>>)>>],
     [uuid |-> u2, copy |-> FALSE,
      content |-> <<Img("base64"), Text, Result(<<Img("url"), Img("base64"), Text>>),
                    Result(<<Img("base64")>>)>>],
     [uuid |-> Null, copy |-> TRUE, content |-> <<Result(<<Img("base64")>>)>>]}

\* No call to a visible tool is special.
ToolSymmetry == Permutations(ToolCalls \ HiddenCalls)

Digest == INSTANCE Approvals WITH
    worker <- agent, wire <- answering, used <- lapses,
    Tools <- ToolCalls, Hidden <- HiddenCalls, HasPool <- FALSE,
    MaxTurns <- DigestTurns, MaxBatch <- MaxPosted,
    MaxDetach <- 0, MaxRestarts <- 0, MaxReopens <- 0, MayExit <- FALSE

Worker == INSTANCE Approvals WITH
    worker <- agent, wire <- answering, used <- lapses,
    Tools <- WorkerCalls, Hidden <- {}, HasPool <- TRUE,
    MaxTurns <- WorkerTurns, MaxBatch <- MaxPosted,
    MaxDetach <- 1, MaxRestarts <- 1, MaxReopens <- 1, MayExit <- TRUE

Pictures == INSTANCE Images WITH
    stored <- kept, posting <- relaying, wire <- sent,
    Events <- Payloads, HistoryLimit <- MemoryLimit

SessionInit ==
    /\ part \in Part /\ Init /\ Pictures!Init
    /\ IF part = "worker" THEN Worker!Init ELSE Digest!Init
    /\ part # "chat" => scene = {"typing", "notices"}
    /\ part # "images" => pool

\* bound: of a lost stream, a restart and a reopening, one.
OneMishap == lapses'["detach"] + lapses'["restart"] + lapses'["reopen"] <= 1

SessionNext ==
    \/ part = "chat" /\ Next /\ UNCHANGED <<part, rows, pictures>>
    \/ part = "digest" /\ Digest!Next /\ UNCHANGED <<part, vars, pictures>>
    \/ part = "worker" /\ Worker!Next /\ OneMishap /\ UNCHANGED <<part, vars, pictures>>
    \/ part = "images" /\ Pictures!Next /\ UNCHANGED <<part, vars, rows>>

SessionSpec == SessionInit /\ [][SessionNext]_<<part, vars, rows, pictures>>

\* A call's place on the screen (model.ts): the index finds each card and no call
\* has two; the activity line names no call that has settled; a task and a
\* question have one card each; and the newest task list is the list as it is.
CardsInPlace == part = "chat" => TypeOK /\ IndexFindsCard /\ LineIsOpen /\ OneCardEach /\ TodoCardFresh

\* What was typed (model.ts, takeVisibleUserTexts and settleQueued): a text has
\* one bubble for each time it was sent, from here or from a terminal, and a
\* bubble that says queued is of a text whose echo has not come.
BubblesInStep == part = "chat" => BubblesMatchEchoes /\ QueuedIsPending

\* In quiet states the worker, the row of the session list and the phone agree
\* (store.ts, foldDigest; model.ts, controlCancel): the row is running exactly
\* while the newest visible call is, its badge is of a request that still waits,
\* and so is the phone's sheet.
DigestInStep == part = "digest" =>
    Digest!RowIsNewestCall /\ Digest!BadgeNotStale /\ Digest!SheetIsLive

\* Once a turn is over and the server was told, the row settles, whatever was
\* lost, restarted or reopened (store.ts, foldDigest settle); and a turn the
\* server reports is one a reopened session offers to stop (model.ts, turnActiveIn).
TurnSettles == part = "worker" => Worker!TypeOK /\ Worker!RowSettles /\ Worker!StopButtonOffered

\* A payload is sent without the bytes of its images, a reference resolves to the
\* image it replaced, and one in a payload that is kept can be fetched: "a
\* reference that cannot be fetched is worse than the bytes it saved"
\* (image-blob.ts).
ImagesResolve == part = "images" =>
    Pictures!TypeOK /\ Pictures!RightImage /\ Pictures!KeptResolves /\ Pictures!NoBytesSent

=============================================================================
