------------------------------ MODULE Terminal ------------------------------
(***************************************************************************)
(* The prompts of control-claude (src/tui.ts): menus and text inputs, read *)
(* key by key from a terminal in raw mode, or line by line when stdin is a *)
(* pipe.                                                                   *)
(*                                                                         *)
(* A read of a terminal is a sequence of bytes: "esc" "[" "A" is the up    *)
(* arrow, "cr" the Enter key, "x" and "1" stand for what can be typed into *)
(* an input and "1" for what moves a menu, "del" for both erasing keys.    *)
(* A line of a pipe is "none" (an empty line: take the default), "1" (the  *)
(* first choice, or that text) or "x".  Left out: painting, echo, widths.  *)
(* The keyboard, the pipe and readline's events are external.              *)
(***************************************************************************)
EXTENDS Naturals, Sequences, SequencesExt

CONSTANTS
    Asks,      \* the prompts of a flow: [kind |-> "select", n |-> choices] or [kind |-> "input"]
    Keys,      \* external: what the user may press, each a sequence of bytes
    Scripts,   \* external: what may be piped in, each a sequence of lines
    Null,
    MaxPressed \* bound: keys pressed

VARIABLES
    tty,     \* stdin and stdout are a terminal
    prompt,  \* the prompt that is asked
    at,      \* "ask", "reading", "heard" (a line was read), "done" or "cancelled"
    raw,     \* the terminal is in raw mode
    cursor,  \* of a menu: the choice it is on
    buf,     \* of an input: what has been typed
    typed,   \* external: bytes typed and not yet read
    pressed, \* external: keys pressed
    script,  \* external: the lines piped in
    piped,   \* external: ... those readline has not emitted
    rl,      \* the shared reader: "none", "open" or "ended"
    queued,  \* lines emitted that no prompt waited for
    line,    \* the line a prompt was given
    heard    \* the lines the prompts have taken

keyboard == <<raw, cursor, buf, typed, pressed>>
pipe == <<script, piped, rl, queued, line, heard>>
vars == <<tty, prompt, at, keyboard, pipe>>

Bytes == {"esc", "[", "A", "B", "cr", "del", "x", "1", "ctrlC"}
Lines == {"none", "1", "x"}
Prompts == [kind : {"select", "input"}, n : Nat]

\* The arrows are the keys of three bytes, and the rest of one: what stands
\* between "esc" "[" and a letter is never typed alone.
Arrows == {<<"esc", "[", "A">>, <<"esc", "[", "B">>}
OneByte == {<<b>> : b \in Bytes \ {"[", "A", "B"}}

\* There is something to ask, and a menu has a choice (select's first check).
ASSUME PromptsAssumption ==
    /\ Asks \in Seq(Prompts) /\ Asks # <<>>
    /\ \A i \in DOMAIN Asks : Asks[i].kind = "select" => Asks[i].n > 0
    /\ Keys \subseteq Arrows \cup OneByte
    /\ Scripts \subseteq Seq(Lines)
    /\ Null \notin Lines \cup {"enter", "cancel"}

TypeOK ==
    /\ tty \in BOOLEAN /\ prompt \in 1..Len(Asks) + 1
    /\ at \in {"ask", "reading", "heard", "done", "cancelled"} /\ raw \in BOOLEAN
    /\ cursor \in Nat /\ (at = "reading" /\ tty /\ Asks[prompt].kind = "select" => cursor \in 1..Asks[prompt].n)
    /\ buf \in Seq(Bytes) /\ typed \in Seq(Bytes)
    /\ rl \in {"none", "open", "ended"} /\ (at = "heard" => line # Null)
    /\ (~tty => ~raw) /\ (tty => rl = "none")

Init ==
    /\ tty \in BOOLEAN /\ prompt = 1 /\ at = "ask"
    /\ raw = FALSE /\ cursor = 1 /\ buf = <<>> /\ typed = <<>> /\ pressed = 0
    /\ script \in (IF tty THEN {<<>>} ELSE Scripts) /\ piped = script
    /\ rl = "none" /\ queued = <<>> /\ line = Null /\ heard = <<>>

\* The flow goes on to the next prompt, or is over.
Answered == prompt' = prompt + 1 /\ at' = IF prompt = Len(Asks) THEN "done" ELSE "ask"

-----------------------------------------------------------------------------
(* The terminal.                                                           *)

Letters == {"A", "B", "x"}

\* splitKeys: an escape sequence runs from "esc" "[" to the next letter; one
\* the chunk does not end is a key per byte.
splitByte(s, b) ==
    IF s.held = <<>> THEN IF b = "esc" THEN [s EXCEPT !.held = <<b>>]
                          ELSE [s EXCEPT !.keys = Append(@, <<b>>)]
    ELSE IF Len(s.held) = 1 /\ b # "["
         THEN IF b = "esc" THEN [s EXCEPT !.keys = Append(@, <<"esc">>)]
              ELSE [keys |-> s.keys \o << <<"esc">>, <<b>> >>, held |-> <<>>]
    ELSE IF b \in Letters THEN [keys |-> Append(s.keys, Append(s.held, b)), held |-> <<>>]
    ELSE [s EXCEPT !.held = Append(@, b)]

splitKeys(chunk) ==
    LET all == FoldLeft(splitByte, [keys |-> <<>>, held |-> <<>>], chunk)
    IN  all.keys \o [i \in DOMAIN all.held |-> <<all.held[i]>>]

\* Mutant of menuKey: down does not wrap.
menuKeyPast(s, key, n) ==
    IF key = <<"esc", "[", "B">> THEN [s EXCEPT !.cursor = @ + 1]
    ELSE IF key = <<"cr">> THEN [s EXCEPT !.end = "enter"] ELSE s
\* Mutant of textKey: whatever is no command is text.
textKeyAny(s, key) ==
    IF key = <<"cr">> THEN [s EXCEPT !.end = "enter"] ELSE [s EXCEPT !.buf = @ \o key]

\* The key handlers: select's, and input's.
menuKey(s, key, n) ==
    CASE key = <<"cr">>              -> [s EXCEPT !.end = "enter"]
      [] key = <<"esc", "[", "A">>   -> [s EXCEPT !.cursor = ((@ + n - 2) % n) + 1]
      [] key = <<"esc", "[", "B">>   -> [s EXCEPT !.cursor = (@ % n) + 1]
      [] key = <<"1">>               -> [s EXCEPT !.cursor = 1]
      [] OTHER                       -> s

textKey(s, key) ==
    CASE key = <<"cr">>                  -> [s EXCEPT !.end = "enter"]
      [] key = <<"del">>                 -> [s EXCEPT !.buf = IF @ = <<>> THEN @ ELSE Front(@)]
      [] Len(key) > 1 \/ key = <<"esc">> -> s
      [] OTHER                           -> [s EXCEPT !.buf = Append(@, key[1])]

\* onData: nothing of a chunk is looked at once a key has ended the prompt.
onKey(ask, s, key) ==
    IF s.end # Null THEN s
    ELSE IF key = <<"ctrlC">> THEN [s EXCEPT !.end = "cancel"]
    ELSE IF ask.kind = "select" THEN menuKey(s, key, ask.n) ELSE textKey(s, key)

heardKeys(ask, s0, keys) == FoldLeft(LAMBDA s, key : onKey(ask, s, key), s0, keys)

\* Mutant of Restored: Ctrl-C leaves the terminal as it is.
RestoredOnEnter(end) == end # "enter"
\* Whether the terminal stays in raw mode: every way out restores it.
Restored(end) == end = Null

\* select or input on a terminal, up to readKeys.
PromptKeys ==
    /\ tty /\ at = "ask" /\ at' = "reading" /\ raw' = TRUE
    /\ cursor' = 1 /\ buf' = <<>>
    /\ UNCHANGED <<tty, prompt, typed, pressed, pipe>>

\* A read takes what was typed since the last, whole keys.  An input asks again
\* when what it was given, trimmed, is empty.
OnData ==
    /\ tty /\ at = "reading" /\ typed # <<>>
    /\ LET s == heardKeys(Asks[prompt], [cursor |-> cursor, buf |-> buf, end |-> Null], splitKeys(typed))
       IN  /\ cursor' = s.cursor /\ buf' = s.buf /\ raw' = Restored(s.end)
           /\ \/ s.end = Null /\ UNCHANGED <<prompt, at>>
              \/ s.end = "cancel" /\ at' = "cancelled" /\ UNCHANGED prompt
              \/ /\ s.end = "enter"
                 /\ IF Asks[prompt].kind = "input" /\ s.buf = <<>>
                    THEN at' = "ask" /\ UNCHANGED prompt ELSE Answered
    /\ typed' = <<>>
    /\ UNCHANGED <<tty, pressed, pipe>>

\* External: the user presses a key.
Press(key) ==
    /\ tty /\ at \notin {"done", "cancelled"} /\ pressed < MaxPressed
    /\ typed' = typed \o key /\ pressed' = pressed + 1
    /\ UNCHANGED <<tty, prompt, at, raw, cursor, buf, pipe>>

-----------------------------------------------------------------------------
(* The pipe.                                                               *)

\* readLine: a line that came early, the end of the input, or a wait.
PromptLine ==
    /\ ~tty /\ at = "ask"
    /\ rl' = IF rl = "none" THEN "open" ELSE rl
    /\ IF queued # <<>> THEN at' = "heard" /\ line' = Head(queued) /\ queued' = Tail(queued)
       ELSE at' = (IF rl = "ended" THEN "cancelled" ELSE "reading") /\ UNCHANGED <<line, queued>>
    /\ UNCHANGED <<tty, prompt, script, piped, heard, keyboard>>

\* Mutant of lineQueue: a line no prompt waits for is dropped.
lineQueueNone(lines) == <<>>
lineQueue(lines) == queued \o lines

\* readline emits the lines of a chunk one after another, before the prompt
\* whose wait the first one ends runs on.
OnLines(k) ==
    /\ rl = "open" /\ k \in 1..Len(piped) /\ at \notin {"done", "cancelled"}
    /\ piped' = SubSeq(piped, k + 1, Len(piped))
    /\ IF at = "reading"
       THEN at' = "heard" /\ line' = Head(piped) /\ queued' = lineQueue(SubSeq(piped, 2, k))
       ELSE queued' = lineQueue(SubSeq(piped, 1, k)) /\ UNCHANGED <<at, line>>
    /\ UNCHANGED <<tty, prompt, script, rl, heard, keyboard>>

\* Mutant of WaitEnded: who waits when the input ends is not told.
WaitEndedNever == "reading"
\* What the end of the input makes of a prompt that waits.
WaitEnded == "cancelled"

OnEnd ==
    /\ rl = "open" /\ piped = <<>> /\ at \notin {"done", "cancelled"}
    /\ rl' = "ended" /\ at' = IF at = "reading" THEN WaitEnded ELSE at
    /\ UNCHANGED <<tty, prompt, script, piped, queued, line, heard, keyboard>>

\* The prompt goes on with its line: a menu takes the default or a number of
\* its list, an input what is not empty; else it asks again.
TakeLine ==
    /\ at = "heard" /\ heard' = Append(heard, line)
    /\ line' = Null
    /\ IF (IF Asks[prompt].kind = "select" THEN line # "x" ELSE line # "none")
       THEN Answered ELSE at' = "ask" /\ UNCHANGED prompt
    /\ UNCHANGED <<tty, script, piped, rl, queued, keyboard>>

Next ==
    \/ PromptKeys \/ OnData \/ PromptLine \/ OnEnd \/ TakeLine
    \/ \E k \in 1..6 : OnLines(k)
    \/ \E key \in Keys : Press(key)

Spec == Init /\ [][Next]_vars

\* Promises settle, and a pipe is read to its end.
Fairness == /\ WF_vars(PromptLine) /\ WF_vars(TakeLine) /\ WF_vars(OnEnd)
            /\ \A k \in 1..6 : WF_vars(OnLines(k))

FairSpec == Spec /\ Fairness

-----------------------------------------------------------------------------
(* Properties.                                                             *)

\* readKeys "restores the terminal on every exit path": it is in raw mode
\* exactly while a prompt reads keys.
RawWhileReading == raw <=> tty /\ at = "reading"

\* "Queueing 'line' events keeps a scripted printf working": every line piped
\* in is given to a prompt, in order, however they arrive.
NoLineLost ==
    ~tty => script = heard \o (IF line = Null THEN <<>> ELSE <<line>>) \o queued \o piped

\* "A prompt that hangs invisibly in a script is worse than an ugly one": fed
\* by a pipe, the prompts come to an end.
Prompting == ~tty /\ at \notin {"done", "cancelled"}
ScriptsEnd == Prompting ~> ~Prompting

\* "An arrow key must not land in a password."
NoArrowInText == \A i \in DOMAIN buf : buf[i] \notin {"esc", "[", "A", "B"}

===============================================================================
