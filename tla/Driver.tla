------------------------------- MODULE Driver -------------------------------
(***************************************************************************)
(* The driver that holds a conversation without a phone: src/cli.ts, with  *)
(* the server in its own process and one injected worker.                  *)
(*                                                                         *)
(* A turn is the number of its message.  The worker takes messages in the  *)
(* order they arrive, may ask for a permission in a turn, waits for its    *)
(* answer and ends the turn with a result; its event stream may drop and   *)
(* come back, and what is sent meanwhile is lost (DataPlane).  Left out:   *)
(* what is printed.  The worker and the person typing are external.        *)
(***************************************************************************)
EXTENDS Naturals, Sequences, SequencesExt

CONSTANTS
    Null,
    Envs,        \* environments the worker may register
    MaxTurns,    \* bound: messages typed
    MaxRegisters,\* bound: registrations
    MaxDrops     \* bound: drops of the stream

VARIABLES
    phase,    \* "observe", "ask", "wait" or "over"
    last,     \* the environment work was pushed for, or Null
    due,      \* environments whose push is due in 400 ms
    pushes,   \* external: sessions the worker was given, of each environment
    registers,\* external: registrations of the worker
    connected,\* the data plane was reached: wsConnected and sessionId
    stream,   \* the worker's stream is open
    drops,    \* external: how often it has dropped
    turn,     \* messages sent
    inbox,    \* external: messages the worker has yet to take
    working,  \* external: the turn the worker is in, or 0
    asking,   \* external: it waits for an answer to a permission
    wait,     \* onResult: the turn whose end resolves, or 0
    ended     \* of each turn: the turn whose result ended its wait, 0 on a time-out

worker == <<inbox, working, asking>>
handshake == <<last, due, pushes, registers>>
vars == <<phase, handshake, connected, stream, drops, turn, worker, wait, ended>>

TypeOK ==
    /\ phase \in {"observe", "ask", "wait", "over"}
    /\ last \in Envs \cup {Null} /\ due \subseteq Envs /\ pushes \in [Envs -> Nat]
    /\ connected \in BOOLEAN /\ stream \in BOOLEAN /\ turn \in 0..MaxTurns
    /\ working \in 0..turn /\ wait \in 0..turn
    /\ (phase = "wait") = (wait # 0) /\ Len(ended) = turn - (IF wait = 0 THEN 0 ELSE 1)
    /\ \A i \in DOMAIN ended : ended[i] \in 0..turn

Init ==
    /\ phase = "observe" /\ last = Null /\ due = {} /\ pushes = [e \in Envs |-> 0] /\ registers = 0
    /\ connected = FALSE /\ stream = FALSE /\ drops = 0 /\ turn = 0
    /\ inbox = <<>> /\ working = 0 /\ asking = FALSE /\ wait = 0 /\ ended = <<>>

-----------------------------------------------------------------------------
(* The handshake.                                                          *)

\* onEvent: a registration of another environment than the last one.
NewEnv(e) == last # e

Registered(e) ==
    /\ registers < MaxRegisters /\ registers' = registers + 1
    /\ IF NewEnv(e) THEN last' = e /\ due' = due \cup {e} ELSE UNCHANGED <<last, due>>
    /\ UNCHANGED <<phase, pushes, connected, stream, drops, turn, worker, wait, ended>>

Push(e) ==
    /\ e \in due /\ due' = due \ {e} /\ pushes' = [pushes EXCEPT ![e] = @ + 1]
    /\ UNCHANGED <<phase, last, registers, connected, stream, drops, turn, worker, wait, ended>>

\* ws.connect: the worker opens its stream, once it has a session.
Connect ==
    /\ ~stream /\ \E e \in Envs : pushes[e] > 0
    /\ stream' = TRUE /\ connected' = TRUE
    /\ UNCHANGED <<phase, handshake, drops, turn, worker, wait, ended>>

Drop ==
    /\ stream /\ drops < MaxDrops /\ stream' = FALSE /\ drops' = drops + 1
    /\ UNCHANGED <<phase, handshake, connected, turn, worker, wait, ended>>

\* The race of ws.connect with CCC_OBSERVE_MS.
Observed ==
    /\ phase = "observe" /\ connected /\ phase' = "ask"
    /\ UNCHANGED <<handshake, connected, stream, drops, turn, worker, wait, ended>>
ObserveTimeout ==
    /\ phase = "observe" /\ ~connected /\ phase' = "over"
    /\ UNCHANGED <<handshake, connected, stream, drops, turn, worker, wait, ended>>

-----------------------------------------------------------------------------
(* The conversation.                                                       *)

\* Mutant of Sent: the message is sent again, to be sure.
SentTwice(t) == IF stream THEN <<t, t>> ELSE <<>>
\* sendUserMessage: a message without a stream is lost.
Sent(t) == IF stream THEN <<t>> ELSE <<>>

\* sendAndWait: onResult is armed first; a message that was lost is waited
\* for all the same.
Send ==
    /\ phase = "ask" /\ turn < MaxTurns
    /\ turn' = turn + 1 /\ wait' = turn + 1 /\ phase' = "wait"
    /\ inbox' = inbox \o Sent(turn + 1)
    /\ UNCHANGED <<handshake, connected, stream, drops, working, asking, ended>>

\* Mutant of Disarmed: onResult stays when the wait is over.
DisarmedNot == wait
\* sendAndWait, once its wait is over.
Disarmed == 0

\* Mutant of GivesUp: no time-out.
GivesUpNever == FALSE
\* CCC_TURN_TIMEOUT_MS
GivesUp == phase = "wait"

TurnTimeout ==
    /\ GivesUp /\ ended' = Append(ended, 0) /\ wait' = Disarmed /\ phase' = "ask"
    /\ UNCHANGED <<handshake, connected, stream, drops, turn, worker>>

Quit ==
    /\ phase = "ask" /\ phase' = "over"
    /\ UNCHANGED <<handshake, connected, stream, drops, turn, worker, wait, ended>>

\* External: the worker takes a message.
Take ==
    /\ working = 0 /\ inbox # <<>>
    /\ working' = Head(inbox) /\ inbox' = Tail(inbox)
    /\ UNCHANGED <<phase, handshake, connected, stream, drops, turn, asking, wait, ended>>

\* Mutant of answered: a request is only printed.
notAnswered == FALSE
\* handleClaudeEvent: a permission is answered at once, down the stream.
answered == stream

Ask ==
    /\ working # 0 /\ ~asking /\ asking' = ~answered
    /\ UNCHANGED <<phase, handshake, connected, stream, drops, turn, inbox, working, wait, ended>>

\* handleClaudeEvent: a result resolves the turn in flight, whichever it is of.

Result ==
    /\ working # 0 /\ ~asking /\ working' = 0
    /\ IF wait # 0 THEN ended' = Append(ended, working) /\ wait' = Disarmed /\ phase' = "ask"
       ELSE UNCHANGED <<ended, wait, phase>>
    /\ UNCHANGED <<handshake, connected, stream, drops, turn, inbox, asking>>

Next ==
    \/ \E e \in Envs : Registered(e) \/ Push(e)
    \/ Connect \/ Drop \/ Observed \/ ObserveTimeout
    \/ Send \/ TurnTimeout \/ Quit \/ Take \/ Ask \/ Result

Spec == Init /\ [][Next]_vars

\* The timers of sendAndWait fire, and a push that is due is made.
FairSpec == Spec /\ WF_vars(TurnTimeout) /\ \A e \in Envs : WF_vars(Push(e))

-----------------------------------------------------------------------------
(* Properties.                                                             *)

\* A `result` "resolves the in-flight turn" (cli.ts): a wait is ended by the
\* result of its own turn, or by one of an earlier turn that was given up, and
\* no two by the same.
OwnOrLate ==
    \A i \in DOMAIN ended : ended[i] \in {0, i} \/
        (ended[i] < i /\ ended[ended[i]] # ended[i] /\ \A j \in 1..i - 1 : ended[j] # ended[i])

\* Permission requests are answered at once: the worker is left waiting for an
\* answer only if its stream was down.
AskedIsAnswered == asking => drops > 0 \/ ~connected

\* The conversation goes on whatever is lost: no turn is waited for for ever.
InTurn == phase = "wait"
TurnsEnd == InTurn ~> ~InTurn

=============================================================================
