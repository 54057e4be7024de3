--------------------------- MODULE InspectorClient ---------------------------
(***************************************************************************)
(* The client of Bun's debugger (src/injector/ws-client.ts): a WebSocket   *)
(* over a TCP socket, frames put together from whatever segments arrive,   *)
(* and calls that each have a deadline.                                    *)
(*                                                                         *)
(* Bytes are cells that know their frame and their place in it.  The       *)
(* target and the network are external: the target answers calls in any    *)
(* order, late or never, in one frame or two with a ping between, and TCP  *)
(* cuts the stream where it likes.                                         *)
(***************************************************************************)
EXTENDS Naturals, Sequences, SequencesExt

CONSTANTS
    Null,
    Sizes,       \* lengths a frame's payload may have
    MaxCalls,    \* bound: calls
    MaxTold,     \* bound: events, pings and junk from the target
    MaxWire      \* bound: cells on their way

VARIABLES
    sock,      \* the socket: none, handshake, open, ended (FIN sent), destroyed, closed
    connected, \* the promise of connect
    timer,     \* the handshake's timer runs
    closed,    \* _closed
    calls,     \* the promise of each call, in order of _nextId
    pending,   \* _pending
    rx, rxPend, msg, msgOpcode,
    heard,     \* messages handed to _onMessage
    pongs,     \* pongs written
    wire,      \* cells on their way from the target
    target     \* what the target was asked, and what it said and was left to say

reader == <<rx, rxPend, msg, msgOpcode, heard, pongs>>
vars == <<sock, connected, timer, closed, calls, pending, reader, wire, target>>

Ids == 1 .. MaxCalls
Message == [kind : {"answer", "error", "event", "junk"}, id : Ids \cup {Null}]
Promises == {"waiting", "value", "error", "timeout"}
Blob == [kind |-> "blob", id |-> Null]
HeaderMax == 4   \* stands for FRAME_HEADER_MAX: 2 bytes, or 4 with a longer length

TypeOK ==
    /\ sock \in {"none", "handshake", "open", "ended", "destroyed", "closed"}
    /\ connected \in {"none", "waiting", "value", "error"} /\ {timer, closed} \subseteq BOOLEAN
    /\ calls \in Seq(Promises) /\ pending \subseteq Ids
    /\ heard \in Seq(Message) /\ msgOpcode \in {Null, "text", "binary"}
    /\ pongs \in Nat

Init ==
    /\ sock = "none" /\ connected = "none" /\ timer = FALSE /\ closed = FALSE
    /\ calls = <<>> /\ pending = {}
    /\ rx = <<>> /\ rxPend = <<>> /\ msg = <<>> /\ msgOpcode = Null
    /\ heard = <<>> /\ pongs = 0
    /\ wire = <<>>
    /\ target = [asked |-> {}, said |-> <<>>, told |-> 0, ended |-> FALSE]

-----------------------------------------------------------------------------
(* Decoding.  The reader is a record of rx, pend, msg, op and what its     *)
(* messages and control frames make of the client.                         *)

Size(cells) == FoldLeft(LAMBDA n, seg : n + Len(seg), 0, cells)

\* The header at the front of b, if it is there: 2 cells, and 2 more if the
\* length does not fit in them.
frameHeader(b) ==
    IF Len(b) < 2 \/ Len(b) < b[1].frame.header THEN Null
    ELSE [op |-> b[1].frame.op, fin |-> b[1].frame.fin, off |-> b[1].frame.header,
          len |-> b[1].frame.len]

\* _materialize: as many of the segments that wait as n cells need.
materialize(r, n) ==
    IF Len(r.rx) >= n \/ r.pend = <<>> THEN r
    ELSE LET enough == {i \in DOMAIN r.pend : Len(r.rx) + Size(SubSeq(r.pend, 1, i)) >= n}
             i == IF enough = {} THEN Len(r.pend) ELSE CHOOSE i \in enough : \A j \in enough : i <= j
         IN  [r EXCEPT !.rx = FlattenSeq(<<r.rx>> \o SubSeq(r.pend, 1, i)),
                       !.pend = SubSeq(r.pend, i + 1, Len(r.pend))]

\* Mutant of onMessage: the call stays in _pending.
onMessageKeep(r, m) ==
    [r EXCEPT !.heard = Append(@, m),
              !.calls = IF m.id \in r.pending THEN [@ EXCEPT ![m.id] = "value"] ELSE @]

\* _onMessage: the call a message answers is settled; what is not JSON, or
\* answers no call, is left.
onMessage(r, m) ==
    LET s == [r EXCEPT !.heard = Append(@, m)]
    IN  IF m.id \in r.pending
        THEN [s EXCEPT !.pending = @ \ {m.id},
                       !.calls[m.id] = IF m.kind = "error" THEN "error" ELSE "value"]
        ELSE s

\* Mutant of finish: what is binary is handed on, too.
finishAny(r) == onMessage([r EXCEPT !.msg = <<>>], r.msg[1])

\* The last frame of a message; what is binary is dropped.
finish(r) ==
    LET done == [r EXCEPT !.msg = <<>>]
    IN  IF r.op = "text" THEN onMessage(done, r.msg[1]) ELSE done

\* _handleFrame.  A close frame closes the client, a ping is answered unless
\* the client is closed.
handleFrame(r, h, m) ==
    CASE h.op \in {"cont", "text", "binary"} ->
            LET s == [r EXCEPT !.op = IF h.op = "cont" THEN @ ELSE h.op, !.msg = Append(@, m)]
            IN  IF h.fin THEN finish(s) ELSE s
      [] h.op = "close" -> [r EXCEPT !.closed = TRUE]
      [] h.op = "ping" -> IF r.closed THEN r ELSE [r EXCEPT !.pongs = @ + 1]
      [] OTHER -> r

\* Mutant of takeFrame: the last cell of the payload stays.
takeFrameShort(r, h) ==
    handleFrame([r EXCEPT !.rx = SubSeq(@, h.off + h.len, Len(@))], h, r.rx[1].frame.msg)

\* _takeFrame, and the frame's handler.
takeFrame(r, h) ==
    handleFrame([r EXCEPT !.rx = SubSeq(@, h.off + h.len + 1, Len(@))], h, r.rx[1].frame.msg)

\* One turn of the loop of _onBytes: a frame is taken when all of it is there.
nextFrame(r) ==
    LET total == Len(r.rx) + Size(r.pend)
        s == materialize(r, IF total < HeaderMax THEN total ELSE HeaderMax)
        h == frameHeader(s.rx)
    IN  IF total < 2 THEN r
        ELSE IF h = Null \/ total < h.off + h.len THEN s
        ELSE takeFrame(materialize(s, h.off + h.len), h)

\* The loop: it takes no more frames than there are cells, and a turn that takes
\* none is the last.
Frames(r) == FoldLeft(LAMBDA s, n : nextFrame(s), r, [n \in 1 .. Len(r.rx) + Size(r.pend) |-> n])

\* _onBytes, on the variables.
onBytes(chunk) ==
    LET r == Frames([rx |-> rx, pend |-> Append(rxPend, chunk), msg |-> msg, op |-> msgOpcode,
                     heard |-> heard, pongs |-> pongs, pending |-> pending, calls |-> calls,
                     closed |-> closed])
    IN  /\ rx' = r.rx /\ rxPend' = r.pend /\ msg' = r.msg /\ msgOpcode' = r.op
        /\ heard' = r.heard /\ pongs' = r.pongs
        /\ pending' = r.pending /\ calls' = r.calls
        /\ closed' = r.closed
        /\ sock' = IF r.closed THEN "ended" ELSE "open"

-----------------------------------------------------------------------------
(* connect.                                                                *)

Connect ==
    /\ sock = "none"
    /\ sock' = "handshake" /\ connected' = "waiting" /\ timer' = TRUE
    /\ UNCHANGED <<closed, calls, pending, reader, wire, target>>

\* The answer to the upgrade, whole at last, with the first bytes behind it.
Upgraded(n) ==
    /\ sock = "handshake" /\ n \in 0 .. Len(wire)
    /\ connected' = "value" /\ timer' = FALSE
    /\ wire' = SubSeq(wire, n + 1, Len(wire))
    /\ IF n = 0 THEN sock' = "open" /\ UNCHANGED <<calls, pending, closed, reader>>
       ELSE onBytes(SubSeq(wire, 1, n))
    /\ UNCHANGED target

\* Another answer, the wrong key, or too late: the socket is destroyed.  An
\* error of the socket itself is followed by its end.
Refused ==
    /\ sock = "handshake"
    /\ sock' = "destroyed" /\ connected' = "error" /\ timer' = FALSE
    /\ UNCHANGED <<closed, calls, pending, reader, wire, target>>

-----------------------------------------------------------------------------
(* The open socket.                                                        *)

\* A segment of n cells arrives.
Data(n) ==
    /\ sock \in {"open", "ended"} /\ n \in 1 .. Len(wire)
    /\ wire' = SubSeq(wire, n + 1, Len(wire))
    /\ onBytes(SubSeq(wire, 1, n))
    /\ UNCHANGED <<connected, timer, target>>

\* Mutant of AllRejected: the calls are forgotten.
NoneRejected == calls
AllRejected == [id \in DOMAIN calls |-> IF id \in pending THEN "error" ELSE calls[id]]

\* 'close', when the target ended the stream or the process died: what was on
\* its way may be lost.
SockClose ==
    /\ sock \notin {"none", "closed"}
    /\ sock' = "closed" /\ closed' = TRUE /\ timer' = FALSE
    /\ rx' = <<>> /\ rxPend' = <<>> /\ msg' = <<>>
    /\ calls' = AllRejected
    /\ pending' = {}
    /\ wire' = <<>>
    /\ UNCHANGED <<connected, msgOpcode, heard, pongs, target>>

\* close(): callers have a client once connect has resolved.
Close ==
    /\ connected = "value" /\ ~closed
    /\ closed' = TRUE /\ sock' = "ended"
    /\ UNCHANGED <<connected, timer, calls, pending, reader, wire, target>>

-----------------------------------------------------------------------------
(* Calls.                                                                  *)

\* send(): on a client that is closed nothing is written, and nothing is said
\* of it.
Send ==
    /\ connected = "value" /\ Len(calls) < MaxCalls
    /\ LET id == Len(calls) + 1
       IN  /\ calls' = Append(calls, "waiting")
           /\ pending' = pending \cup {id}
           /\ target' = IF closed THEN target
                        ELSE [target EXCEPT !.asked = @ \cup {id}]
    /\ UNCHANGED <<sock, connected, timer, closed, reader, wire>>

\* The deadline of a call that is still in _pending.
Timeout(id) ==
    /\ id \in pending
    /\ pending' = pending \ {id}
    /\ calls' = [calls EXCEPT ![id] = "timeout"]
    /\ UNCHANGED <<sock, connected, timer, closed, reader, wire, target>>

-----------------------------------------------------------------------------
(* The target.                                                             *)

Cells(f) == [k \in 1 .. f.header + f.len |-> [frame |-> f, at |-> k]]
Frame(op, fin, header, len, m) ==
    [op |-> op, fin |-> fin, header |-> header, len |-> len, msg |-> m]

\* A message as one frame, or as two with a ping between them.
Whole(m) == {<<Frame("text", TRUE, h, n, m)>> : h \in {2, 4}, n \in Sizes}
Split(m) == {<<Frame("text", FALSE, 2, 1, m), Frame("ping", TRUE, 2, 0, Null),
               Frame("cont", TRUE, 2, n, m)>> : n \in Sizes}

Say(frames) ==
    LET cells == FlattenSeq([i \in DOMAIN frames |-> Cells(frames[i])])
    IN  /\ sock \in {"handshake", "open", "ended"} /\ ~target.ended
        /\ Len(wire) + Len(cells) <= MaxWire
        /\ wire' = wire \o cells
        /\ UNCHANGED <<sock, connected, timer, closed, calls, pending, reader>>

\* The answer of a call that was asked, a result or an error.
Reply(id) ==
    /\ id \in target.asked
    /\ \E kind \in {"answer", "error"} :
          LET m == [kind |-> kind, id |-> id]
          IN  /\ \E frames \in Whole(m) \cup Split(m) : Say(frames)
              /\ target' = [target EXCEPT !.asked = @ \ {id}, !.said = Append(@, m)]

\* An event, something that is no JSON, and a message that is binary.
Tell ==
    /\ target.told < MaxTold
    /\ \/ \E kind \in {"event", "junk"} :
             LET m == [kind |-> kind, id |-> Null]
             IN  /\ \E frames \in Whole(m) : Say(frames)
                 /\ target' = [target EXCEPT !.told = @ + 1, !.said = Append(@, m)]
       \/ /\ \E op \in {"binary", "ping", "pong"} : Say(<<Frame(op, TRUE, 2, 1, Blob)>>)
          /\ target' = [target EXCEPT !.told = @ + 1]

\* A close frame: nothing follows it.
Goodbye ==
    /\ Say(<<Frame("close", TRUE, 2, 0, Null)>>)
    /\ target' = [target EXCEPT !.ended = TRUE]

Next ==
    \/ Connect \/ Refused \/ SockClose \/ Close \/ Send \/ Tell \/ Goodbye
    \/ \E n \in 0 .. MaxWire : Upgraded(n) \/ Data(n)
    \/ \E id \in Ids : Timeout(id) \/ Reply(id)

Spec == Init /\ [][Next]_vars

\* Timers fire.
FairSpec == Spec /\ \A id \in Ids : WF_vars(Timeout(id))

-----------------------------------------------------------------------------
(* Properties.                                                             *)

\* However TCP cuts the stream, the reader never loses its place in it, and
\* what it has handed on is what the target said, in its order; once every
\* byte of an open socket is read, all of it.
Reassembled ==
    /\ rx # <<>> => rx[1].at = 1
    /\ IsPrefix(heard, target.said)
    /\ sock = "open" /\ wire = <<>> => heard = target.said

\* A call is in _pending exactly while its promise waits: none is settled
\* twice and none is forgotten.
PendingIsWaiting ==
    /\ pending \subseteq DOMAIN calls
    /\ \A id \in DOMAIN calls : id \in pending <=> calls[id] = "waiting"

\* ws-client.ts:21, "Every RPC gets a deadline": a call on a client that is
\* closed is settled, too.
Unsettled(id) == id \in DOMAIN calls /\ calls[id] = "waiting"
CallsSettle == \A id \in Ids : Unsettled(id) ~> ~Unsettled(id)

===============================================================================
