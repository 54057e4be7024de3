---------------------------- MODULE ClientEvents ----------------------------
(***************************************************************************)
(* What the server promises a worker about the messages it sends it: each  *)
(* arrives at most once and in the order it was sent, and it may be lost.  *)
(* The numbers start again when the server does, so a message is named by  *)
(* the server's run and its number in that run.                            *)
(***************************************************************************)
EXTENDS Naturals, Sequences

CONSTANTS Sessions

VARIABLES
    run,    \* number of the server's run
    seq,    \* messages numbered for each session in this run
    queue,  \* messages that may still arrive
    got     \* messages the worker has read

vars == <<run, seq, queue, got>>

Init ==
    /\ run = 0
    /\ seq = [s \in Sessions |-> 0]
    /\ queue = [s \in Sessions |-> <<>>]
    /\ got = [s \in Sessions |-> <<>>]

\* A message is numbered; it is on its way or lost at once.
Send(s) ==
    /\ seq' = [seq EXCEPT ![s] = @ + 1]
    /\ queue' \in {queue, [queue EXCEPT ![s] = Append(@, <<run, seq[s] + 1>>)]}
    /\ UNCHANGED <<run, got>>

\* Everything on its way to one worker is lost.
Lose(s) ==
    /\ queue' = [queue EXCEPT ![s] = <<>>]
    /\ UNCHANGED <<run, seq, got>>

Receive(s) ==
    /\ queue[s] # <<>>
    /\ got' = [got EXCEPT ![s] = Append(@, Head(queue[s]))]
    /\ queue' = [queue EXCEPT ![s] = Tail(@)]
    /\ UNCHANGED <<run, seq>>

\* The server starts again with fresh numbers; nothing sent before arrives.
Restart ==
    /\ run' = run + 1
    /\ seq' = [s \in Sessions |-> 0]
    /\ queue' = [s \in Sessions |-> <<>>]
    /\ UNCHANGED got

Next == Restart \/ \E s \in Sessions : Send(s) \/ Lose(s) \/ Receive(s)

Spec == Init /\ [][Next]_vars

\* m was sent before n.
Before(m, n) == m[1] < n[1] \/ (m[1] = n[1] /\ m[2] < n[2])

\* A worker reads no message twice and none out of order.
InOrder ==
    \A s \in Sessions : \A i, j \in DOMAIN got[s] : i < j => Before(got[s][i], got[s][j])

=============================================================================
