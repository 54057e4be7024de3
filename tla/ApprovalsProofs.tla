--------------------------- MODULE ApprovalsProofs ---------------------------
(***************************************************************************)
(* What the row of the session list, its badge and the phone's sheet show, *)
(* for any calls, turns, batches and losses.                               *)
(*                                                                         *)
(* The invariants are about what is still on its way: the digest once the  *)
(* suspended POST and the outbox have been folded into it (Final), and the *)
(* sheet once the outbox has been relayed (FinalSheet).  A POST moves      *)
(* events along and changes neither, so that what must hold in quiet       *)
(* states can be said in every state.  Out of a turn Final has settled and *)
(* in a turn it is the row of the newest visible call (Settling, Newest);  *)
(* on a server without PostgreSQL each request is asked once and stored    *)
(* before it can be answered (Asking), Final's badge is of the request     *)
(* that waits (Badge), and so is FinalSheet, as long as the phone does not *)
(* reopen the session (Sheet).                                             *)
(***************************************************************************)
EXTENDS Approvals, RecursionLemmas

-----------------------------------------------------------------------------
(* The folds of a batch: foldDigest over a digest, the reducer over the    *)
(* sheet.                                                                  *)

\* Events as the worker emits them: those about a call name it.
Sent == {e \in Event : e.kind \in {"call", "ask", "cancel", "finish"} => e.tool \in Tools}

Folded(d, s) == Reduce(Fold, d, s)
Shown(open, s) == Reduce(ShowSheet, open, s)

FoldStep == [x \in Digest \X Sent |-> Fold(x[1], x[2])]
SheetStep == [x \in (Tools \cup {Null}) \X Sent |-> ShowSheet(x[1], x[2])]

\* An event makes a digest of a digest.
LEMMA FoldTyped == ASSUME NEW d \in Digest, NEW e \in Sent PROVE Fold(d, e) \in Digest
<1>1. /\ d = [turn |-> d.turn, status |-> d.status, current |-> d.current, pending |-> d.pending]
      /\ d.turn \in BOOLEAN /\ d.status \in Statuses
      /\ d.current \in Tools \cup {Null} /\ d.pending \in SUBSET Tools
  BY DEF Digest
<1>2. e.kind \in Kinds /\ (e.kind \in {"call", "ask", "cancel", "finish"} => e.tool \in Tools)
  BY DEF Sent, Event
<1>3. "over" \in Statuses /\ "running" \in Statuses
  BY DEF Statuses
<1>4. Cleared(d) \in Digest /\ Settled(d) \in Digest /\ [d EXCEPT !.turn = TRUE] \in Digest
  BY <1>1, <1>3 DEF Digest, Cleared, Settled
<1>5. CASE e.kind = "call"
  <2>1. e.tool \in Tools BY <1>2, <1>5
  <2>2. [d EXCEPT !.turn = TRUE, !.status = "running", !.current = e.tool] \in Digest
    BY <2>1, <1>1, <1>3 DEF Digest
  <2>3. QED BY <2>2, <1>5 DEF Fold
<1>6. CASE e.kind = "ask"
  <2>1. e.tool \in Tools BY <1>2, <1>6
  <2>2. Asked(d, e.tool) \in Digest BY <2>1, <1>1 DEF Digest, Asked
  <2>3. QED BY <2>2, <1>6 DEF Fold
<1>7. CASE e.kind = "finish"
  <2>1. Finished(d, e.tool) \in Digest BY <1>1, <1>3 DEF Digest, Finished
  <2>2. QED BY <2>1, <1>7 DEF Fold
<1>8. QED BY <1>4, <1>5, <1>6, <1>7 DEF Fold

\* The fold of foldDigest as a step function.
LEMMA FoldStepTyped ==
    /\ StepOn(FoldStep, Digest, Sent)
    /\ \A d \in Digest, e \in Sent : FoldStep[<<d, e>>] = Fold(d, e)
BY FoldTyped DEF FoldStep, StepOn

\* The sheet stays a request or none (model.ts, the control cases).
LEMMA SheetTyped ==
    ASSUME NEW x \in Tools \cup {Null}, NEW e \in Sent PROVE ShowSheet(x, e) \in Tools \cup {Null}
BY DEF ShowSheet, Withdraws, Sent, Event, Kinds

\* The reducer's step as a function.
LEMMA SheetStepTyped ==
    /\ StepOn(SheetStep, Tools \cup {Null}, Sent)
    /\ \A x \in Tools \cup {Null}, e \in Sent : SheetStep[<<x, e>>] = ShowSheet(x, e)
BY SheetTyped DEF SheetStep, StepOn

\* The digests that the fold of a batch goes through.
LEMMA FoldResults ==
    ASSUME NEW d \in Digest, NEW s \in Seq(Sent)
    PROVE  \E a : Results(a, Digest, s, d, FoldStep) /\ Folded(d, s) = a[Len(s)]
<1> DEFINE n == Len(s)
           IsUpto(f) == f = [i \in 0 .. n |-> IF i = 0 THEN d ELSE Fold(f[i - 1], s[i])]
           upto == CHOOSE f : IsUpto(f)
<1>1. Folded(d, s) = upto[n]
  BY DEF Folded, Reduce
<1>2. n \in Nat /\ \A i \in 1 .. n : s[i] \in Sent
  OBVIOUS
<1>3. PICK a : Results(a, Digest, s, d, FoldStep)
  BY FoldStepTyped, FoldExists, FoldSteps
<1>4. a \in [0 .. n -> Digest] /\ a[0] = d /\ \A i \in 1 .. n : a[i] = FoldStep[<<a[i - 1], s[i]>>]
  BY <1>3 DEF Results
<1> HIDE DEF n
<1>5. \A i \in 1 .. n : a[i] = Fold(a[i - 1], s[i])
  <2>1. ASSUME NEW i \in 1 .. n PROVE a[i] = Fold(a[i - 1], s[i])
    <3>1. i - 1 \in 0 .. n BY <1>2
    <3>2. a[i - 1] \in Digest /\ s[i] \in Sent BY <1>2, <1>4, <3>1
    <3>3. QED BY <1>4, <3>2, FoldStepTyped
  <2>2. QED BY <2>1
<1>6. \A i \in 0 .. n : a[i] = IF i = 0 THEN d ELSE Fold(a[i - 1], s[i])
  <2>1. \A i \in 0 .. n : i # 0 => i \in 1 .. n BY <1>2
  <2>2. QED BY <1>4, <1>5, <2>1
<1>7. IsUpto(a)
  BY <1>4, <1>6
<1>8. IsUpto(upto)
  <2> HIDE DEF IsUpto
  <2>1. QED BY <1>7
<1> HIDE DEF upto
<1>9. \A i \in 0 .. n : upto[i] = IF i = 0 THEN d ELSE Fold(upto[i - 1], s[i])
  BY <1>8
<1> DEFINE Same == {i \in 0 .. n : upto[i] = a[i]}
<1>10. 0 .. n \subseteq Same
  <2>1. 0 \in Same BY <1>2, <1>4, <1>9
  <2>2. ASSUME NEW i \in 1 .. n, i - 1 \in Same PROVE i \in Same
    <3>1. i \in 0 .. n /\ i # 0 BY <1>2
    <3>2. upto[i] = Fold(upto[i - 1], s[i]) BY <1>9, <3>1
    <3>3. upto[i - 1] = a[i - 1] BY <2>2
    <3>4. upto[i] = a[i] BY <1>5, <3>2, <3>3
    <3>5. QED BY <3>1, <3>4
  <2> HIDE DEF Same
  <2>3. QED BY <1>2, <2>1, <2>2, UpTo
<1>11. upto[n] = a[n]
  BY <1>2, <1>10
<1>12. QED BY <1>1, <1>3, <1>11 DEF n

\* The sheets that a phone goes through as it reads a batch.
LEMMA SheetResults ==
    ASSUME NEW x \in Tools \cup {Null}, NEW s \in Seq(Sent)
    PROVE  \E a : Results(a, Tools \cup {Null}, s, x, SheetStep) /\ Shown(x, s) = a[Len(s)]
<1> DEFINE n == Len(s)
           IsUpto(f) == f = [i \in 0 .. n |-> IF i = 0 THEN x ELSE ShowSheet(f[i - 1], s[i])]
           upto == CHOOSE f : IsUpto(f)
<1>1. Shown(x, s) = upto[n]
  BY DEF Shown, Reduce
<1>2. n \in Nat /\ \A i \in 1 .. n : s[i] \in Sent
  OBVIOUS
<1>3. PICK a : Results(a, Tools \cup {Null}, s, x, SheetStep)
  BY SheetStepTyped, FoldExists, FoldSteps
<1>4. a \in [0 .. n -> Tools \cup {Null}] /\ a[0] = x /\ \A i \in 1 .. n : a[i] = SheetStep[<<a[i - 1], s[i]>>]
  BY <1>3 DEF Results
<1> HIDE DEF n
<1>5. \A i \in 1 .. n : a[i] = ShowSheet(a[i - 1], s[i])
  <2>1. ASSUME NEW i \in 1 .. n PROVE a[i] = ShowSheet(a[i - 1], s[i])
    <3>1. i - 1 \in 0 .. n BY <1>2
    <3>2. a[i - 1] \in Tools \cup {Null} /\ s[i] \in Sent BY <1>2, <1>4, <3>1
    <3>3. QED BY <1>4, <3>2, SheetStepTyped
  <2>2. QED BY <2>1
<1>6. \A i \in 0 .. n : a[i] = IF i = 0 THEN x ELSE ShowSheet(a[i - 1], s[i])
  <2>1. \A i \in 0 .. n : i # 0 => i \in 1 .. n BY <1>2
  <2>2. QED BY <1>4, <1>5, <2>1
<1>7. IsUpto(a)
  BY <1>4, <1>6
<1>8. IsUpto(upto)
  <2> HIDE DEF IsUpto
  <2>1. QED BY <1>7
<1> HIDE DEF upto
<1>9. \A i \in 0 .. n : upto[i] = IF i = 0 THEN x ELSE ShowSheet(upto[i - 1], s[i])
  BY <1>8
<1> DEFINE Same == {i \in 0 .. n : upto[i] = a[i]}
<1>10. 0 .. n \subseteq Same
  <2>1. 0 \in Same BY <1>2, <1>4, <1>9
  <2>2. ASSUME NEW i \in 1 .. n, i - 1 \in Same PROVE i \in Same
    <3>1. i \in 0 .. n /\ i # 0 BY <1>2
    <3>2. upto[i] = ShowSheet(upto[i - 1], s[i]) BY <1>9, <3>1
    <3>3. upto[i - 1] = a[i - 1] BY <2>2
    <3>4. upto[i] = a[i] BY <1>5, <3>2, <3>3
    <3>5. QED BY <3>1, <3>4
  <2> HIDE DEF Same
  <2>3. QED BY <1>2, <2>1, <2>2, UpTo
<1>11. upto[n] = a[n]
  BY <1>2, <1>10
<1>12. QED BY <1>1, <1>3, <1>11 DEF n

\* To fold nothing, one event, and one batch after another.
LEMMA Folding ==
    ASSUME NEW d \in Digest, NEW s \in Seq(Sent)
    PROVE  /\ Folded(d, s) \in Digest
           /\ Folded(d, <<>>) = d
           /\ \A e \in Sent : Folded(d, <<e>>) = Fold(d, e)
           /\ \A t \in Seq(Sent) : Folded(d, s \o t) = Folded(Folded(d, s), t)
<1>1. PICK a : Results(a, Digest, s, d, FoldStep) /\ Folded(d, s) = a[Len(s)]
  BY FoldResults
<1>2. Folded(d, s) \in Digest
  <2>1. Len(s) \in 0 .. Len(s) OBVIOUS
  <2>2. QED BY <1>1, <2>1 DEF Results
<1>3. Folded(d, <<>>) = d
  <2>1. <<>> \in Seq(Sent) /\ Len(<<>>) = 0 OBVIOUS
  <2>2. PICK c : Results(c, Digest, <<>>, d, FoldStep) /\ Folded(d, <<>>) = c[Len(<<>>)]
    BY <2>1, FoldResults
  <2>3. QED BY <2>1, <2>2 DEF Results
<1>4. ASSUME NEW e \in Sent PROVE Folded(d, <<e>>) = Fold(d, e)
  <2>1. <<e>> \in Seq(Sent) /\ Len(<<e>>) = 1 /\ <<e>>[1] = e OBVIOUS
  <2>2. PICK c : Results(c, Digest, <<e>>, d, FoldStep) /\ Folded(d, <<e>>) = c[Len(<<e>>)]
    BY <2>1, FoldResults
  <2>3. c[0] = d /\ c[1] = FoldStep[<<c[0], <<e>>[1]>>] BY <2>1, <2>2 DEF Results
  <2>4. QED BY <2>1, <2>2, <2>3, FoldStepTyped
<1>5. ASSUME NEW t \in Seq(Sent) PROVE Folded(d, s \o t) = Folded(Folded(d, s), t)
  <2>1. s \o t \in Seq(Sent) OBVIOUS
  <2>2. PICK c : Results(c, Digest, t, Folded(d, s), FoldStep) /\ Folded(Folded(d, s), t) = c[Len(t)]
    BY <1>2, FoldResults
  <2>3. PICK e : Results(e, Digest, s \o t, d, FoldStep) /\ Folded(d, s \o t) = e[Len(s \o t)]
    BY <2>1, FoldResults
  <2>4. e[Len(s \o t)] = c[Len(t)]
    BY <1>1, <2>2, <2>3, ResultsConcat
  <2>5. QED BY <2>2, <2>3, <2>4
<1>6. QED BY <1>2, <1>3, <1>4, <1>5
\* The sheet after nothing, one event, and one batch after another.
LEMMA Showing ==
    ASSUME NEW x \in Tools \cup {Null}, NEW s \in Seq(Sent)
    PROVE  /\ Shown(x, s) \in Tools \cup {Null}
           /\ Shown(x, <<>>) = x
           /\ \A e \in Sent : Shown(x, <<e>>) = ShowSheet(x, e)
           /\ \A t \in Seq(Sent) : Shown(x, s \o t) = Shown(Shown(x, s), t)
<1>1. PICK a : Results(a, Tools \cup {Null}, s, x, SheetStep) /\ Shown(x, s) = a[Len(s)]
  BY SheetResults
<1>2. Shown(x, s) \in Tools \cup {Null}
  <2>1. Len(s) \in 0 .. Len(s) OBVIOUS
  <2>2. QED BY <1>1, <2>1 DEF Results
<1>3. Shown(x, <<>>) = x
  <2>1. <<>> \in Seq(Sent) /\ Len(<<>>) = 0 OBVIOUS
  <2>2. PICK c : Results(c, Tools \cup {Null}, <<>>, x, SheetStep) /\ Shown(x, <<>>) = c[Len(<<>>)]
    BY <2>1, SheetResults
  <2>3. QED BY <2>1, <2>2 DEF Results
<1>4. ASSUME NEW e \in Sent PROVE Shown(x, <<e>>) = ShowSheet(x, e)
  <2>1. <<e>> \in Seq(Sent) /\ Len(<<e>>) = 1 /\ <<e>>[1] = e OBVIOUS
  <2>2. PICK c : Results(c, Tools \cup {Null}, <<e>>, x, SheetStep) /\ Shown(x, <<e>>) = c[Len(<<e>>)]
    BY <2>1, SheetResults
  <2>3. c[0] = x /\ c[1] = SheetStep[<<c[0], <<e>>[1]>>] BY <2>1, <2>2 DEF Results
  <2>4. QED BY <2>1, <2>2, <2>3, SheetStepTyped
<1>5. ASSUME NEW t \in Seq(Sent) PROVE Shown(x, s \o t) = Shown(Shown(x, s), t)
  <2>1. s \o t \in Seq(Sent) OBVIOUS
  <2>2. PICK c : Results(c, Tools \cup {Null}, t, Shown(x, s), SheetStep) /\ Shown(Shown(x, s), t) = c[Len(t)]
    BY <1>2, SheetResults
  <2>3. PICK e : Results(e, Tools \cup {Null}, s \o t, x, SheetStep) /\ Shown(x, s \o t) = e[Len(s \o t)]
    BY <2>1, SheetResults
  <2>4. e[Len(s \o t)] = c[Len(t)]
    BY <1>1, <2>2, <2>3, ResultsConcat
  <2>5. QED BY <2>2, <2>3, <2>4
<1>6. QED BY <1>2, <1>3, <1>4, <1>5

\* A fold, one event at a time.
LEMMA FoldWalk ==
    ASSUME NEW d \in Digest, NEW s \in Seq(Sent)
    PROVE  \E a \in [0 .. Len(s) -> Digest] :
              /\ a[0] = d /\ a[Len(s)] = Folded(d, s)
              /\ \A i \in 1 .. Len(s) : s[i] \in Sent /\ a[i] = Fold(a[i - 1], s[i])
<1>1. PICK a : Results(a, Digest, s, d, FoldStep) /\ Folded(d, s) = a[Len(s)]
  BY FoldResults
<1>2. a \in [0 .. Len(s) -> Digest] /\ a[0] = d
  BY <1>1 DEF Results
<1>3. ASSUME NEW i \in 1 .. Len(s) PROVE s[i] \in Sent /\ a[i] = Fold(a[i - 1], s[i])
  <2>1. s[i] \in Sent /\ i - 1 \in 0 .. Len(s) OBVIOUS
  <2>2. a[i] = FoldStep[<<a[i - 1], s[i]>>] BY <1>1 DEF Results
  <2>3. a[i - 1] \in Digest BY <2>1, <1>2
  <2>4. QED BY <2>1, <2>2, <2>3, FoldStepTyped
<1>4. QED BY <1>1, <1>2, <1>3

\* The sheet, one event at a time.
LEMMA SheetWalk ==
    ASSUME NEW x \in Tools \cup {Null}, NEW s \in Seq(Sent)
    PROVE  \E a \in [0 .. Len(s) -> Tools \cup {Null}] :
              /\ a[0] = x /\ a[Len(s)] = Shown(x, s)
              /\ \A i \in 1 .. Len(s) : s[i] \in Sent /\ a[i] = ShowSheet(a[i - 1], s[i])
<1>1. PICK a : Results(a, Tools \cup {Null}, s, x, SheetStep) /\ Shown(x, s) = a[Len(s)]
  BY SheetResults
<1>2. a \in [0 .. Len(s) -> Tools \cup {Null}] /\ a[0] = x
  BY <1>1 DEF Results
<1>3. ASSUME NEW i \in 1 .. Len(s) PROVE s[i] \in Sent /\ a[i] = ShowSheet(a[i - 1], s[i])
  <2>1. s[i] \in Sent /\ i - 1 \in 0 .. Len(s) OBVIOUS
  <2>2. a[i] = SheetStep[<<a[i - 1], s[i]>>] BY <1>1 DEF Results
  <2>3. a[i - 1] \in Tools \cup {Null} BY <2>1, <1>2
  <2>4. QED BY <2>1, <2>2, <2>3, SheetStepTyped
<1>4. QED BY <1>1, <1>2, <1>3

-----------------------------------------------------------------------------
(* What an event does to each field of a digest.                           *)

\* foldDigest (store.ts), field by field.
LEMMA FoldFields ==
    ASSUME NEW d \in Digest, NEW e \in Sent
    PROVE  /\ Fold(d, e).turn = IF \/ e.kind = "prompt"
                                   \/ e.kind = "call" /\ e.tool \notin Hidden THEN TRUE
                                ELSE IF EndsTurn(e) THEN FALSE ELSE d.turn
           /\ Fold(d, e).pending = IF e.kind = "ask" THEN d.pending \cup {e.tool}
                                   ELSE IF e.kind = "finish" THEN d.pending \ {e.tool}
                                   ELSE IF e.kind = "cancel" \/ EndsTurn(e) THEN {}
                                   ELSE d.pending
           /\ Fold(d, e).current = IF e.kind = "call" /\ e.tool \notin Hidden THEN e.tool
                                   ELSE d.current
           /\ Fold(d, e).status = IF e.kind = "call" /\ e.tool \notin Hidden THEN "running"
                                  ELSE IF \/ e.kind = "finish" /\ e.tool = d.current
                                          \/ EndsTurn(e) /\ d.status = "running" THEN "over"
                                  ELSE d.status
<1>1. DOMAIN d = {"turn", "status", "current", "pending"}
  BY DEF Digest
<1>2. CASE e.kind = "prompt"
  BY <1>1, <1>2 DEF Fold, EndsTurn
<1>3. CASE e.kind = "call"
  BY <1>1, <1>3 DEF Fold, EndsTurn
<1>4. CASE e.kind = "ask"
  BY <1>1, <1>4 DEF Fold, EndsTurn, Asked
<1>5. CASE e.kind = "cancel"
  BY <1>1, <1>5 DEF Fold, EndsTurn, Cleared
<1>6. CASE e.kind = "finish"
  BY <1>1, <1>6 DEF Fold, EndsTurn, Finished
<1>7. CASE EndsTurn(e)
  BY <1>1, <1>7 DEF Fold, EndsTurn, Settled
<1>8. CASE e.kind \in {"init", "echo"}
  BY <1>1, <1>8 DEF Fold, EndsTurn
<1>9. e.kind \in {"init", "prompt", "echo", "call", "ask", "cancel", "finish"} \/ EndsTurn(e)
  BY DEF Sent, Event, Kinds, EndsTurn
<1>10. QED BY <1>2, <1>3, <1>4, <1>5, <1>6, <1>7, <1>8, <1>9

\* A digest that shows no more of a turn and of requests than another, and one
\* with the same row.
Fainter(d, e) == (d.turn => e.turn) /\ d.pending \subseteq e.pending
SameRow(d, e) == d.status = e.status /\ d.current = e.current

\* Both stay so, whatever is folded into both.
LEMMA FoldKeepsFainter ==
    ASSUME NEW d \in Digest, NEW e \in Digest, NEW s \in Seq(Sent), Fainter(d, e)
    PROVE  Fainter(Folded(d, s), Folded(e, s))
<1>1. PICK a \in [0 .. Len(s) -> Digest] :
              /\ a[0] = d /\ a[Len(s)] = Folded(d, s)
              /\ \A i \in 1 .. Len(s) : s[i] \in Sent /\ a[i] = Fold(a[i - 1], s[i])
  BY FoldWalk
<1>2. PICK b \in [0 .. Len(s) -> Digest] :
              /\ b[0] = e /\ b[Len(s)] = Folded(e, s)
              /\ \A i \in 1 .. Len(s) : s[i] \in Sent /\ b[i] = Fold(b[i - 1], s[i])
  BY FoldWalk
<1> DEFINE Fine == {i \in 0 .. Len(s) : Fainter(a[i], b[i])}
<1>3. 0 \in Fine
  BY <1>1, <1>2
<1>4. ASSUME NEW i \in 1 .. Len(s), i - 1 \in Fine PROVE i \in Fine
  <2> DEFINE u == a[i - 1]
             v == b[i - 1]
             ev == s[i]
  <2>1. u \in Digest /\ v \in Digest /\ ev \in Sent /\ Fainter(u, v)
    BY <1>1, <1>4
  <2>2. a[i] = Fold(u, ev) /\ b[i] = Fold(v, ev)
    BY <1>1, <1>2
  <2> HIDE DEF u, v, ev
  <2>3. Fainter(Fold(u, ev), Fold(v, ev))
    BY <2>1, FoldFields DEF Fainter
  <2>4. QED BY <2>2, <2>3
<1>5. Len(s) \in Fine
  <2>1. Len(s) \in Nat OBVIOUS
  <2> HIDE DEF Fine
  <2>2. 0 .. Len(s) \subseteq Fine BY <2>1, <1>3, <1>4, UpTo
  <2>3. QED BY <2>1, <2>2
<1>6. QED BY <1>1, <1>2, <1>5

\* Two digests with one row keep one, whatever is folded into both.
LEMMA FoldKeepsRow ==
    ASSUME NEW d \in Digest, NEW e \in Digest, NEW s \in Seq(Sent), SameRow(d, e)
    PROVE  SameRow(Folded(d, s), Folded(e, s))
<1>1. PICK a \in [0 .. Len(s) -> Digest] :
              /\ a[0] = d /\ a[Len(s)] = Folded(d, s)
              /\ \A i \in 1 .. Len(s) : s[i] \in Sent /\ a[i] = Fold(a[i - 1], s[i])
  BY FoldWalk
<1>2. PICK b \in [0 .. Len(s) -> Digest] :
              /\ b[0] = e /\ b[Len(s)] = Folded(e, s)
              /\ \A i \in 1 .. Len(s) : s[i] \in Sent /\ b[i] = Fold(b[i - 1], s[i])
  BY FoldWalk
<1> DEFINE Fine == {i \in 0 .. Len(s) : SameRow(a[i], b[i])}
<1>3. 0 \in Fine
  BY <1>1, <1>2
<1>4. ASSUME NEW i \in 1 .. Len(s), i - 1 \in Fine PROVE i \in Fine
  <2> DEFINE u == a[i - 1]
             v == b[i - 1]
             ev == s[i]
  <2>1. u \in Digest /\ v \in Digest /\ ev \in Sent /\ SameRow(u, v)
    BY <1>1, <1>4
  <2>2. a[i] = Fold(u, ev) /\ b[i] = Fold(v, ev)
    BY <1>1, <1>2
  <2> HIDE DEF u, v, ev
  <2>3. u.current = v.current /\ u.status = v.status
    BY <2>1 DEF SameRow
  <2>4. Fold(u, ev).current = Fold(v, ev).current
    <3>1. /\ Fold(u, ev).current = IF ev.kind = "call" /\ ev.tool \notin Hidden THEN ev.tool ELSE u.current
          /\ Fold(v, ev).current = IF ev.kind = "call" /\ ev.tool \notin Hidden THEN ev.tool ELSE v.current
      BY <2>1, FoldFields
    <3>2. QED BY <2>3, <3>1
  <2>5. Fold(u, ev).status = Fold(v, ev).status
    <3> DEFINE Stays(d2) == IF ev.kind = "call" /\ ev.tool \notin Hidden THEN "running"
                            ELSE IF \/ ev.kind = "finish" /\ ev.tool = d2.current
                                    \/ EndsTurn(ev) /\ d2.status = "running" THEN "over"
                            ELSE d2.status
    <3>1. Fold(u, ev).status = Stays(u)
      BY <2>1, FoldFields
    <3>2. Fold(v, ev).status = Stays(v)
      BY <2>1, FoldFields
    <3>3. Stays(u) = Stays(v)
      BY <2>3
    <3> HIDE DEF Stays
    <3>4. QED BY <3>1, <3>2, <3>3
  <2>6. QED BY <2>2, <2>4, <2>5 DEF SameRow
<1>5. Len(s) \in Fine
  <2>1. Len(s) \in Nat OBVIOUS
  <2> HIDE DEF Fine
  <2>2. 0 .. Len(s) \subseteq Fine BY <2>1, <1>3, <1>4, UpTo
  <2>3. QED BY <2>1, <2>2
<1>6. QED BY <1>1, <1>2, <1>5

\* The row is never that of a call to a hidden tool.
LEMMA FoldShowsVisible ==
    ASSUME NEW d \in Digest, NEW s \in Seq(Sent), d.current \notin Hidden
    PROVE  Folded(d, s).current \notin Hidden
<1>1. PICK a \in [0 .. Len(s) -> Digest] :
              /\ a[0] = d /\ a[Len(s)] = Folded(d, s)
              /\ \A i \in 1 .. Len(s) : s[i] \in Sent /\ a[i] = Fold(a[i - 1], s[i])
  BY FoldWalk
<1> DEFINE Fine == {i \in 0 .. Len(s) : a[i].current \notin Hidden}
<1>3. 0 \in Fine
  BY <1>1
<1>4. ASSUME NEW i \in 1 .. Len(s), i - 1 \in Fine PROVE i \in Fine
  <2> DEFINE u == a[i - 1]
             ev == s[i]
  <2>1. u \in Digest /\ ev \in Sent /\ u.current \notin Hidden
    BY <1>1, <1>4
  <2>2. a[i] = Fold(u, ev)
    BY <1>1
  <2> HIDE DEF u, ev
  <2>3. Fold(u, ev).current \notin Hidden
    BY <2>1, FoldFields
  <2>4. QED BY <2>2, <2>3
<1>5. Len(s) \in Fine
  <2>1. Len(s) \in Nat OBVIOUS
  <2> HIDE DEF Fine
  <2>2. 0 .. Len(s) \subseteq Fine BY <2>1, <1>3, <1>4, UpTo
  <2>3. QED BY <2>1, <2>2
<1>6. QED BY <1>1, <1>5

\* A request is pending after a fold only if it was before or was asked in it.
LEMMA PendingWasAsked ==
    ASSUME NEW d \in Digest, NEW s \in Seq(Sent), NEW t \in Folded(d, s).pending
    PROVE  t \in d.pending \/ \E i \in DOMAIN s : s[i].kind = "ask" /\ s[i].tool = t
<1>1. PICK a \in [0 .. Len(s) -> Digest] :
              /\ a[0] = d /\ a[Len(s)] = Folded(d, s)
              /\ \A i \in 1 .. Len(s) : s[i] \in Sent /\ a[i] = Fold(a[i - 1], s[i])
  BY FoldWalk
<1> SUFFICES ASSUME t \notin d.pending, \A i \in DOMAIN s : ~(s[i].kind = "ask" /\ s[i].tool = t)
             PROVE  FALSE
  OBVIOUS
<1> DEFINE Fine == {i \in 0 .. Len(s) : t \notin a[i].pending}
<1>3. 0 \in Fine
  BY <1>1
<1>4. ASSUME NEW i \in 1 .. Len(s), i - 1 \in Fine PROVE i \in Fine
  <2> DEFINE u == a[i - 1]
             ev == s[i]
  <2>1. u \in Digest /\ ev \in Sent /\ t \notin u.pending /\ ~(ev.kind = "ask" /\ ev.tool = t)
    BY <1>1, <1>4
  <2>2. a[i] = Fold(u, ev)
    BY <1>1
  <2> HIDE DEF u, ev
  <2>3. t \notin Fold(u, ev).pending
    <3>1. Fold(u, ev).pending = IF ev.kind = "ask" THEN u.pending \cup {ev.tool}
                              ELSE IF ev.kind = "finish" THEN u.pending \ {ev.tool}
                              ELSE IF ev.kind = "cancel" \/ EndsTurn(ev) THEN {}
                              ELSE u.pending
      BY <2>1, FoldFields
    <3>2. QED BY <2>1, <3>1
  <2>4. QED BY <2>2, <2>3
<1>5. Len(s) \in Fine
  <2>1. Len(s) \in Nat OBVIOUS
  <2> HIDE DEF Fine
  <2>2. 0 .. Len(s) \subseteq Fine BY <2>1, <1>3, <1>4, UpTo
  <2>3. QED BY <2>1, <2>2
<1>6. QED BY <1>1, <1>5

\* A sheet opened over nothing is the one opened over another, or none.
LEMMA SheetOverNull ==
    ASSUME NEW x \in Tools \cup {Null}, NEW s \in Seq(Sent)
    PROVE  Shown(Null, s) \in {Null, Shown(x, s)}
<1>1. PICK a \in [0 .. Len(s) -> Tools \cup {Null}] :
              /\ a[0] = Null /\ a[Len(s)] = Shown(Null, s)
              /\ \A i \in 1 .. Len(s) : s[i] \in Sent /\ a[i] = ShowSheet(a[i - 1], s[i])
  <2>1. Null \in Tools \cup {Null} OBVIOUS
  <2>2. QED BY <2>1, SheetWalk
<1>2. PICK b \in [0 .. Len(s) -> Tools \cup {Null}] :
              /\ b[0] = x /\ b[Len(s)] = Shown(x, s)
              /\ \A i \in 1 .. Len(s) : s[i] \in Sent /\ b[i] = ShowSheet(b[i - 1], s[i])
  BY SheetWalk
<1> DEFINE Fine == {i \in 0 .. Len(s) : a[i] \in {Null, b[i]}}
<1>3. 0 \in Fine
  BY <1>1, <1>2
<1>4. ASSUME NEW i \in 1 .. Len(s), i - 1 \in Fine PROVE i \in Fine
  <2> DEFINE ev == s[i]
  <2>1. a[i - 1] \in {Null, b[i - 1]} /\ a[i] = ShowSheet(a[i - 1], ev) /\ b[i] = ShowSheet(b[i - 1], ev)
    BY <1>1, <1>2, <1>4
  <2> HIDE DEF ev
  <2>2. a[i] \in {Null, b[i]}
    BY <2>1 DEF ShowSheet
  <2>3. QED BY <2>2
<1>5. Len(s) \in Fine
  <2>1. Len(s) \in Nat OBVIOUS
  <2> HIDE DEF Fine
  <2>2. 0 .. Len(s) \subseteq Fine BY <2>1, <1>3, <1>4, UpTo
  <2>3. QED BY <2>1, <2>2
<1>6. QED BY <1>1, <1>2, <1>5

\* A sheet is of a request that was open before or was asked in the batch.
LEMMA SheetWasAsked ==
    ASSUME NEW x \in Tools \cup {Null}, NEW s \in Seq(Sent), Shown(x, s) \notin {Null, x}
    PROVE  \E i \in DOMAIN s : s[i].kind = "ask" /\ s[i].tool = Shown(x, s)
<1>1. PICK a \in [0 .. Len(s) -> Tools \cup {Null}] :
              /\ a[0] = x /\ a[Len(s)] = Shown(x, s)
              /\ \A i \in 1 .. Len(s) : s[i] \in Sent /\ a[i] = ShowSheet(a[i - 1], s[i])
  BY SheetWalk
<1> DEFINE t == Shown(x, s)
<1> SUFFICES ASSUME \A i \in DOMAIN s : ~(s[i].kind = "ask" /\ s[i].tool = t)
             PROVE  FALSE
  OBVIOUS
<1> DEFINE Fine == {i \in 0 .. Len(s) : a[i] # t}
<1> HIDE DEF t
<1>3. 0 \in Fine
  BY <1>1 DEF t
<1>4. ASSUME NEW i \in 1 .. Len(s), i - 1 \in Fine PROVE i \in Fine
  <2> DEFINE ev == s[i]
  <2>1. a[i - 1] # t /\ a[i] = ShowSheet(a[i - 1], ev) /\ ~(ev.kind = "ask" /\ ev.tool = t)
    BY <1>1, <1>4
  <2> HIDE DEF ev
  <2>2. a[i] # t
    BY <2>1 DEF ShowSheet, t
  <2>3. QED BY <2>2
<1>5. Len(s) \in Fine
  <2>1. Len(s) \in Nat OBVIOUS
  <2> HIDE DEF Fine
  <2>2. 0 .. Len(s) \subseteq Fine BY <2>1, <1>3, <1>4, UpTo
  <2>3. QED BY <2>1, <2>2
<1>6. QED BY <1>1, <1>5 DEF t

\* turnActiveIn after one more event.
LEMMA TurnAppended ==
    ASSUME NEW d \in Digest, NEW q \in Seq(Sent), NEW e \in Sent, d.turn => turnActiveIn(q)
    PROVE  Fold(d, e).turn => turnActiveIn(Append(q, e))
<1> DEFINE n == Len(q)
           r == Append(q, e)
<1>1. n \in Nat /\ DOMAIN q = 1 .. n /\ Len(r) = n + 1 /\ DOMAIN r = 1 .. n + 1
      /\ r[n + 1] = e /\ \A i \in 1 .. n : r[i] = q[i]
  OBVIOUS
<1> HIDE DEF n, r
<1>2. Len(q) = n
  BY DEF n
<1>3. SUFFICES ASSUME Fold(d, e).turn PROVE turnActiveIn(r)
  BY DEF r
<1>4. CASE ShowsTurn(e)
  <2>1. n + 1 \in DOMAIN r /\ ShowsTurn(r[n + 1]) BY <1>1, <1>4
  <2>2. \A j \in (n + 1) + 1 .. Len(r) : ~EndsTurn(r[j]) BY <1>1
  <2>3. QED BY <2>1, <2>2 DEF turnActiveIn
<1>5. CASE ~ShowsTurn(e)
  <2>1. d.turn /\ ~EndsTurn(e)
    BY <1>3, <1>5, FoldFields DEF ShowsTurn
  <2>2. PICK i \in 1 .. n : ShowsTurn(q[i]) /\ \A j \in i + 1 .. n : ~EndsTurn(q[j])
    BY <2>1, <1>1, <1>2 DEF turnActiveIn
  <2>3. i \in DOMAIN r /\ ShowsTurn(r[i])
    BY <2>2, <1>1
  <2>4. ASSUME NEW j \in i + 1 .. Len(r) PROVE ~EndsTurn(r[j])
    <3>1. j = n + 1 \/ (j \in i + 1 .. n /\ j \in 1 .. n) BY <1>1
    <3>2. QED BY <3>1, <1>1, <2>1, <2>2
  <2>5. QED BY <2>3, <2>4 DEF turnActiveIn
<1>6. QED BY <1>4, <1>5

\* What the digest calls a turn, the history does too, batch after batch.
LEMMA TurnStored ==
    ASSUME NEW d \in Digest, NEW q \in Seq(Sent), NEW s \in Seq(Sent), d.turn => turnActiveIn(q)
    PROVE  Folded(d, s).turn => turnActiveIn(q \o s)
<1>1. PICK a \in [0 .. Len(s) -> Digest] :
              /\ a[0] = d /\ a[Len(s)] = Folded(d, s)
              /\ \A i \in 1 .. Len(s) : s[i] \in Sent /\ a[i] = Fold(a[i - 1], s[i])
  BY FoldWalk
<1> DEFINE H(i) == q \o SubSeq(s, 1, i)
           Fine == {i \in 0 .. Len(s) : a[i].turn => turnActiveIn(H(i))}
<1>2. H(0) = q /\ H(Len(s)) = q \o s
  OBVIOUS
<1>3. ASSUME NEW i \in 1 .. Len(s)
      PROVE  H(i - 1) \in Seq(Sent) /\ H(i) = Append(H(i - 1), s[i])
  <2>1. SubSeq(s, 1, i) = Append(SubSeq(s, 1, i - 1), s[i]) OBVIOUS
  <2>2. SubSeq(s, 1, i - 1) \in Seq(Sent) OBVIOUS
  <2> DEFINE p == SubSeq(s, 1, i - 1)
  <2> HIDE DEF p
  <2>3. p \in Seq(Sent) /\ s[i] \in Sent BY <2>2 DEF p
  <2>4. q \o Append(p, s[i]) = Append(q \o p, s[i]) /\ q \o p \in Seq(Sent) BY <2>3
  <2>5. QED BY <2>1, <2>4 DEF p
<1> HIDE DEF H
<1>4. 0 \in Fine
  BY <1>1, <1>2
<1>5. ASSUME NEW i \in 1 .. Len(s), i - 1 \in Fine PROVE i \in Fine
  <2> DEFINE u == a[i - 1]
             ev == s[i]
             h == H(i - 1)
  <2>1. u \in Digest /\ ev \in Sent /\ h \in Seq(Sent) /\ (u.turn => turnActiveIn(h))
    BY <1>1, <1>3, <1>5
  <2>2. a[i] = Fold(u, ev) /\ H(i) = Append(h, ev)
    BY <1>1, <1>3
  <2> HIDE DEF u, ev, h
  <2>3. Fold(u, ev).turn => turnActiveIn(Append(h, ev))
    BY <2>1, TurnAppended
  <2>4. a[i].turn => turnActiveIn(H(i)) BY <2>2, <2>3
  <2>5. QED BY <2>4
<1>6. Len(s) \in Fine
  <2>1. Len(s) \in Nat OBVIOUS
  <2> HIDE DEF Fine
  <2>2. 0 .. Len(s) \subseteq Fine BY <2>1, <1>4, <1>5, UpTo
  <2>3. QED BY <2>1, <2>2
<1>7. QED BY <1>1, <1>2, <1>6

-----------------------------------------------------------------------------
(* The invariants.                                                         *)

\* What the proofs assume of the constants.
Parameters ==
    /\ Null \notin Tools /\ Hidden \subseteq Tools /\ HasPool \in BOOLEAN
    /\ MaxTurns \in Nat /\ MaxBatch \in Nat

\* The digest once everything the worker emitted has been folded.
Final == Folded(Folded(digest, posting), outbox)

\* The same of the sheet.
FinalSheet == Shown(sheet, outbox)

\* Every event names the call it is about.
Typing ==
    /\ TypeOK
    /\ outbox \in Seq(Sent) /\ posting \in Seq(Sent) /\ stored \in Seq(Sent)

\* Out of a turn nothing runs, and what is on its way settles the row; what the
\* digest calls a turn, the history does.
Settling ==
    /\ worker # "turn" =>
          /\ Running = {} /\ Final.pending = {} /\ ~Final.turn
          /\ used["restart"] = 0 => Final.status # "running"
    /\ digest.turn => turnActiveIn(stored)

\* In a turn, what is on its way makes the row that of the newest visible call.
Newest ==
    /\ Final.current \notin Hidden
    /\ worker = "turn" /\ used["restart"] = 0 =>
          (Final.status = "running" <=> Final.current \in Running)

\* The types of what is on its way.
LEMMA FinalTyped ==
    ASSUME Typing PROVE Folded(digest, posting) \in Digest /\ Final \in Digest
BY Folding DEF Final, Typing, TypeOK

\* A step of the worker appends what it emits to what is on its way.
LEMMA FinalEmit ==
    ASSUME Typing, NEW events \in Seq(Sent), Emit(events), UNCHANGED <<digest, posting>>
    PROVE  Final' = Folded(Final, events)
<1>1. Folded(digest, posting) \in Digest /\ outbox \in Seq(Sent)
  BY FinalTyped DEF Typing
<1>2. Final' = Folded(Folded(digest, posting), outbox \o events)
  BY DEF Final, Emit
<1>3. QED BY <1>1, <1>2, Folding DEF Final

\* The same of one event.
LEMMA FinalEmitOne ==
    ASSUME Typing, NEW e \in Sent, Emit(<<e>>), UNCHANGED <<digest, posting>>
    PROVE  Final' = Fold(Final, e)
<1>1. <<e>> \in Seq(Sent)
  OBVIOUS
<1>2. Final' = Folded(Final, <<e>>)
  BY <1>1, FinalEmit
<1>3. QED BY <1>2, FinalTyped, Folding, <<>> \in Seq(Sent)

\* Emitted events are of Sent.
LEMMA EmittedTyped ==
    /\ \A k \in Kinds \ {"call", "ask", "cancel", "finish"} : E(k, Null) \in Sent
    /\ \A k \in Kinds, t \in Tools : E(k, t) \in Sent
BY DEF E, Sent, Event

\* The parts of an outbox that is posted.
LEMMA SplitOutbox ==
    ASSUME Typing, NEW k \in Nat, k <= Len(outbox)
    PROVE  /\ SubSeq(outbox, 1, k) \in Seq(Sent)
           /\ SubSeq(outbox, k + 1, Len(outbox)) \in Seq(Sent)
           /\ outbox = SubSeq(outbox, 1, k) \o SubSeq(outbox, k + 1, Len(outbox))
<1> DEFINE n == Len(outbox)
<1>1. outbox \in Seq(Sent) /\ n \in Nat /\ k \in 0 .. n
  BY DEF Typing
<1>2. SubSeq(outbox, 1, k) \in Seq(Sent) /\ SubSeq(outbox, k + 1, n) \in Seq(Sent)
  <2>1. k \in 1 - 1 .. n OBVIOUS
  <2>2. \A i \in 1 .. k : outbox[i] \in Sent BY <1>1
  <2>3. \A i \in k + 1 .. n : outbox[i] \in Sent BY <1>1
  <2>4. QED BY <1>1, <2>2, <2>3, SubSeqProperties
<1>3. SubSeq(outbox, 1, k) \o SubSeq(outbox, k + 1, n) = SubSeq(outbox, 1, n)
  <2>1. 1 \in 1 .. n + 1 /\ k \in 1 - 1 .. n /\ n \in k .. n BY <1>1
  <2>2. QED BY <1>1, <2>1, ConcatAdjacentSubSeq
<1>4. SubSeq(outbox, 1, n) = outbox
  BY <1>1, SubSeqFull
<1>5. QED BY <1>2, <1>3, <1>4

\* A POST moves events along, and nothing on its way is lost or folded twice.
LEMMA FinalPost ==
    ASSUME Parameters, Typing, NEW k \in 1 .. MaxBatch, Post(k) PROVE Final' = Final
<1> DEFINE batch == SubSeq(outbox, 1, k)
           rest == SubSeq(outbox, k + 1, Len(outbox))
<1>1. k \in Nat /\ k <= Len(outbox) /\ posting = <<>> /\ outbox' = rest
  BY DEF Post, Parameters
<1>2. batch \in Seq(Sent) /\ rest \in Seq(Sent) /\ outbox = batch \o rest
  BY <1>1, SplitOutbox
<1>3. digest \in Digest
  BY DEF Typing, TypeOK
<1>4. \/ posting' = batch /\ digest' = digest
      \/ posting' = <<>> /\ digest' = Folded(digest, batch)
  BY <1>1 DEF Post, Folded
<1> HIDE DEF batch, rest
<1>5. Folded(digest, batch) \in Digest
  BY <1>2, <1>3, Folding
<1>6. Folded(digest', posting') = Folded(digest, batch)
  BY <1>4, <1>5, Folding, <<>> \in Seq(Sent)
<1>7. Final = Folded(Folded(digest, batch), rest)
  <2>1. Folded(digest, posting) = digest BY <1>1, <1>2, <1>3, Folding
  <2>2. Final = Folded(digest, batch \o rest) BY <1>2, <2>1 DEF Final
  <2>3. QED BY <2>2, <1>2, <1>3, Folding
<1>8. QED BY <1>1, <1>6, <1>7 DEF Final

\* The resumed half of a POST folds what it held, and nothing else.
LEMMA FinalResume ==
    ASSUME Typing, ResumePost PROVE Final' = Final
<1>1. digest' = Folded(digest, posting) /\ posting' = <<>> /\ outbox' = outbox
  BY DEF ResumePost, Folded
<1>2. Folded(digest', posting') = Folded(digest, posting)
  BY <1>1, FinalTyped, Folding, <<>> \in Seq(Sent)
<1>3. QED BY <1>1, <1>2 DEF Final

\* An answer forgets requests and leaves the row alone.
LEMMA FinalAnswered ==
    ASSUME Typing, HandleAnswer
    PROVE  Fainter(Final', Final) /\ SameRow(Final', Final)
<1>1. digest' = Cleared(digest) /\ posting' = posting /\ outbox' = outbox
  BY DEF HandleAnswer
<1>2. digest \in Digest /\ posting \in Seq(Sent) /\ outbox \in Seq(Sent)
  BY DEF Typing, TypeOK
<1>3. Cleared(digest) \in Digest /\ Fainter(Cleared(digest), digest) /\ SameRow(Cleared(digest), digest)
  BY <1>2 DEF Cleared, Digest, Fainter, SameRow
<1>4. /\ Folded(Cleared(digest), posting) \in Digest /\ Folded(digest, posting) \in Digest
      /\ Fainter(Folded(Cleared(digest), posting), Folded(digest, posting))
      /\ SameRow(Folded(Cleared(digest), posting), Folded(digest, posting))
  BY <1>2, <1>3, Folding, FoldKeepsFainter, FoldKeepsRow
<1>5. QED BY <1>1, <1>2, <1>4, FoldKeepsFainter, FoldKeepsRow DEF Final

\* A restart forgets the turn and the requests.
LEMMA FinalRestarted ==
    ASSUME Parameters, Typing, Restart
    PROVE  Fainter(Final', Final) /\ Final'.current \notin Hidden
<1>1. posting' = posting /\ outbox' = outbox
  BY DEF Restart
<1>2. digest \in Digest /\ posting \in Seq(Sent) /\ outbox \in Seq(Sent)
  BY DEF Typing, TypeOK
<1>3. PICK column \in Statuses : digest' = [Blank EXCEPT !.status = column]
  BY DEF Restart, Typing, TypeOK, Digest
<1>4. digest' \in Digest /\ Fainter(digest', digest) /\ digest'.current \notin Hidden
  BY <1>2, <1>3 DEF Blank, Digest, Fainter, Parameters
<1>5. /\ Folded(digest', posting) \in Digest /\ Folded(digest, posting) \in Digest
      /\ Fainter(Folded(digest', posting), Folded(digest, posting))
      /\ Folded(digest', posting).current \notin Hidden
  BY <1>2, <1>4, Folding, FoldKeepsFainter, FoldShowsVisible
<1>6. QED BY <1>1, <1>2, <1>5, FoldKeepsFainter, FoldShowsVisible DEF Final

\* The types of the first state.
LEMMA TypingInit == Parameters /\ Init => Typing
<1> SUFFICES ASSUME Parameters, Init PROVE Typing
  OBVIOUS
<1>1. <<>> \in Seq(Event) /\ <<>> \in Seq(Sent) /\ <<>> \in Seq(Tools)
  OBVIOUS
<1>2. Blank \in Digest
  BY DEF Blank, Digest, Statuses
<1>3. turns \in 0 .. MaxTurns /\ worker \in {"idle", "turn", "gone"}
      /\ call \in [Tools -> {"new", "open", "asking", "answered", "over"}]
  BY DEF Init, Parameters
<1>4. used \in [{"detach", "restart", "reopen"} -> Nat]
  BY DEF Init
<1>5. TypeOK
  BY <1>1, <1>2, <1>3, <1>4 DEF TypeOK, Init, Statuses
<1>6. QED BY <1>1, <1>5 DEF Typing, Init

\* Events of Sent are events.
LEMMA SentAreEvents == ASSUME NEW s \in Seq(Sent) PROVE s \in Seq(Event)
<1>1. \A i \in 1 .. Len(s) : s[i] \in Event
  BY DEF Sent
<1>2. QED BY <1>1

\* A step of the worker keeps the types.
LEMMA TypingWorker == Parameters /\ Typing /\ WorkerStep => Typing'
<1> SUFFICES ASSUME Parameters, Typing, WorkerStep PROVE Typing'
  OBVIOUS
<1>1. ASSUME NEW events \in Seq(Sent), Emit(events) PROVE outbox' \in Seq(Sent)
  BY <1>1 DEF Emit, Typing
<1>2. \A k \in Kinds \ {"call", "ask", "cancel", "finish"} : <<E(k, Null)>> \in Seq(Sent)
  BY EmittedTyped
<1>3. \A k \in Kinds, t \in Tools : <<E(k, t)>> \in Seq(Sent)
  BY EmittedTyped
<1>4. <<E("init", Null), E("prompt", Null)>> \in Seq(Sent)
  BY EmittedTyped DEF Kinds
<1>5. Stopped \in [Tools -> {"new", "open", "asking", "answered", "over"}]
  BY DEF Stopped, Typing, TypeOK
<1>6. /\ outbox' \in Seq(Sent) /\ turns' \in 0 .. MaxTurns
      /\ worker' \in {"idle", "turn", "gone"}
      /\ call' \in [Tools -> {"new", "open", "asking", "answered", "over"}]
      /\ wire' \in Seq(Tools)
      /\ UNCHANGED <<attached, posting, stored, digest, rowVars, phoneVars, used>>
  <2>0. /\ outbox \in Seq(Sent) /\ turns \in 0 .. MaxTurns
        /\ worker \in {"idle", "turn", "gone"}
        /\ call \in [Tools -> {"new", "open", "asking", "answered", "over"}]
        /\ wire \in Seq(Tools) /\ MaxTurns \in Nat
    BY DEF Typing, TypeOK, Parameters
  <2>1. CASE StartTurn
    <3>1. turns' \in 0 .. MaxTurns BY <2>0, <2>1 DEF StartTurn
    <3>2. <<E("prompt", Null)>> \in Seq(Sent) BY <1>2 DEF Kinds
    <3>3. outbox' \in Seq(Sent) BY <2>1, <3>2, <1>1, <1>4 DEF StartTurn
    <3>4. QED BY <2>0, <2>1, <3>1, <3>3 DEF StartTurn, ServerAndPhone
  <2>2. CASE LocalCommand
    <3>1. turns' \in 0 .. MaxTurns BY <2>0, <2>2 DEF LocalCommand
    <3>2. <<E("echo", Null)>> \in Seq(Sent) BY <1>2 DEF Kinds
    <3>3. outbox' \in Seq(Sent) BY <2>2, <3>2, <1>1 DEF LocalCommand
    <3>4. QED BY <2>0, <2>2, <3>1, <3>3 DEF LocalCommand, ServerAndPhone
  <2>3. CASE ReadAnswer
    <3>1. Head(wire) \in Tools /\ Tail(wire) \in Seq(Tools) BY <2>0, <2>3 DEF ReadAnswer
    <3>2. QED BY <2>0, <2>3, <3>1 DEF ReadAnswer, phoneVars, rowVars
  <2>4. CASE EndTurn
    BY <2>0, <2>4, <1>1, <1>2, <1>5 DEF EndTurn, ServerAndPhone, Kinds
  <2>5. CASE Exit
    BY <2>0, <2>5, <1>1, <1>2, <1>5 DEF Exit, ServerAndPhone, Kinds
  <2>6. ASSUME NEW t \in Tools, Call(t) \/ Ask(t) \/ AnswerInTerminal(t) \/ Finish(t)
        PROVE  /\ outbox' \in Seq(Sent)
               /\ call' \in [Tools -> {"new", "open", "asking", "answered", "over"}]
               /\ UNCHANGED <<turns, worker, wire, attached, posting, stored, digest, rowVars,
                              phoneVars, used>>
    <3>1. CASE Call(t) BY <2>0, <3>1, <1>1, <1>3 DEF Call, ServerAndPhone, Kinds
    <3>2. CASE Ask(t) BY <2>0, <3>2, <1>1, <1>3 DEF Ask, ServerAndPhone, Kinds
    <3>3. CASE AnswerInTerminal(t)
      BY <2>0, <3>3, <1>1, <1>3 DEF AnswerInTerminal, ServerAndPhone, Kinds
    <3>4. CASE Finish(t) BY <2>0, <3>4, <1>1, <1>3 DEF Finish, ServerAndPhone, Kinds
    <3>5. QED BY <2>6, <3>1, <3>2, <3>3, <3>4
  <2>7. QED BY <2>0, <2>1, <2>2, <2>3, <2>4, <2>5, <2>6 DEF WorkerStep
<1>7. outbox' \in Seq(Event)
  BY <1>6, SentAreEvents
<1>8. TypeOK'
  BY <1>6, <1>7 DEF Typing, TypeOK, rowVars, phoneVars
<1>9. QED BY <1>6, <1>8 DEF Typing

\* So does a step of the server and of the phone.
LEMMA TypingServer == Parameters /\ Typing /\ (ServerStep \/ Answer \/ Reopen) => Typing'
<1> SUFFICES ASSUME Parameters, Typing, ServerStep \/ Answer \/ Reopen PROVE Typing'
  OBVIOUS
<1>0. /\ outbox \in Seq(Sent) /\ posting \in Seq(Sent) /\ stored \in Seq(Sent)
      /\ attached \in BOOLEAN /\ dirty \in BOOLEAN /\ HasPool \in BOOLEAN
      /\ wire \in Seq(Tools) /\ answers \in Seq(Tools) /\ digest \in Digest
      /\ saved \in Statuses /\ sheet \in Tools \cup {Null}
      /\ used \in [{"detach", "restart", "reopen"} -> Nat]
  BY DEF Typing, TypeOK, Parameters
<1> DEFINE Lapses == {"detach", "restart", "reopen"}
<1>10. ASSUME NEW u \in Lapses PROVE [used EXCEPT ![u] = @ + 1] \in [Lapses -> Nat]
  BY <1>0
<1>1. Shown(Null, stored) \in Tools \cup {Null}
  BY <1>0, Showing
<1>2. /\ outbox' \in Seq(Sent) /\ posting' \in Seq(Sent) /\ stored' \in Seq(Sent)
      /\ attached' \in BOOLEAN /\ dirty' \in BOOLEAN
      /\ wire' \in Seq(Tools) /\ answers' \in Seq(Tools) /\ digest' \in Digest
      /\ saved' \in Statuses /\ sheet' \in Tools \cup {Null}
      /\ used' \in [{"detach", "restart", "reopen"} -> Nat]
      /\ UNCHANGED workerVars
  <2>1. ASSUME NEW k \in 1 .. MaxBatch, Post(k)
        PROVE  /\ outbox' \in Seq(Sent) /\ posting' \in Seq(Sent) /\ stored' \in Seq(Sent)
               /\ digest' \in Digest /\ sheet' \in Tools \cup {Null} /\ dirty' \in BOOLEAN
               /\ UNCHANGED <<workerVars, attached, wire, saved, answers, used>>
    <3> DEFINE batch == SubSeq(outbox, 1, k)
    <3>1. k \in Nat /\ k <= Len(outbox) BY <2>1 DEF Parameters, Post
    <3>2. batch \in Seq(Sent) /\ SubSeq(outbox, k + 1, Len(outbox)) \in Seq(Sent)
      BY <3>1, SplitOutbox
    <3>3. Shown(sheet, batch) \in Tools \cup {Null} /\ Folded(digest, batch) \in Digest
      BY <3>2, <1>0, Showing, Folding
    <3>4. stored \o batch \in Seq(Sent) BY <3>2, <1>0
    <3>5. sheet' = Shown(sheet, batch) /\ outbox' = SubSeq(outbox, k + 1, Len(outbox))
          /\ dirty' = HasPool
      BY <2>1 DEF Post, Shown
    <3>6. \/ posting' = batch /\ UNCHANGED <<stored, digest>>
          \/ UNCHANGED posting /\ digest' = Folded(digest, batch) /\ stored' = stored \o batch
      BY <2>1 DEF Post, Folded
    <3>7. UNCHANGED <<workerVars, attached, wire, saved, answers, used>>
      BY <2>1 DEF Post
    <3> HIDE DEF batch
    <3>8. QED BY <3>2, <3>3, <3>4, <3>5, <3>6, <3>7, <1>0
  <2>2. CASE ResumePost
    <3>1. Folded(digest, posting) \in Digest BY FinalTyped
    <3>2. stored \o posting \in Seq(Sent) BY <1>0
    <3>3. QED BY <2>2, <3>1, <3>2, <1>0 DEF ResumePost, Folded, rowVars, phoneVars
  <2>3. CASE HandleAnswer
    <3>1. Cleared(digest) \in Digest BY <1>0 DEF Cleared, Digest
    <3>2. Head(answers) \in Tools /\ Tail(answers) \in Seq(Tools) BY <1>0, <2>3 DEF HandleAnswer
    <3>3. Append(wire, Head(answers)) \in Seq(Tools) BY <3>2, <1>0
    <3>4. QED BY <2>3, <3>1, <3>2, <3>3, <1>0 DEF HandleAnswer
  <2>4. CASE Flush
    <3>1. digest.status \in Statuses BY <1>0 DEF Digest
    <3>2. QED BY <2>4, <3>1, <1>0 DEF Flush, phoneVars
  <2>5. CASE LoseStream
    <3>1. used' \in [Lapses -> Nat] BY <2>5, <1>10 DEF LoseStream
    <3>2. wire' \in Seq(Tools) BY <2>5 DEF LoseStream
    <3> HIDE DEF Lapses
    <3>3. UNCHANGED <<workerVars, outbox, posting, stored, digest, saved, phoneVars>> /\ attached' = FALSE /\ dirty' = HasPool
      BY <2>5 DEF LoseStream
    <3>4. QED BY <3>1, <3>2, <3>3, <1>0 DEF phoneVars, Lapses
  <2>6. CASE OpenStream
    BY <2>6, <1>0 DEF OpenStream, phoneVars
  <2>7. CASE Restart
    <3>1. PICK column : /\ column = IF dirty THEN digest.status ELSE saved
                        /\ digest' = [Blank EXCEPT !.status = column] /\ saved' = column
      BY <2>7 DEF Restart
    <3>2. column \in Statuses BY <3>1, <1>0 DEF Digest
    <3>3. digest' \in Digest BY <3>1, <3>2 DEF Blank, Digest
    <3>4. used' \in [Lapses -> Nat] BY <2>7, <1>10 DEF Restart
    <3>5. /\ sheet' = Shown(Null, stored) /\ wire' = <<>> /\ answers' = <<>>
          /\ attached' = FALSE /\ dirty' = FALSE
          /\ UNCHANGED <<workerVars, outbox, posting, stored>>
      BY <2>7 DEF Restart, Shown
    <3>6. <<>> \in Seq(Tools) OBVIOUS
    <3>7. QED BY <3>1, <3>2, <3>3, <3>4, <3>5, <3>6, <1>0, <1>1
  <2>8. CASE Answer
    <3>1. sheet \in Tools BY <1>0, <2>8 DEF Answer
    <3>2. QED BY <2>8, <3>1, <1>0 DEF Answer, rowVars
  <2>9. CASE Reopen
    BY <2>9, <1>0, <1>1 DEF Reopen, rowVars, Shown
  <2>10. QED BY <1>0, <2>1, <2>2, <2>3, <2>4, <2>5, <2>6, <2>7, <2>8, <2>9 DEF ServerStep
<1>3. outbox' \in Seq(Event) /\ posting' \in Seq(Event) /\ stored' \in Seq(Event)
  BY <1>2, SentAreEvents
<1>4. TypeOK'
  BY <1>2, <1>3 DEF Typing, TypeOK, workerVars
<1>5. QED BY <1>2, <1>4 DEF Typing

\* A batch of two events.
LEMMA FoldTwo ==
    ASSUME NEW d \in Digest, NEW p \in Sent, NEW q \in Sent
    PROVE  <<p, q>> \in Seq(Sent) /\ Folded(d, <<p, q>>) = Fold(Fold(d, p), q)
<1>1. <<p, q>> = <<p>> \o <<q>> /\ <<p>> \in Seq(Sent) /\ <<q>> \in Seq(Sent)
  <2>1. <<p>> \in Seq(Sent) /\ <<q>> \in Seq(Sent) /\ <<p, q>> \in Seq(Sent) OBVIOUS
  <2>2. <<p, q>> = Append(<<p>>, q) OBVIOUS
  <2>3. Append(<<p>>, q) = <<p>> \o <<q>> BY <2>1, AppendIsConcat
  <2>4. QED BY <2>1, <2>2, <2>3
<1>2. Folded(d, <<p>>) = Fold(d, p)
  BY <1>1, Folding
<1>3. Fold(d, p) \in Digest
  BY FoldTyped
<1>4. Folded(d, <<p>> \o <<q>>) = Folded(Fold(d, p), <<q>>)
  BY <1>1, <1>2, Folding
<1>5. Folded(Fold(d, p), <<q>>) = Fold(Fold(d, p), q)
  BY <1>1, <1>3, Folding
<1>6. <<p, q>> \in Seq(Sent)
  OBVIOUS
<1>7. QED BY <1>1, <1>4, <1>5, <1>6

\* What the worker's steps add to what is on its way: nothing when a turn
\* starts, a local command runs or an answer is read, otherwise the event.
LEMMA FinalWorker ==
    ASSUME Parameters, Typing
    PROVE  /\ StartTurn \/ LocalCommand =>
                 /\ Final'.pending = Final.pending /\ SameRow(Final', Final)
                 /\ LocalCommand => Final'.turn = Final.turn
           /\ ReadAnswer => Final' = Final
           /\ EndTurn \/ Exit =>
                 /\ Final'.pending = {} /\ ~Final'.turn /\ Final'.status # "running"
                 /\ Final'.current = Final.current
           /\ \A t \in Tools :
                 /\ Call(t) => Final' = Fold(Final, E("call", t))
                 /\ Ask(t) => Final' = Fold(Final, E("ask", t))
                 /\ AnswerInTerminal(t) => Final' = Fold(Final, E("cancel", t))
                 /\ Finish(t) => Final' = Fold(Final, E("finish", t))
<1>1. Final \in Digest
  BY FinalTyped
<1>2. /\ E("init", Null) \in Sent /\ E("prompt", Null) \in Sent /\ E("echo", Null) \in Sent
      /\ E("result", Null) \in Sent /\ E("summary", Null) \in Sent /\ E("reset", Null) \in Sent
      /\ E("shutdown", Null) \in Sent
  BY EmittedTyped DEF Kinds
<1>3. \A t \in Tools : /\ E("call", t) \in Sent /\ E("ask", t) \in Sent
                       /\ E("cancel", t) \in Sent /\ E("finish", t) \in Sent
  BY EmittedTyped DEF Kinds
<1>4. \A k, t : E(k, t).kind = k /\ E(k, t).tool = t
  BY DEF E
<1>5. ASSUME NEW e \in Sent, e.kind \in {"init", "echo", "prompt"}
      PROVE  /\ Fold(Final, e).pending = Final.pending /\ SameRow(Fold(Final, e), Final)
             /\ e.kind # "prompt" => Fold(Final, e).turn = Final.turn
  BY <1>1, <1>5, FoldFields DEF SameRow, EndsTurn
<1>6. ASSUME NEW e \in Sent, EndsTurn(e)
      PROVE  /\ Fold(Final, e).pending = {} /\ ~Fold(Final, e).turn
             /\ Fold(Final, e).status # "running" /\ Fold(Final, e).current = Final.current
  BY <1>1, <1>6, FoldFields DEF EndsTurn
<1>7. ASSUME StartTurn PROVE Final'.pending = Final.pending /\ SameRow(Final', Final)
  <2>1. UNCHANGED <<digest, posting>> BY <1>7 DEF StartTurn, ServerAndPhone
  <2>2. CASE Emit(<<E("prompt", Null)>>)
    <3>1. Final' = Fold(Final, E("prompt", Null)) BY <2>1, <2>2, <1>2, FinalEmitOne
    <3>2. QED BY <3>1, <1>2, <1>4, <1>5
  <2>3. CASE Emit(<<E("init", Null), E("prompt", Null)>>)
    <3> DEFINE p == E("init", Null)
               q == E("prompt", Null)
    <3>1. p \in Sent /\ q \in Sent /\ p.kind = "init" /\ q.kind = "prompt" /\ Emit(<<p, q>>)
      BY <2>3, <1>2, <1>4
    <3> HIDE DEF p, q
    <3>2. <<p, q>> \in Seq(Sent) /\ Folded(Final, <<p, q>>) = Fold(Fold(Final, p), q)
      BY <3>1, <1>1, FoldTwo
    <3>3. Final' = Folded(Final, <<p, q>>)
      BY <3>1, <3>2, <2>1, FinalEmit
    <3>6. PICK d \in Digest : d = Fold(Final, p) /\ Final' = Fold(d, q)
      BY <3>1, <3>2, <3>3, <1>1, FoldTyped
    <3>7. d.pending = Final.pending /\ SameRow(d, Final)
      BY <3>1, <3>6, <1>5
    <3>8. Fold(d, q).pending = d.pending /\ SameRow(Fold(d, q), d)
      BY <3>1, FoldFields DEF SameRow, EndsTurn
    <3>9. QED BY <3>6, <3>7, <3>8 DEF SameRow
  <2>4. QED BY <1>7, <2>2, <2>3 DEF StartTurn
<1>8. ASSUME LocalCommand
      PROVE  /\ Final'.pending = Final.pending /\ SameRow(Final', Final)
             /\ Final'.turn = Final.turn
  <2>1. UNCHANGED <<digest, posting>> /\ Emit(<<E("echo", Null)>>)
    BY <1>8 DEF LocalCommand, ServerAndPhone
  <2>2. Final' = Fold(Final, E("echo", Null)) BY <2>1, <1>2, FinalEmitOne
  <2>3. QED BY <2>2, <1>2, <1>4, <1>5
<1>9. ReadAnswer => Final' = Final
  BY DEF ReadAnswer, Final
<1> DEFINE Over(d) == d.pending = {} /\ ~d.turn /\ d.status # "running" /\ d.current = Final.current
<1>10. ASSUME EndTurn PROVE Over(Final')
  <2>1. UNCHANGED <<digest, posting>> BY <1>10 DEF EndTurn, ServerAndPhone
  <2>2. PICK k \in {"result", "summary", "reset"} : Emit(<<E(k, Null)>>)
    BY <1>10 DEF EndTurn
  <2>3. E(k, Null) \in Sent /\ EndsTurn(E(k, Null)) BY <1>2, <1>4 DEF EndsTurn
  <2>4. Final' = Fold(Final, E(k, Null)) BY <2>1, <2>2, <2>3, FinalEmitOne
  <2>5. QED BY <2>3, <2>4, <1>6
<1>11. ASSUME Exit PROVE Over(Final')
  <2>1. UNCHANGED <<digest, posting>> /\ Emit(<<E("shutdown", Null)>>)
    BY <1>11 DEF Exit, ServerAndPhone
  <2>2. EndsTurn(E("shutdown", Null)) BY <1>4 DEF EndsTurn
  <2>3. Final' = Fold(Final, E("shutdown", Null)) BY <2>1, <1>2, FinalEmitOne
  <2>4. QED BY <2>2, <2>3, <1>2, <1>6
<1>12. ASSUME NEW t \in Tools
       PROVE  /\ Call(t) => Final' = Fold(Final, E("call", t))
              /\ Ask(t) => Final' = Fold(Final, E("ask", t))
              /\ AnswerInTerminal(t) => Final' = Fold(Final, E("cancel", t))
              /\ Finish(t) => Final' = Fold(Final, E("finish", t))
  <2>1. /\ Call(t) => Emit(<<E("call", t)>>) /\ UNCHANGED <<digest, posting>>
        /\ Ask(t) => Emit(<<E("ask", t)>>) /\ UNCHANGED <<digest, posting>>
        /\ AnswerInTerminal(t) => Emit(<<E("cancel", t)>>) /\ UNCHANGED <<digest, posting>>
        /\ Finish(t) => Emit(<<E("finish", t)>>) /\ UNCHANGED <<digest, posting>>
    BY DEF Call, Ask, AnswerInTerminal, Finish, ServerAndPhone
  <2>2. QED BY <2>1, <1>3, FinalEmitOne
<1>13. StartTurn \/ LocalCommand =>
                 /\ Final'.pending = Final.pending /\ SameRow(Final', Final)
                 /\ LocalCommand => Final'.turn = Final.turn
  <2>1. QED BY <1>7, <1>8
<1>14. QED BY <1>9, <1>10, <1>11, <1>12, <1>13

\* What runs after a step of the worker.
LEMMA RunningAfter ==
    ASSUME Typing
    PROVE  /\ StartTurn \/ LocalCommand \/ ReadAnswer => Running' = Running
           /\ EndTurn \/ Exit => Running' = {} /\ Waiting' = {}
           /\ \A t \in Tools :
                 /\ Call(t) => Running' = Running \cup {t} /\ t \notin Running
                 /\ Ask(t) \/ AnswerInTerminal(t) => Running' = Running /\ t \in Running
                 /\ Finish(t) => Running' = Running \ {t} /\ t \in Running
<1>1. call \in [Tools -> {"new", "open", "asking", "answered", "over"}] /\ wire \in Seq(Tools)
  BY DEF Typing, TypeOK
<1>2. StartTurn \/ LocalCommand => Running' = Running
  BY DEF StartTurn, LocalCommand, Running
<1>3. ReadAnswer => Running' = Running
  <2>1. SUFFICES ASSUME ReadAnswer PROVE Running' = Running OBVIOUS
  <2>2. Head(wire) \in Tools BY <2>1, <1>1 DEF ReadAnswer
  <2>3. call' = [call EXCEPT ![Head(wire)] = IF @ = "asking" THEN "answered" ELSE @]
    BY <2>1 DEF ReadAnswer
  <2>4. QED BY <2>2, <2>3, <1>1 DEF Running
<1>4. EndTurn \/ Exit => Running' = {} /\ Waiting' = {}
  <2>1. SUFFICES ASSUME EndTurn \/ Exit PROVE Running' = {} /\ Waiting' = {} OBVIOUS
  <2>2. call' = Stopped BY <2>1 DEF EndTurn, Exit
  <2>3. \A t \in Tools : Stopped[t] = IF t \in Running THEN "over" ELSE call[t]
    BY DEF Stopped
  <2>4. \A t \in Tools : call'[t] \notin {"open", "asking", "answered"}
    BY <2>2, <2>3 DEF Running
  <2>5. QED BY <2>4 DEF Running, Waiting
<1>5. ASSUME NEW t \in Tools
      PROVE  /\ Call(t) => Running' = Running \cup {t} /\ t \notin Running
             /\ Ask(t) \/ AnswerInTerminal(t) => Running' = Running /\ t \in Running
             /\ Finish(t) => Running' = Running \ {t} /\ t \in Running
  BY <1>1 DEF Call, Ask, AnswerInTerminal, Finish, Running
<1>6. QED BY <1>2, <1>3, <1>4, <1>5

\* Settling and Newest together: that of the row as long as it was not loaded.
RowInv == Typing /\ Settling /\ Newest

\* Before the first turn the row is blank.
LEMMA RowInit == Parameters /\ Init => RowInv
<1> SUFFICES ASSUME Parameters, Init PROVE RowInv
  OBVIOUS
<1>1. Typing
  BY TypingInit
<1>2. Final = Blank /\ Blank \in Digest
  <2>1. Blank \in Digest BY DEF Blank, Digest, Statuses
  <2>2. digest = Blank /\ outbox = <<>> /\ posting = <<>> /\ <<>> \in Seq(Sent) BY DEF Init
  <2>3. QED BY <2>1, <2>2, Folding DEF Final
<1>3. Running = {}
  BY DEF Running, Init
<1>4. Settling
  BY <1>2, <1>3 DEF Settling, Init, Blank
<1>5. Newest
  BY <1>2 DEF Newest, Init, Blank, Parameters
<1>6. QED BY <1>1, <1>4, <1>5 DEF RowInv

\* Every step of the worker keeps the row in step.
LEMMA RowWorker == Parameters /\ RowInv /\ WorkerStep => RowInv'
<1> SUFFICES ASSUME Parameters, RowInv, WorkerStep PROVE RowInv'
  OBVIOUS
<1>1. Typing /\ Typing'
  BY TypingWorker DEF RowInv
<1>2. /\ worker # "turn" =>
            /\ Running = {} /\ Final.pending = {} /\ ~Final.turn
            /\ used["restart"] = 0 => Final.status # "running"
      /\ digest.turn => turnActiveIn(stored)
      /\ Final.current \notin Hidden
      /\ worker = "turn" /\ used["restart"] = 0 =>
            (Final.status = "running" <=> Final.current \in Running)
  BY DEF RowInv, Settling, Newest
<1>3. UNCHANGED <<digest, stored, used>>
  BY DEF WorkerStep, StartTurn, LocalCommand, ReadAnswer, EndTurn, Exit, Call, Ask,
     AnswerInTerminal, Finish, ServerAndPhone
<1>4. digest'.turn => turnActiveIn(stored')
  BY <1>2, <1>3
<1> DEFINE Goal == /\ worker' # "turn" =>
                         /\ Running' = {} /\ Final'.pending = {} /\ ~Final'.turn
                         /\ used'["restart"] = 0 => Final'.status # "running"
                   /\ Final'.current \notin Hidden
                   /\ worker' = "turn" /\ used'["restart"] = 0 =>
                         (Final'.status = "running" <=> Final'.current \in Running')
<1>5. CASE StartTurn
  <2>1. Final'.pending = Final.pending /\ SameRow(Final', Final) /\ Running' = Running
    BY <1>1, <1>5, FinalWorker, RunningAfter
  <2>2. worker = "idle" /\ worker' = "turn" BY <1>5 DEF StartTurn
  <2>3. Goal BY <2>1, <2>2, <1>2, <1>3 DEF SameRow
  <2>4. QED BY <2>3, <1>1, <1>4 DEF RowInv, Settling, Newest
<1>6. CASE LocalCommand
  <2>1. /\ Final'.pending = Final.pending /\ SameRow(Final', Final) /\ Running' = Running
        /\ Final'.turn = Final.turn
    BY <1>1, <1>6, FinalWorker, RunningAfter
  <2>2. worker' = worker BY <1>6 DEF LocalCommand
  <2>3. Goal BY <2>1, <2>2, <1>2, <1>3 DEF SameRow
  <2>4. QED BY <2>3, <1>1, <1>4 DEF RowInv, Settling, Newest
<1>7. CASE ReadAnswer
  <2>1. Final' = Final /\ Running' = Running
    BY <1>1, <1>7, FinalWorker, RunningAfter
  <2>2. worker' = worker BY <1>7 DEF ReadAnswer
  <2>3. Goal BY <2>1, <2>2, <1>2, <1>3
  <2>4. QED BY <2>3, <1>1, <1>4 DEF RowInv, Settling, Newest
<1>8. CASE EndTurn \/ Exit
  <2>1. /\ Final'.pending = {} /\ ~Final'.turn /\ Final'.status # "running"
        /\ Final'.current = Final.current /\ Running' = {}
    BY <1>1, <1>8, FinalWorker, RunningAfter
  <2>2. worker' # "turn" BY <1>8 DEF EndTurn, Exit
  <2>3. Goal BY <2>1, <2>2, <1>2, <1>3
  <2>4. QED BY <2>3, <1>1, <1>4 DEF RowInv, Settling, Newest
<1>9. ASSUME NEW t \in Tools, Call(t) \/ Ask(t) \/ AnswerInTerminal(t) \/ Finish(t) PROVE RowInv'
  <2>1. worker = "turn" /\ worker' = "turn"
    <3>1. worker' = worker BY <1>9 DEF Call, Ask, AnswerInTerminal, Finish
    <3>2. CASE Call(t) BY <3>1, <3>2 DEF Call
    <3>3. CASE ~Call(t)
      <4>1. t \in Running BY <1>1, <1>9, <3>3, RunningAfter
      <4>2. QED BY <3>1, <4>1, <1>2
    <3>4. QED BY <3>2, <3>3
  <2>2. Final \in Digest
    BY <1>1, FinalTyped
  <2>3. /\ E("call", t) \in Sent /\ E("ask", t) \in Sent
        /\ E("cancel", t) \in Sent /\ E("finish", t) \in Sent
    BY EmittedTyped DEF Kinds
  <2>4. ASSUME NEW k, NEW e \in Sent, e = E(k, t) PROVE e.kind = k /\ e.tool = t
    BY <2>4 DEF E
  <2>5. CASE Call(t)
    <3>1. Final' = Fold(Final, E("call", t)) /\ Running' = Running \cup {t} /\ t \notin Running
      BY <1>1, <2>5, FinalWorker, RunningAfter
    <3>2. /\ Final'.current = IF t \notin Hidden THEN t ELSE Final.current
          /\ Final'.status = IF t \notin Hidden THEN "running" ELSE Final.status
      <4>1. PICK e \in Sent : e = E("call", t) BY <2>3
      <4>2. e.kind = "call" /\ e.tool = t BY <4>1, <2>4
      <4>3. Final' = Fold(Final, e) BY <3>1, <4>1
      <4>4. QED BY <2>2, <4>2, <4>3, FoldFields DEF EndsTurn
    <3>3. Goal BY <2>1, <3>1, <3>2, <1>2, <1>3
    <3>4. QED BY <3>3, <1>1, <1>4 DEF RowInv, Settling, Newest
  <2>6. CASE Ask(t) \/ AnswerInTerminal(t)
    <3>1. /\ Final' = Fold(Final, E("ask", t)) \/ Final' = Fold(Final, E("cancel", t))
          /\ Running' = Running
      BY <1>1, <2>6, FinalWorker, RunningAfter
    <3>2. Final'.current = Final.current /\ Final'.status = Final.status
      <4>1. PICK e \in Sent : (e = E("ask", t) \/ e = E("cancel", t)) /\ Final' = Fold(Final, e)
        BY <2>3, <3>1
      <4>2. e.kind \in {"ask", "cancel"} /\ e.tool = t BY <4>1, <2>4
      <4>3. QED BY <2>2, <4>1, <4>2, FoldFields DEF EndsTurn
    <3>3. Goal BY <2>1, <3>1, <3>2, <1>2, <1>3
    <3>4. QED BY <3>3, <1>1, <1>4 DEF RowInv, Settling, Newest
  <2>7. CASE Finish(t)
    <3>1. Final' = Fold(Final, E("finish", t)) /\ Running' = Running \ {t} /\ t \in Running
      BY <1>1, <2>7, FinalWorker, RunningAfter
    <3>2. /\ Final'.current = Final.current
          /\ Final'.status = IF t = Final.current THEN "over" ELSE Final.status
      <4>1. PICK e \in Sent : e = E("finish", t) BY <2>3
      <4>2. e.kind = "finish" /\ e.tool = t BY <4>1, <2>4
      <4>3. Final' = Fold(Final, e) BY <3>1, <4>1
      <4>4. QED BY <2>2, <4>2, <4>3, FoldFields DEF EndsTurn
    <3>3. Goal BY <2>1, <3>1, <3>2, <1>2, <1>3
    <3>4. QED BY <3>3, <1>1, <1>4 DEF RowInv, Settling, Newest
  <2>8. QED BY <1>9, <2>5, <2>6, <2>7
<1>10. QED BY <1>5, <1>6, <1>7, <1>8, <1>9 DEF WorkerStep

\* So does every step of the server and of the phone.
LEMMA RowServer == Parameters /\ RowInv /\ (ServerStep \/ Answer \/ Reopen) => RowInv'
<1> SUFFICES ASSUME Parameters, RowInv, ServerStep \/ Answer \/ Reopen PROVE RowInv'
  OBVIOUS
<1>1. Typing /\ Typing'
  BY TypingServer DEF RowInv
<1>2. /\ worker # "turn" =>
            /\ Running = {} /\ Final.pending = {} /\ ~Final.turn
            /\ used["restart"] = 0 => Final.status # "running"
      /\ digest.turn => turnActiveIn(stored)
      /\ Final.current \notin Hidden
      /\ worker = "turn" /\ used["restart"] = 0 =>
            (Final.status = "running" <=> Final.current \in Running)
  BY DEF RowInv, Settling, Newest
<1>3. UNCHANGED <<worker, call>> /\ Running' = Running
  <2>1. UNCHANGED <<worker, call>>
    BY DEF ServerStep, Post, ResumePost, HandleAnswer, Flush, LoseStream, OpenStream, Restart,
       Answer, Reopen, workerVars
  <2>2. QED BY <2>1 DEF Running
<1>4. digest \in Digest /\ stored \in Seq(Sent) /\ posting \in Seq(Sent)
  BY <1>1 DEF Typing, TypeOK
<1> DEFINE Same == /\ Final' = Final /\ used'["restart"] = used["restart"]
                   /\ digest'.turn => turnActiveIn(stored')
<1>5. ASSUME Same PROVE RowInv'
  BY <1>1, <1>2, <1>3, <1>5 DEF RowInv, Settling, Newest
<1>6. ASSUME NEW k \in 1 .. MaxBatch, Post(k) PROVE RowInv'
  <2> DEFINE batch == SubSeq(outbox, 1, k)
  <2>1. Final' = Final BY <1>1, <1>6, FinalPost
  <2>2. used' = used BY <1>6 DEF Post
  <2>3. k \in Nat /\ k <= Len(outbox) BY <1>6 DEF Post, Parameters
  <2>4. batch \in Seq(Sent) BY <2>3, <1>1, SplitOutbox
  <2>5. \/ digest' = digest /\ stored' = stored
        \/ digest' = Folded(digest, batch) /\ stored' = stored \o batch
    BY <1>6 DEF Post, Folded
  <2> HIDE DEF batch
  <2>6. digest'.turn => turnActiveIn(stored')
    BY <2>4, <2>5, <1>2, <1>4, TurnStored
  <2>7. QED BY <2>1, <2>2, <2>6, <1>5
<1>7. CASE ResumePost
  <2>1. Final' = Final BY <1>1, <1>7, FinalResume
  <2>2. used' = used /\ digest' = Folded(digest, posting) /\ stored' = stored \o posting
    BY <1>7 DEF ResumePost, Folded
  <2>3. digest'.turn => turnActiveIn(stored')
    BY <2>2, <1>2, <1>4, TurnStored
  <2>4. QED BY <2>1, <2>2, <2>3, <1>5
<1>8. CASE HandleAnswer
  <2>1. Fainter(Final', Final) /\ SameRow(Final', Final) BY <1>1, <1>8, FinalAnswered
  <2>2. used' = used /\ stored' = stored /\ digest' = Cleared(digest)
    BY <1>8 DEF HandleAnswer
  <2>3. digest'.turn = digest.turn BY <2>2, <1>4 DEF Cleared, Digest
  <2>4. QED BY <2>1, <2>2, <2>3, <1>1, <1>2, <1>3
        DEF RowInv, Settling, Newest, Fainter, SameRow
<1>9. CASE Restart
  <2>1. Fainter(Final', Final) /\ Final'.current \notin Hidden BY <1>1, <1>9, FinalRestarted
  <2>2. used'["restart"] # 0
    <3>1. used["restart"] \in Nat /\ used' = [used EXCEPT !["restart"] = @ + 1]
      BY <1>1, <1>9 DEF Restart, Typing, TypeOK
    <3>2. used \in [{"detach", "restart", "reopen"} -> Nat] BY <1>1 DEF Typing, TypeOK
    <3>3. QED BY <3>1, <3>2
  <2>3. ~digest'.turn BY <1>9 DEF Restart, Blank
  <2>4. QED BY <2>1, <2>2, <2>3, <1>1, <1>2, <1>3 DEF RowInv, Settling, Newest, Fainter
<1>10. CASE Flush \/ LoseStream \/ OpenStream \/ Answer \/ Reopen
  <2>1. UNCHANGED <<digest, posting, outbox, stored>>
    BY <1>10 DEF Flush, LoseStream, OpenStream, Answer, Reopen
  <2>2. used'["restart"] = used["restart"]
    <3>1. used \in [{"detach", "restart", "reopen"} -> Nat] BY <1>1 DEF Typing, TypeOK
    <3>2. QED BY <1>10, <3>1 DEF Flush, LoseStream, OpenStream, Answer, Reopen
  <2>3. QED BY <2>1, <2>2, <1>2, <1>5 DEF Final
<1>11. QED BY <1>6, <1>7, <1>8, <1>9, <1>10 DEF ServerStep

\* A step that changes nothing.
LEMMA RowStutter == RowInv /\ UNCHANGED vars => RowInv'
BY DEF RowInv, Typing, TypeOK, Settling, Newest, Final, Running, vars, workerVars, rowVars,
   phoneVars

\* Any step keeps the row in step.
LEMMA RowStep == Parameters /\ RowInv /\ [Next]_vars => RowInv'
BY RowWorker, RowServer, RowStutter DEF Next

\* What the invariant says once everything has been folded.
LEMMA RowMeans ==
    ASSUME RowInv
    PROVE  RowSettles /\ StopButtonOffered /\ (used["restart"] = 0 => RowIsNewestCall)
<1>1. Quiet => Final = digest
  <2>1. digest \in Digest /\ <<>> \in Seq(Sent) BY DEF RowInv, Typing, TypeOK
  <2>2. QED BY <2>1, Folding DEF Quiet, Final
<1>2. RowSettles
  BY <1>1 DEF RowInv, Settling, RowSettles, Reported
<1>3. StopButtonOffered
  BY DEF RowInv, Settling, StopButtonOffered
<1>4. used["restart"] = 0 => RowIsNewestCall
  BY <1>1 DEF RowInv, Newest, RowIsNewestCall
<1>5. QED BY <1>2, <1>3, <1>4

-----------------------------------------------------------------------------
(* The badge and the sheet, on a server without PostgreSQL: nothing is     *)
(* held between relay and append, and there is no restart.                 *)

Asks(s, i, t) == s[i].kind = "ask" /\ s[i].tool = t
AskedIn(s, t) == \E i \in DOMAIN s : Asks(s, i, t)

\* No request is asked twice in s.
Once(s) == \A t \in Tools : \A i, j \in DOMAIN s : Asks(s, i, t) /\ Asks(s, j, t) => i = j

\* Each request is emitted once, of a call that has begun, and stored before
\* anybody sees it.
Asking ==
    /\ posting = <<>>
    /\ Once(outbox)
    /\ \A t \in Tools :
          /\ ~(AskedIn(stored, t) /\ AskedIn(outbox, t))
          /\ AskedIn(stored, t) \/ AskedIn(outbox, t) => call[t] \notin {"new", "open"}
          /\ (\E i \in DOMAIN wire : wire[i] = t) \/ (\E i \in DOMAIN answers : answers[i] = t)
                \/ sheet = t => AskedIn(stored, t)

\* One request waits at a time; what is on its way lights the badge for that
\* one only, and an answer to it on the stream has put it out.
Badge ==
    /\ \A t, u \in Waiting : t = u
    /\ Final.pending \subseteq Waiting
    /\ \A i \in DOMAIN wire : wire[i] \notin Final.pending

PhoneInv == Typing /\ Asking /\ Badge

\* What a request is asked in, of two batches.
LEMMA AskedConcat ==
    ASSUME NEW s \in Seq(Sent), NEW u \in Seq(Sent), NEW t
    PROVE  AskedIn(s \o u, t) <=> AskedIn(s, t) \/ AskedIn(u, t)
<1> DEFINE m == Len(s)
           n == Len(u)
           r == s \o u
<1>1. /\ m \in Nat /\ n \in Nat /\ DOMAIN s = 1 .. m /\ DOMAIN u = 1 .. n /\ DOMAIN r = 1 .. m + n
      /\ \A i \in 1 .. m : r[i] = s[i]
      /\ \A i \in 1 .. n : r[m + i] = u[i]
  OBVIOUS
<1> HIDE DEF m, n, r
<1>2. ASSUME AskedIn(r, t) PROVE AskedIn(s, t) \/ AskedIn(u, t)
  <2>1. PICK i \in 1 .. m + n : Asks(r, i, t) BY <1>1, <1>2 DEF AskedIn
  <2>2. CASE i <= m
    <3>1. i \in 1 .. m BY <2>2, <1>1
    <3>2. QED BY <3>1, <2>1, <1>1 DEF AskedIn, Asks
  <2>3. CASE ~(i <= m)
    <3>1. i - m \in 1 .. n /\ m + (i - m) = i BY <2>3, <1>1
    <3>2. r[i] = u[i - m] BY <3>1, <1>1
    <3>3. QED BY <3>1, <3>2, <2>1, <1>1 DEF AskedIn, Asks
  <2>4. QED BY <2>2, <2>3
<1>3. ASSUME AskedIn(s, t) PROVE AskedIn(r, t)
  <2>1. PICK i \in 1 .. m : Asks(s, i, t) BY <1>1, <1>3 DEF AskedIn
  <2>2. i \in 1 .. m + n BY <1>1
  <2>3. QED BY <2>1, <2>2, <1>1 DEF AskedIn, Asks
<1>4. ASSUME AskedIn(u, t) PROVE AskedIn(r, t)
  <2>1. PICK i \in 1 .. n : Asks(u, i, t) BY <1>1, <1>4 DEF AskedIn
  <2>2. m + i \in 1 .. m + n BY <1>1
  <2>3. QED BY <2>1, <2>2, <1>1 DEF AskedIn, Asks
<1>5. QED BY <1>2, <1>3, <1>4 DEF r

\* Events that are not requests ask nothing.
LEMMA AskedNone ==
    ASSUME NEW p \in Sent, NEW t
    PROVE  AskedIn(<<p>>, t) <=> p.kind = "ask" /\ p.tool = t
BY DEF AskedIn, Asks

\* Before the first event nothing was asked, answered or lit.
LEMMA PhoneInit == Parameters /\ Init => PhoneInv
<1> SUFFICES ASSUME Parameters, Init PROVE PhoneInv
  OBVIOUS
<1>1. RowInv
  BY RowInit
<1>2. Final = Blank
  <2>1. digest = Blank /\ outbox = <<>> /\ posting = <<>> /\ <<>> \in Seq(Sent) BY DEF Init
  <2>2. Blank \in Digest BY DEF Blank, Digest, Statuses
  <2>3. QED BY <2>1, <2>2, Folding DEF Final
<1>3. DOMAIN outbox = {} /\ DOMAIN stored = {} /\ DOMAIN wire = {} /\ DOMAIN answers = {}
  BY DEF Init
<1>4. Asking
  BY <1>3 DEF Asking, Once, AskedIn, Init, Parameters
<1>5. Badge
  BY <1>2, <1>3 DEF Badge, Blank, Waiting, Init
<1>6. QED BY <1>1, <1>4, <1>5 DEF PhoneInv, RowInv

\* What the worker emits: which requests, and what becomes of the calls.
LEMMA AskingWorker == Parameters /\ Typing /\ Asking /\ WorkerStep => Asking'
<1> SUFFICES ASSUME Parameters, Typing, Asking, WorkerStep PROVE Asking'
  OBVIOUS
<1>0. /\ outbox \in Seq(Sent) /\ stored \in Seq(Sent) /\ wire \in Seq(Tools)
      /\ call \in [Tools -> {"new", "open", "asking", "answered", "over"}]
  BY DEF Typing, TypeOK
<1>1. UNCHANGED <<posting, stored, answers, sheet>>
  BY DEF WorkerStep, StartTurn, LocalCommand, ReadAnswer, EndTurn, Exit, Call, Ask,
     AnswerInTerminal, Finish, ServerAndPhone, phoneVars
<1>2. \A t \in Tools : (\E i \in DOMAIN wire' : wire'[i] = t) => (\E i \in DOMAIN wire : wire[i] = t)
  <2>1. CASE ReadAnswer
    <3>1. wire # <<>> /\ wire' = Tail(wire) BY <2>1 DEF ReadAnswer
    <3>2. ASSUME NEW i \in DOMAIN wire' PROVE i + 1 \in DOMAIN wire /\ wire'[i] = wire[i + 1]
      BY <3>1, <1>0
    <3>3. QED BY <3>2
  <2>2. CASE ~ReadAnswer
    <3>1. wire' = wire
      BY <2>2 DEF WorkerStep, StartTurn, LocalCommand, EndTurn, Exit, Call, Ask,
         AnswerInTerminal, Finish, ServerAndPhone
    <3>2. QED BY <3>1
  <2>3. QED BY <2>1, <2>2
\* An event that is no request.
<1>3. ASSUME NEW p \in Sent, Emit(<<p>>), p.kind # "ask",
             \A t \in Tools : call[t] \notin {"new", "open"} => call'[t] \notin {"new", "open"}
      PROVE  Asking'
  <2>1. outbox' = outbox \o <<p>> /\ <<p>> \in Seq(Sent) BY <1>3 DEF Emit
  <2>2. \A t : AskedIn(outbox', t) <=> AskedIn(outbox, t)
    BY <2>1, <1>0, <1>3, AskedConcat, AskedNone
  <2>3. DOMAIN outbox' = 1 .. Len(outbox) + 1 /\ DOMAIN outbox = 1 .. Len(outbox)
        /\ Len(outbox) \in Nat
        /\ outbox'[Len(outbox) + 1] = p /\ \A i \in 1 .. Len(outbox) : outbox'[i] = outbox[i]
    BY <2>1, <1>0
  <2>4. ASSUME NEW t, NEW i \in DOMAIN outbox', Asks(outbox', i, t)
        PROVE  i \in DOMAIN outbox /\ Asks(outbox, i, t)
    <3>1. i # Len(outbox) + 1 BY <2>3, <2>4, <1>3 DEF Asks
    <3>2. i \in 1 .. Len(outbox) BY <3>1, <2>3
    <3>3. QED BY <3>2, <2>3, <2>4 DEF Asks
  <2>5. \A t \in Tools : \A i, j \in DOMAIN outbox' :
           Asks(outbox', i, t) /\ Asks(outbox', j, t) => i = j
    BY <2>4 DEF Asking, Once
  <2>6. QED BY <2>2, <2>5, <1>1, <1>2, <1>3 DEF Asking, Once
<1>4. ASSUME NEW p \in Sent, NEW q \in Sent, Emit(<<p, q>>), p.kind # "ask", q.kind # "ask",
             call' = call
      PROVE  Asking'
  <2>1. outbox' = outbox \o <<p, q>> /\ <<p, q>> \in Seq(Sent) BY <1>4 DEF Emit
  <2>2. \A t : ~AskedIn(<<p, q>>, t)
    <3>1. DOMAIN <<p, q>> = 1 .. 2 /\ <<p, q>>[1] = p /\ <<p, q>>[2] = q OBVIOUS
    <3>2. QED BY <3>1, <1>4 DEF AskedIn, Asks
  <2>3. \A t : AskedIn(outbox', t) <=> AskedIn(outbox, t)
    BY <2>1, <2>2, <1>0, AskedConcat
  <2>4. DOMAIN outbox' = 1 .. Len(outbox) + 2 /\ DOMAIN outbox = 1 .. Len(outbox)
        /\ Len(outbox) \in Nat
        /\ outbox'[Len(outbox) + 1] = p /\ outbox'[Len(outbox) + 2] = q
        /\ \A i \in 1 .. Len(outbox) : outbox'[i] = outbox[i]
    BY <2>1, <1>0
  <2>5. ASSUME NEW t, NEW i \in DOMAIN outbox', Asks(outbox', i, t)
        PROVE  i \in DOMAIN outbox /\ Asks(outbox, i, t)
    <3>1. i # Len(outbox) + 1 /\ i # Len(outbox) + 2 BY <2>4, <2>5, <1>4 DEF Asks
    <3>2. i \in 1 .. Len(outbox) BY <3>1, <2>4
    <3>3. QED BY <3>2, <2>4, <2>5 DEF Asks
  <2>6. \A t \in Tools : \A i, j \in DOMAIN outbox' :
           Asks(outbox', i, t) /\ Asks(outbox', j, t) => i = j
    BY <2>5 DEF Asking, Once
  <2>7. QED BY <2>3, <2>6, <1>1, <1>2, <1>4 DEF Asking, Once
<1>5. \A k \in Kinds \ {"call", "ask", "cancel", "finish"} : E(k, Null) \in Sent /\ E(k, Null).kind = k
  BY EmittedTyped DEF E
<1>6. \A k \in Kinds, t \in Tools : E(k, t) \in Sent /\ E(k, t).kind = k /\ E(k, t).tool = t
  BY EmittedTyped DEF E
<1>7. CASE StartTurn
  <2>1. call' = call BY <1>7 DEF StartTurn
  <2>2. E("init", Null) \in Sent /\ E("init", Null).kind = "init"
        /\ E("prompt", Null) \in Sent /\ E("prompt", Null).kind = "prompt"
    BY <1>5 DEF Kinds
  <2>3. CASE Emit(<<E("prompt", Null)>>) BY <2>1, <2>2, <2>3, <1>3
  <2>4. CASE Emit(<<E("init", Null), E("prompt", Null)>>) BY <2>1, <2>2, <2>4, <1>4
  <2>5. QED BY <1>7, <2>3, <2>4 DEF StartTurn
<1>8. CASE LocalCommand
  <2>1. call' = call /\ Emit(<<E("echo", Null)>>) BY <1>8 DEF LocalCommand
  <2>2. E("echo", Null) \in Sent /\ E("echo", Null).kind = "echo" BY <1>5 DEF Kinds
  <2>3. QED BY <2>1, <2>2, <1>3
<1>9. CASE ReadAnswer
  <2>1. outbox' = outbox BY <1>9 DEF ReadAnswer
  <2>2. \A t \in Tools : call[t] \notin {"new", "open"} => call'[t] \notin {"new", "open"}
    BY <1>9, <1>0 DEF ReadAnswer
  <2>3. QED BY <2>1, <2>2, <1>1, <1>2 DEF Asking, Once
<1>10. CASE EndTurn \/ Exit
  <2>1. PICK k \in {"result", "summary", "reset", "shutdown"} : Emit(<<E(k, Null)>>)
    BY <1>10 DEF EndTurn, Exit
  <2>2. E(k, Null) \in Sent /\ E(k, Null).kind = k BY <1>5 DEF Kinds
  <2>3. call' = Stopped BY <1>10 DEF EndTurn, Exit
  <2>4. \A t \in Tools : call[t] \notin {"new", "open"} => call'[t] \notin {"new", "open"}
    BY <2>3 DEF Stopped
  <2>5. QED BY <2>1, <2>2, <2>4, <1>3
<1>11. ASSUME NEW t \in Tools, Call(t) \/ Ask(t) \/ AnswerInTerminal(t) \/ Finish(t) PROVE Asking'
  <2>1. /\ E("call", t) \in Sent /\ E("call", t).kind = "call"
        /\ E("cancel", t) \in Sent /\ E("cancel", t).kind = "cancel"
        /\ E("finish", t) \in Sent /\ E("finish", t).kind = "finish"
        /\ E("ask", t) \in Sent /\ E("ask", t).kind = "ask" /\ E("ask", t).tool = t
    BY <1>6 DEF Kinds
  <2>2. CASE Call(t)
    <3>1. call[t] = "new" /\ call' = [call EXCEPT ![t] = "open"] /\ Emit(<<E("call", t)>>)
      BY <2>2 DEF Call
    <3>2. \A u \in Tools : call[u] \notin {"new", "open"} => call'[u] \notin {"new", "open"}
      BY <3>1, <1>0
    <3>3. QED BY <2>1, <3>1, <3>2, <1>3
  <2>3. CASE AnswerInTerminal(t)
    <3>1. call' = [call EXCEPT ![t] = "answered"] /\ Emit(<<E("cancel", t)>>)
      BY <2>3 DEF AnswerInTerminal
    <3>2. \A u \in Tools : call[u] \notin {"new", "open"} => call'[u] \notin {"new", "open"}
      BY <3>1, <1>0
    <3>3. QED BY <2>1, <3>1, <3>2, <1>3
  <2>4. CASE Finish(t)
    <3>1. call' = [call EXCEPT ![t] = "over"] /\ Emit(<<E("finish", t)>>)
      BY <2>4 DEF Finish
    <3>2. \A u \in Tools : call[u] \notin {"new", "open"} => call'[u] \notin {"new", "open"}
      BY <3>1, <1>0
    <3>3. QED BY <2>1, <3>1, <3>2, <1>3
  <2>5. CASE Ask(t)
    <3>1. PICK p \in Sent : p = E("ask", t) /\ p.kind = "ask" /\ p.tool = t BY <2>1
    <3>2. call[t] = "open" /\ call' = [call EXCEPT ![t] = "asking"] /\ Emit(<<p>>)
      BY <2>5, <3>1 DEF Ask
    <3>3. ~AskedIn(stored, t) /\ ~AskedIn(outbox, t) BY <3>2 DEF Asking, Once
    <3>4. outbox' = outbox \o <<p>> /\ <<p>> \in Seq(Sent) BY <3>2 DEF Emit
    <3>5. \A u : AskedIn(outbox', u) <=> AskedIn(outbox, u) \/ u = t
      BY <3>1, <3>4, <1>0, AskedConcat, AskedNone
    <3>6. DOMAIN outbox' = 1 .. Len(outbox) + 1 /\ DOMAIN outbox = 1 .. Len(outbox)
          /\ Len(outbox) \in Nat
          /\ outbox'[Len(outbox) + 1] = p /\ \A i \in 1 .. Len(outbox) : outbox'[i] = outbox[i]
      BY <3>4, <1>0
    <3>7. ASSUME NEW u \in Tools, NEW i \in DOMAIN outbox', NEW j \in DOMAIN outbox',
                 Asks(outbox', i, u), Asks(outbox', j, u)
          PROVE  i = j
      <4>1. ASSUME NEW x \in 1 .. Len(outbox), Asks(outbox', x, u) PROVE Asks(outbox, x, u) /\ u # t
        <5>1. Asks(outbox, x, u) BY <4>1, <3>6 DEF Asks
        <5>2. QED BY <5>1, <3>3, <3>6 DEF AskedIn
      <4>2. CASE i = Len(outbox) + 1 /\ j = Len(outbox) + 1 BY <4>2
      <4>3. CASE i = Len(outbox) + 1 /\ j \in 1 .. Len(outbox)
        <5>1. u = t BY <4>3, <3>1, <3>6, <3>7 DEF Asks
        <5>2. QED BY <5>1, <4>1, <4>3, <3>7
      <4>4. CASE j = Len(outbox) + 1 /\ i \in 1 .. Len(outbox)
        <5>1. u = t BY <4>4, <3>1, <3>6, <3>7 DEF Asks
        <5>2. QED BY <5>1, <4>1, <4>4, <3>7
      <4>5. CASE i \in 1 .. Len(outbox) /\ j \in 1 .. Len(outbox)
        <5>1. Asks(outbox, i, u) /\ Asks(outbox, j, u) BY <4>1, <4>5, <3>7
        <5>2. QED BY <5>1, <4>5, <3>6 DEF Asking, Once
      <4>6. QED BY <4>2, <4>3, <4>4, <4>5, <3>6
    <3>8. \A u \in Tools : u # t => call'[u] = call[u]
      BY <3>2, <1>0
    <3>9. call'[t] = "asking"
      BY <3>2, <1>0
    <3>10. QED BY <3>3, <3>5, <3>7, <3>8, <3>9, <1>1, <1>2 DEF Asking, Once
  <2>6. QED BY <1>11, <2>2, <2>3, <2>4, <2>5
<1>12. QED BY <1>7, <1>8, <1>9, <1>10, <1>11 DEF WorkerStep

\* The parts of a batch that is posted hold its requests, each in one of them.
LEMMA SplitAsked ==
    ASSUME Typing, Once(outbox), NEW k \in Nat, k <= Len(outbox)
    PROVE  \E batch, rest :
           /\ batch = SubSeq(outbox, 1, k) /\ rest = SubSeq(outbox, k + 1, Len(outbox))
           /\ \A t \in Tools : AskedIn(outbox, t) <=> AskedIn(batch, t) \/ AskedIn(rest, t)
           /\ \A t \in Tools : ~(AskedIn(batch, t) /\ AskedIn(rest, t))
           /\ Once(rest)
<1>0. PICK batch, rest :
         /\ batch = SubSeq(outbox, 1, k) /\ rest = SubSeq(outbox, k + 1, Len(outbox))
  OBVIOUS
<1>1. batch \in Seq(Sent) /\ rest \in Seq(Sent) /\ outbox = batch \o rest
  BY <1>0, SplitOutbox
<1>2. PICK m \in Nat : m = Len(batch)
  BY ONLY <1>1
<1>3. PICK n \in Nat : n = Len(rest)
  BY ONLY <1>1
<1>4. /\ DOMAIN batch = 1 .. m /\ DOMAIN rest = 1 .. n /\ DOMAIN outbox = 1 .. m + n
      /\ \A i \in 1 .. m : outbox[i] = batch[i]
      /\ \A i \in 1 .. n : outbox[m + i] = rest[i]
  BY ONLY <1>1, <1>2, <1>3
<1>5. ASSUME NEW t \in Tools, NEW i \in 1 .. m, NEW j \in 1 .. n, Asks(batch, i, t), Asks(rest, j, t)
      PROVE  FALSE
  <2>1. i \in 1 .. m + n /\ m + j \in 1 .. m + n /\ i # m + j OBVIOUS
  <2>2. Asks(outbox, i, t) /\ Asks(outbox, m + j, t) BY <1>4, <1>5 DEF Asks
  <2>3. QED BY <2>1, <2>2, <1>4 DEF Once
<1>6. ASSUME NEW t \in Tools, NEW i \in 1 .. n, NEW j \in 1 .. n, Asks(rest, i, t), Asks(rest, j, t)
      PROVE  i = j
  <2>1. m + i \in 1 .. m + n /\ m + j \in 1 .. m + n OBVIOUS
  <2>2. Asks(outbox, m + i, t) /\ Asks(outbox, m + j, t) BY <1>4, <1>6 DEF Asks
  <2>3. m + i = m + j BY <2>1, <2>2, <1>4 DEF Once
  <2>4. QED BY <2>3
<1>7. \A t \in Tools : AskedIn(outbox, t) <=> AskedIn(batch, t) \/ AskedIn(rest, t)
  BY ONLY <1>1, AskedConcat
<1>8. Once(rest)
  BY <1>4, <1>6 DEF Once
<1>9. \A t \in Tools : ~(AskedIn(batch, t) /\ AskedIn(rest, t))
  BY <1>4, <1>5 DEF AskedIn
<1>10. QED BY ONLY <1>0, <1>7, <1>8, <1>9

\* Relayed and stored at once, a request is known before it can be answered.
LEMMA AskingServer ==
    Parameters /\ ~HasPool /\ Typing /\ Asking /\ (ServerStep \/ Answer \/ Reopen) => Asking'
<1> SUFFICES ASSUME Parameters, ~HasPool, Typing, Asking, ServerStep \/ Answer \/ Reopen
             PROVE  Asking'
  OBVIOUS
<1>0. /\ outbox \in Seq(Sent) /\ stored \in Seq(Sent) /\ wire \in Seq(Tools)
      /\ answers \in Seq(Tools) /\ sheet \in Tools \cup {Null} /\ Null \notin Tools
  BY DEF Typing, TypeOK, Parameters
<1>1. call' = call
  BY DEF ServerStep, Post, ResumePost, HandleAnswer, Flush, LoseStream, OpenStream, Restart,
     Answer, Reopen, workerVars
<1> DEFINE Has(s, t) == \E i \in DOMAIN s : s[i] = t
<1>2. /\ posting = <<>> /\ Once(outbox)
      /\ \A t \in Tools :
            /\ ~(AskedIn(stored, t) /\ AskedIn(outbox, t))
            /\ AskedIn(stored, t) \/ AskedIn(outbox, t) => call[t] \notin {"new", "open"}
            /\ Has(wire, t) \/ Has(answers, t) \/ sheet = t => AskedIn(stored, t)
  BY DEF Asking
\* A sheet that comes from what is stored.
<1>3. ASSUME NEW x \in Tools \cup {Null}, NEW s \in Seq(Sent), NEW t \in Tools,
             Shown(x, s) = t
      PROVE  x = t \/ AskedIn(s, t)
  <2>1. CASE x = t BY <2>1
  <2>2. CASE x # t
    <3>1. Shown(x, s) \notin {Null, x} BY <2>2, <1>0, <1>3
    <3>2. QED BY <3>1, <1>3, SheetWasAsked DEF AskedIn, Asks
  <2>3. QED BY <2>1, <2>2
<1>4. ASSUME UNCHANGED <<posting, stored, outbox>>,
             \A t \in Tools : Has(wire', t) \/ Has(answers', t) \/ sheet' = t => AskedIn(stored, t)
      PROVE  Asking'
  BY <1>1, <1>2, <1>4 DEF Asking
<1>5. ASSUME NEW k \in 1 .. MaxBatch, Post(k) PROVE Asking'
  <2>1. k \in Nat /\ k <= Len(outbox) BY <1>5 DEF Post, Parameters
  <2>2. PICK batch, rest :
           /\ batch = SubSeq(outbox, 1, k) /\ rest = SubSeq(outbox, k + 1, Len(outbox))
           /\ \A t \in Tools : AskedIn(outbox, t) <=> AskedIn(batch, t) \/ AskedIn(rest, t)
           /\ \A t \in Tools : ~(AskedIn(batch, t) /\ AskedIn(rest, t))
           /\ Once(rest)
    BY <2>1, <1>2, SplitAsked
  <2>3. /\ outbox' = rest /\ sheet' = Shown(sheet, batch) /\ posting' = <<>>
        /\ stored' = stored \o batch /\ wire' = wire /\ answers' = answers
    BY <1>5, <2>2 DEF Post, Shown
  <2>4. batch \in Seq(Sent) /\ rest \in Seq(Sent) BY <2>1, <2>2, SplitOutbox
  <2>6. \A t \in Tools : AskedIn(stored', t) <=> AskedIn(stored, t) \/ AskedIn(batch, t)
    BY <2>3, <2>4, <1>0, AskedConcat
  <2>7. ASSUME NEW t \in Tools, sheet' = t PROVE AskedIn(stored', t)
    <3>1. sheet = t \/ AskedIn(batch, t) BY <2>3, <2>4, <2>7, <1>0, <1>3
    <3>2. QED BY <3>1, <2>6, <1>2
  <2>8. \A t \in Tools : Has(wire', t) \/ Has(answers', t) \/ sheet' = t => AskedIn(stored', t)
    BY <2>3, <2>6, <2>7, <1>2
  <2>9. QED BY <2>2, <2>3, <2>6, <2>8, <1>1, <1>2 DEF Asking
<1>6. ~ResumePost
  BY <1>2 DEF ResumePost
<1>7. CASE HandleAnswer
  <2>1. /\ answers # <<>> /\ answers' = Tail(answers) /\ sheet' = sheet
        /\ wire' = wire \/ wire' = Append(wire, Head(answers))
        /\ UNCHANGED <<posting, stored, outbox>>
    BY <1>7 DEF HandleAnswer
  <2>2. Head(answers) \in Tools /\ Has(answers, Head(answers))
    BY <2>1, <1>0
  <2>3. \A t \in Tools : Has(answers', t) => Has(answers, t)
    <3>1. \A i \in DOMAIN answers' : i + 1 \in DOMAIN answers /\ answers'[i] = answers[i + 1]
      BY <2>1, <1>0
    <3>2. QED BY <3>1
  <2>4. \A t \in Tools : Has(wire', t) => Has(wire, t) \/ Has(answers, t)
    <3>1. CASE wire' = wire BY <3>1
    <3>2. CASE wire' = Append(wire, Head(answers))
      <4>1. ASSUME NEW i \in DOMAIN wire' PROVE wire'[i] = Head(answers) \/ (i \in DOMAIN wire /\ wire'[i] = wire[i])
        BY <3>2, <2>2, <1>0
      <4>2. QED BY <4>1, <2>2
    <3>3. QED BY <2>1, <3>1, <3>2
  <2>5. QED BY <2>1, <2>3, <2>4, <1>2, <1>4
<1>8. CASE Flush \/ OpenStream
  BY <1>8, <1>2, <1>4 DEF Flush, OpenStream, phoneVars
<1>9. CASE LoseStream
  <2>1. wire' = <<>> /\ UNCHANGED <<posting, stored, outbox, answers, sheet>>
    BY <1>9 DEF LoseStream, phoneVars
  <2>2. \A t : ~Has(wire', t) BY <2>1
  <2>3. QED BY <2>1, <2>2, <1>2, <1>4
<1>10. ~Restart
  BY DEF Restart
<1>11. CASE Answer
  <2>1. sheet \in Tools /\ sheet' = Null /\ answers' = Append(answers, sheet)
        /\ UNCHANGED <<posting, stored, outbox, wire>>
    BY <1>0, <1>11 DEF Answer
  <2>2. \A t \in Tools : Has(answers', t) => Has(answers, t) \/ sheet = t
    <3>1. ASSUME NEW i \in DOMAIN answers'
          PROVE  answers'[i] = sheet \/ (i \in DOMAIN answers /\ answers'[i] = answers[i])
      BY <2>1, <1>0
    <3>2. QED BY <3>1
  <2>3. QED BY <2>1, <2>2, <1>0, <1>2, <1>4
<1>12. CASE Reopen
  <2>1. sheet' = Shown(Null, stored) /\ UNCHANGED <<posting, stored, outbox, wire, answers>>
    BY <1>12 DEF Reopen, Shown
  <2>2. \A t \in Tools : sheet' = t => AskedIn(stored, t)
    BY <2>1, <1>0, <1>3
  <2>3. QED BY <2>1, <2>2, <1>2, <1>4
<1>13. QED BY <1>5, <1>6, <1>7, <1>8, <1>9, <1>10, <1>11, <1>12 DEF ServerStep

\* The badge after a step of the worker.
LEMMA BadgeWorker ==
    Parameters /\ Typing /\ Asking /\ Badge /\ WorkerStep => Badge'
<1> SUFFICES ASSUME Parameters, Typing, Asking, Badge, WorkerStep PROVE Badge'
  OBVIOUS
<1>0. /\ wire \in Seq(Tools) /\ Final \in Digest
      /\ call \in [Tools -> {"new", "open", "asking", "answered", "over"}]
  BY FinalTyped DEF Typing, TypeOK
<1>1. CASE StartTurn \/ LocalCommand
  <2>1. Final'.pending = Final.pending BY <1>1, FinalWorker
  <2>2. wire' = wire /\ call' = call BY <1>1 DEF StartTurn, LocalCommand, ServerAndPhone
  <2>3. QED BY <2>1, <2>2 DEF Badge, Waiting
<1>2. CASE ReadAnswer
  <2>1. Final' = Final BY <1>2, FinalWorker
  <2>2. PICK h \in Tools : /\ h = Head(wire) /\ h = wire[1] /\ 1 \in DOMAIN wire
                           /\ wire' = Tail(wire)
                           /\ call' = [call EXCEPT ![h] = IF @ = "asking" THEN "answered" ELSE @]
    <3>1. wire # <<>> /\ wire' = Tail(wire)
          /\ call' = [call EXCEPT ![Head(wire)] = IF @ = "asking" THEN "answered" ELSE @]
      BY <1>2 DEF ReadAnswer
    <3>2. Head(wire) \in Tools /\ Head(wire) = wire[1] /\ 1 \in DOMAIN wire
      BY <1>0, <3>1
    <3>3. QED BY <3>1, <3>2
  <2>3. h \notin Final.pending BY <2>2 DEF Badge
  <2>4. Waiting' = Waiting \ {h} BY <2>2, <1>0 DEF Waiting
  <2>5. \A i \in DOMAIN wire' : i + 1 \in DOMAIN wire /\ wire'[i] = wire[i + 1]
    BY <2>2, <1>0
  <2>6. \A t, u \in Waiting' : t = u BY <2>4 DEF Badge
  <2>7. Final'.pending \subseteq Waiting' BY <2>1, <2>3, <2>4 DEF Badge
  <2>8. \A i \in DOMAIN wire' : wire'[i] \notin Final'.pending BY <2>1, <2>5 DEF Badge
  <2>9. QED BY <2>6, <2>7, <2>8 DEF Badge
<1>3. CASE EndTurn \/ Exit
  <2>1. Final'.pending = {} /\ Waiting' = {} BY <1>3, FinalWorker, RunningAfter
  <2>2. QED BY <2>1 DEF Badge
<1>4. ASSUME NEW t \in Tools, Call(t) \/ Ask(t) \/ AnswerInTerminal(t) \/ Finish(t) PROVE Badge'
  <2>1. \A k \in Kinds : E(k, t) \in Sent /\ E(k, t).kind = k /\ E(k, t).tool = t
    BY EmittedTyped DEF E
  <2>2. wire' = wire
    BY <1>4 DEF Call, Ask, AnswerInTerminal, Finish, ServerAndPhone
  <2>3. CASE Call(t)
    <3>1. PICK e \in Sent : e.kind = "call" /\ Final' = Fold(Final, e)
      BY <2>1, <2>3, FinalWorker DEF Kinds
    <3>2. Final'.pending = Final.pending BY <3>1, <1>0, FoldFields DEF EndsTurn
    <3>3. Waiting' = Waiting BY <2>3, <1>0 DEF Call, Waiting
    <3>4. QED BY <2>2, <3>2, <3>3 DEF Badge
  <2>4. CASE Ask(t)
    <3>1. PICK e \in Sent : e.kind = "ask" /\ e.tool = t /\ Final' = Fold(Final, e)
      BY <2>1, <2>4, FinalWorker DEF Kinds
    <3>2. Final'.pending = Final.pending \cup {t} BY <3>1, <1>0, FoldFields DEF EndsTurn
    <3>3. Waiting' = {t} /\ Waiting = {} BY <2>4, <1>0 DEF Ask, Waiting
    <3>4. call[t] = "open" BY <2>4 DEF Ask
    <3>5. \A i \in DOMAIN wire : wire[i] # t BY <3>4 DEF Asking
    <3>6. QED BY <2>2, <3>2, <3>3, <3>5 DEF Badge
  <2>5. CASE AnswerInTerminal(t)
    <3>1. PICK e \in Sent : e.kind = "cancel" /\ Final' = Fold(Final, e)
      BY <2>1, <2>5, FinalWorker DEF Kinds
    <3>2. Final'.pending = {} BY <3>1, <1>0, FoldFields DEF EndsTurn
    <3>3. Waiting' \subseteq Waiting BY <2>5, <1>0 DEF AnswerInTerminal, Waiting
    <3>4. QED BY <2>2, <3>2, <3>3 DEF Badge
  <2>6. CASE Finish(t)
    <3>1. PICK e \in Sent : e.kind = "finish" /\ Final' = Fold(Final, e)
      BY <2>1, <2>6, FinalWorker DEF Kinds
    <3>2. Final'.pending \subseteq Final.pending BY <3>1, <1>0, FoldFields DEF EndsTurn
    <3>3. Waiting' = Waiting BY <2>6, <1>0 DEF Finish, Waiting
    <3>4. QED BY <2>2, <3>2, <3>3 DEF Badge
  <2>7. QED BY <1>4, <2>3, <2>4, <2>5, <2>6
<1>5. QED BY <1>1, <1>2, <1>3, <1>4 DEF WorkerStep

\* And after one of the server or of the phone.
LEMMA BadgeServer ==
    Parameters /\ ~HasPool /\ Typing /\ Asking /\ Badge /\ (ServerStep \/ Answer \/ Reopen) => Badge'
<1> SUFFICES ASSUME Parameters, ~HasPool, Typing, Asking, Badge, ServerStep \/ Answer \/ Reopen
             PROVE  Badge'
  OBVIOUS
<1>0. /\ wire \in Seq(Tools) /\ answers \in Seq(Tools) /\ Final \in Digest /\ posting = <<>>
      /\ digest \in Digest /\ outbox \in Seq(Sent)
  BY FinalTyped DEF Typing, TypeOK, Asking
<1>1. Waiting' = Waiting
  BY DEF ServerStep, Post, ResumePost, HandleAnswer, Flush, LoseStream, OpenStream, Restart,
     Answer, Reopen, workerVars, Waiting
<1>2. CASE HandleAnswer
  <2>1. Fainter(Final', Final) BY <1>2, FinalAnswered
  <2>2. Final' = Folded(Cleared(digest), outbox)
    <3>1. digest' = Cleared(digest) /\ posting' = <<>> /\ outbox' = outbox
      BY <1>0, <1>2 DEF HandleAnswer
    <3>2. Cleared(digest) \in Digest BY <1>0 DEF Cleared, Digest
    <3>3. Folded(Cleared(digest), <<>>) = Cleared(digest) BY <3>2, Folding, <<>> \in Seq(Sent)
    <3>4. QED BY <3>1, <3>3 DEF Final
  <2>3. PICK h \in Tools : /\ h = Head(answers) /\ h = answers[1] /\ 1 \in DOMAIN answers
                           /\ wire' = wire \/ wire' = Append(wire, h)
    BY <1>0, <1>2 DEF HandleAnswer
  <2>4. h \notin Final'.pending
    <3>1. AskedIn(stored, h) /\ ~AskedIn(outbox, h) BY <2>3 DEF Asking
    <3>2. Cleared(digest) \in Digest /\ Cleared(digest).pending = {} BY <1>0 DEF Cleared, Digest
    <3>3. QED BY <2>2, <3>1, <3>2, <1>0, PendingWasAsked DEF AskedIn, Asks
  <2>5. \A i \in DOMAIN wire' : wire'[i] = h \/ (i \in DOMAIN wire /\ wire'[i] = wire[i])
    BY <2>3, <1>0
  <2>6. QED BY <2>1, <2>4, <2>5, <1>1 DEF Badge, Fainter
<1>3. CASE ~HandleAnswer
  <2>1. Final' = Final
    <3>1. ASSUME NEW k \in 1 .. MaxBatch, Post(k) PROVE Final' = Final BY <3>1, FinalPost
    <3>2. ~ResumePost /\ ~Restart BY <1>0 DEF ResumePost, Restart
    <3>3. CASE Flush \/ LoseStream \/ OpenStream \/ Answer \/ Reopen
      BY <3>3 DEF Flush, LoseStream, OpenStream, Answer, Reopen, Final
    <3>4. QED BY <1>3, <3>1, <3>2, <3>3 DEF ServerStep
  <2>2. wire' = wire \/ wire' = <<>>
    BY <1>3 DEF ServerStep, Post, ResumePost, Flush, LoseStream, OpenStream, Restart, Answer, Reopen
  <2>3. QED BY <2>1, <2>2, <1>1 DEF Badge
<1>4. QED BY <1>2, <1>3

\* A step that changes nothing.
LEMMA PhoneStutter == PhoneInv /\ UNCHANGED vars => PhoneInv'
BY DEF PhoneInv, Typing, TypeOK, Asking, Badge, Final, Waiting, vars, workerVars, rowVars,
   phoneVars

\* Any step of a server without PostgreSQL keeps badge and requests in step.
LEMMA PhoneStep == Parameters /\ ~HasPool /\ PhoneInv /\ [Next]_vars => PhoneInv'
BY TypingWorker, TypingServer, AskingWorker, AskingServer, BadgeWorker, BadgeServer, PhoneStutter
   DEF Next, PhoneInv

\* What the invariant says once everything was folded.
LEMMA BadgeMeans == ASSUME PhoneInv PROVE BadgeNotStale
<1>1. Quiet => Final = digest
  <2>1. digest \in Digest /\ <<>> \in Seq(Sent) BY DEF PhoneInv, Typing, TypeOK
  <2>2. QED BY <2>1, Folding DEF Quiet, Final
<1>2. QED BY <1>1 DEF PhoneInv, Badge, BadgeNotStale

-----------------------------------------------------------------------------
(* The sheet, on a phone that never reopens the session and for a worker   *)
(* that does not exit.                                                     *)

Staying == ~HasPool /\ MaxReopens = 0 /\ ~MayExit

\* The sheet that will show is of the request that waits, and of none that was
\* answered.
Sheet ==
    /\ FinalSheet # Null => FinalSheet \in Waiting
    /\ \A i \in DOMAIN wire : wire[i] # FinalSheet
    /\ \A i \in DOMAIN answers : answers[i] # FinalSheet

SheetInv == PhoneInv /\ Settling /\ Sheet

\* What the worker emits reaches the sheet after what is on its way.
LEMMA SheetEmit ==
    ASSUME Typing, UNCHANGED sheet
    PROVE  /\ \A e \in Sent : Emit(<<e>>) => FinalSheet' = ShowSheet(FinalSheet, e)
           /\ \A e, f \in Sent : Emit(<<e, f>>) =>
                 FinalSheet' = ShowSheet(ShowSheet(FinalSheet, e), f)
<1>1. sheet \in Tools \cup {Null} /\ outbox \in Seq(Sent)
  BY DEF Typing, TypeOK
<1>2. FinalSheet \in Tools \cup {Null}
  BY <1>1, Showing DEF FinalSheet
<1>3. ASSUME NEW s \in Seq(Sent), Emit(s) PROVE FinalSheet' = Shown(FinalSheet, s)
  <2>1. FinalSheet' = Shown(sheet, outbox \o s) BY <1>3 DEF FinalSheet, Emit
  <2>2. QED BY <2>1, <1>1, <1>3, Showing DEF FinalSheet
<1>4. ASSUME NEW x \in Tools \cup {Null}, NEW e \in Sent
      PROVE  Shown(x, <<e>>) = ShowSheet(x, e) /\ ShowSheet(x, e) \in Tools \cup {Null}
  BY Showing, SheetTyped, <<>> \in Seq(Sent)
<1>5. ASSUME NEW e \in Sent, Emit(<<e>>) PROVE FinalSheet' = ShowSheet(FinalSheet, e)
  <2>1. <<e>> \in Seq(Sent) OBVIOUS
  <2>2. QED BY <2>1, <1>2, <1>3, <1>4, <1>5
<1>6. ASSUME NEW e \in Sent, NEW f \in Sent, Emit(<<e, f>>)
      PROVE  FinalSheet' = ShowSheet(ShowSheet(FinalSheet, e), f)
  <2>1. <<e>> \in Seq(Sent) /\ <<f>> \in Seq(Sent) /\ <<e, f>> \in Seq(Sent) OBVIOUS
  <2>2. <<e, f>> = Append(<<e>>, f) OBVIOUS
  <2>3. <<e, f>> = <<e>> \o <<f>> BY <2>1, <2>2, AppendIsConcat
  <2>4. Shown(FinalSheet, <<e>> \o <<f>>) = Shown(Shown(FinalSheet, <<e>>), <<f>>)
    BY <2>1, <1>2, Showing, ZenonT(30)
  <2>5. FinalSheet' = Shown(FinalSheet, <<e, f>>) BY <2>1, <1>3, <1>6
  <2>6. QED BY <2>3, <2>4, <2>5, <1>2, <1>4
<1>7. QED BY <1>5, <1>6

\* Before the first request there is no sheet.
LEMMA SheetInit == Parameters /\ Init => SheetInv
<1> SUFFICES ASSUME Parameters, Init PROVE SheetInv
  OBVIOUS
<1>1. RowInv /\ PhoneInv
  BY RowInit, PhoneInit
<1>2. FinalSheet = Null
  <2>1. sheet = Null /\ outbox = <<>> /\ <<>> \in Seq(Sent) /\ Null \in Tools \cup {Null} BY DEF Init
  <2>2. QED BY <2>1, Showing DEF FinalSheet
<1>3. DOMAIN wire = {} /\ DOMAIN answers = {}
  BY DEF Init
<1>4. QED BY <1>1, <1>2, <1>3 DEF SheetInv, RowInv, Sheet

\* The sheet after a step of the worker: a request, its withdrawal and the end
\* of the turn (model.ts, controlCancel).
LEMMA SheetWorker ==
    Parameters /\ Staying /\ RowInv /\ PhoneInv /\ Sheet /\ WorkerStep => Sheet'
<1> SUFFICES ASSUME Parameters, Staying, RowInv, PhoneInv, Sheet, WorkerStep PROVE Sheet'
  OBVIOUS
<1>0. /\ wire \in Seq(Tools) /\ answers \in Seq(Tools) /\ Null \notin Tools
      /\ call \in [Tools -> {"new", "open", "asking", "answered", "over"}]
      /\ Typing /\ Asking /\ Badge
  BY DEF PhoneInv, Typing, TypeOK, Parameters
<1>1. UNCHANGED <<sheet, answers>>
  BY DEF WorkerStep, StartTurn, LocalCommand, ReadAnswer, EndTurn, Exit, Call, Ask,
     AnswerInTerminal, Finish, ServerAndPhone, phoneVars
<1>2. \A k \in Kinds \ {"call", "ask", "cancel", "finish"} : E(k, Null) \in Sent /\ E(k, Null).kind = k
  BY EmittedTyped DEF E
<1>3. \A k \in Kinds, t \in Tools : E(k, t) \in Sent /\ E(k, t).kind = k /\ E(k, t).tool = t
  BY EmittedTyped DEF E
<1>4. ASSUME NEW x, NEW e \in Sent, e.kind \notin {"ask", "cancel", "finish", "result", "reset"}
      PROVE  ShowSheet(x, e) = x
  BY <1>4 DEF ShowSheet, Withdraws
<1>5. CASE StartTurn \/ LocalCommand
  <2>1. FinalSheet' = FinalSheet
    <3>1. E("init", Null) \in Sent /\ E("init", Null).kind = "init"
          /\ E("prompt", Null) \in Sent /\ E("prompt", Null).kind = "prompt"
          /\ E("echo", Null) \in Sent /\ E("echo", Null).kind = "echo"
      BY <1>2 DEF Kinds
    <3>2. PICK e, f \in Sent : /\ e.kind \notin {"ask", "cancel", "finish", "result", "reset"}
                               /\ f.kind \notin {"ask", "cancel", "finish", "result", "reset"}
                               /\ Emit(<<e>>) \/ Emit(<<e, f>>)
      BY <3>1, <1>5 DEF StartTurn, LocalCommand
    <3>3. QED BY <3>2, <1>0, <1>1, <1>4, SheetEmit
  <2>2. wire' = wire /\ call' = call BY <1>5 DEF StartTurn, LocalCommand, ServerAndPhone
  <2>3. QED BY <2>1, <2>2, <1>1 DEF Sheet, Waiting
<1>6. CASE ReadAnswer
  <2>1. FinalSheet' = FinalSheet BY <1>6, <1>1 DEF FinalSheet, ReadAnswer
  <2>2. PICK h \in Tools : /\ h = wire[1] /\ 1 \in DOMAIN wire /\ wire' = Tail(wire)
                           /\ call' = [call EXCEPT ![h] = IF @ = "asking" THEN "answered" ELSE @]
    <3>1. wire # <<>> /\ wire' = Tail(wire)
          /\ call' = [call EXCEPT ![Head(wire)] = IF @ = "asking" THEN "answered" ELSE @]
      BY <1>6 DEF ReadAnswer
    <3>2. Head(wire) \in Tools /\ Head(wire) = wire[1] /\ 1 \in DOMAIN wire
      BY <1>0, <3>1
    <3>3. QED BY <3>1, <3>2
  <2>3. h # FinalSheet BY <2>2 DEF Sheet
  <2>4. Waiting' = Waiting \ {h} BY <2>2, <1>0 DEF Waiting
  <2>5. \A i \in DOMAIN wire' : i + 1 \in DOMAIN wire /\ wire'[i] = wire[i + 1]
    BY <2>2, <1>0
  <2>6. QED BY <2>1, <2>3, <2>4, <2>5, <1>1 DEF Sheet
<1>7. CASE EndTurn
  <2>1. Waiting' = {} BY <1>0, <1>7, RunningAfter
  <2>2. FinalSheet' = Null
    <3>1. PICK k \in {"result", "summary", "reset"} :
             Emit(<<E(k, Null)>>) /\ (k = "summary" => Running = {})
      BY <1>7 DEF EndTurn
    <3>2. PICK e \in Sent : e.kind = k /\ Emit(<<e>>) BY <3>1, <1>2 DEF Kinds
    <3>3. FinalSheet' = ShowSheet(FinalSheet, e) BY <3>2, <1>0, <1>1, SheetEmit
    <3>4. CASE k = "summary"
      <4>1. Waiting = {} BY <3>1, <3>4 DEF Running, Waiting
      <4>2. FinalSheet = Null BY <4>1 DEF Sheet
      <4>3. QED BY <3>2, <3>3, <3>4, <4>2, <1>4
    <3>5. CASE k # "summary"
      BY <3>2, <3>3, <3>5 DEF ShowSheet, Withdraws
    <3>6. QED BY <3>4, <3>5
  <2>3. wire' = wire BY <1>7 DEF EndTurn, ServerAndPhone
  <2>4. \A i \in DOMAIN wire : wire[i] # Null BY <1>0
  <2>5. \A i \in DOMAIN answers : answers[i] # Null BY <1>0
  <2>6. QED BY <2>1, <2>2, <2>3, <2>4, <2>5, <1>1 DEF Sheet
<1>8. ~Exit
  BY DEF Exit, Staying
<1>9. ASSUME NEW t \in Tools, Call(t) \/ Ask(t) \/ AnswerInTerminal(t) \/ Finish(t) PROVE Sheet'
  <2>1. wire' = wire
    BY <1>9 DEF Call, Ask, AnswerInTerminal, Finish, ServerAndPhone
  <2>2. CASE Call(t)
    <3>1. PICK e \in Sent : e.kind = "call" /\ Emit(<<e>>) BY <2>2, <1>3 DEF Call, Kinds
    <3>2. FinalSheet' = FinalSheet BY <3>1, <1>0, <1>1, <1>4, SheetEmit
    <3>3. Waiting' = Waiting BY <2>2, <1>0 DEF Call, Waiting
    <3>4. QED BY <2>1, <3>2, <3>3, <1>1 DEF Sheet
  <2>3. CASE Ask(t)
    <3>1. PICK e \in Sent : e.kind = "ask" /\ e.tool = t /\ Emit(<<e>>)
      <4>1. E("ask", t) \in Sent /\ E("ask", t).kind = "ask" /\ E("ask", t).tool = t
        BY <1>3 DEF Kinds
      <4>2. Emit(<<E("ask", t)>>) BY <2>3 DEF Ask
      <4>3. QED BY <4>1, <4>2
    <3>2. FinalSheet' = ShowSheet(FinalSheet, e) BY <3>1, <1>0, <1>1, SheetEmit
    <3>3. FinalSheet' = t BY <3>1, <3>2 DEF ShowSheet, Withdraws
    <3>4. t \in Waiting' BY <2>3, <1>0 DEF Ask, Waiting
    <3>5. call[t] = "open" BY <2>3 DEF Ask
    <3>6. /\ \A i \in DOMAIN wire : wire[i] # t
          /\ \A i \in DOMAIN answers : answers[i] # t
      BY <3>5, <1>0 DEF Asking
    <3>7. QED BY <2>1, <3>3, <3>4, <3>6, <1>1 DEF Sheet
  <2>4. CASE AnswerInTerminal(t)
    <3>1. PICK e \in Sent : e.kind = "cancel" /\ e.tool = t /\ Emit(<<e>>)
      <4>1. E("cancel", t) \in Sent /\ E("cancel", t).kind = "cancel" /\ E("cancel", t).tool = t
        BY <1>3 DEF Kinds
      <4>2. Emit(<<E("cancel", t)>>) BY <2>4 DEF AnswerInTerminal
      <4>3. QED BY <4>1, <4>2
    <3>2. FinalSheet' = ShowSheet(FinalSheet, e) BY <3>1, <1>0, <1>1, SheetEmit
    <3>3. t \in Waiting BY <2>4 DEF AnswerInTerminal, Waiting
    <3>4. FinalSheet \in {t, Null} BY <3>3, <1>0 DEF Sheet, Badge
    <3>5. FinalSheet' = Null BY <3>1, <3>2, <3>4 DEF ShowSheet, Withdraws
    <3>6. /\ \A i \in DOMAIN wire : wire[i] # Null
          /\ \A i \in DOMAIN answers : answers[i] # Null
      BY <1>0
    <3>7. QED BY <2>1, <3>5, <3>6, <1>1 DEF Sheet
  <2>5. CASE Finish(t)
    <3>1. PICK e \in Sent : e.kind = "finish" /\ e.tool = t /\ Emit(<<e>>)
      <4>1. E("finish", t) \in Sent /\ E("finish", t).kind = "finish" /\ E("finish", t).tool = t
        BY <1>3 DEF Kinds
      <4>2. Emit(<<E("finish", t)>>) BY <2>5 DEF Finish
      <4>3. QED BY <4>1, <4>2
    <3>2. FinalSheet' = ShowSheet(FinalSheet, e) BY <3>1, <1>0, <1>1, SheetEmit
    <3>3. Waiting' = Waiting BY <2>5, <1>0 DEF Finish, Waiting
    <3>4. FinalSheet' \in {Null, FinalSheet} BY <3>1, <3>2 DEF ShowSheet, Withdraws
    <3>5. /\ \A i \in DOMAIN wire : wire[i] # Null
          /\ \A i \in DOMAIN answers : answers[i] # Null
      BY <1>0
    <3>6. QED BY <2>1, <3>3, <3>4, <3>5, <1>1 DEF Sheet
  <2>6. QED BY <1>9, <2>2, <2>3, <2>4, <2>5
<1>10. QED BY <1>5, <1>6, <1>7, <1>8, <1>9 DEF WorkerStep

\* And after one of the server or of the phone: an answer closes the sheet.
LEMMA SheetServer ==
    Parameters /\ Staying /\ PhoneInv /\ Sheet /\ (ServerStep \/ Answer \/ Reopen) => Sheet'
<1> SUFFICES ASSUME Parameters, Staying, PhoneInv, Sheet, ServerStep \/ Answer \/ Reopen
             PROVE  Sheet'
  OBVIOUS
<1>0. /\ wire \in Seq(Tools) /\ answers \in Seq(Tools) /\ Null \notin Tools
      /\ sheet \in Tools \cup {Null} /\ outbox \in Seq(Sent) /\ posting = <<>>
      /\ used \in [{"detach", "restart", "reopen"} -> Nat]
      /\ Typing /\ Asking
  BY DEF PhoneInv, Typing, TypeOK, Asking, Parameters
<1>1. Waiting' = Waiting
  BY DEF ServerStep, Post, ResumePost, HandleAnswer, Flush, LoseStream, OpenStream, Restart,
     Answer, Reopen, workerVars, Waiting
<1>2. ASSUME NEW k \in 1 .. MaxBatch, Post(k) PROVE Sheet'
  <2>1. k \in Nat /\ k <= Len(outbox) BY <1>2 DEF Post, Parameters
  <2>2. PICK batch, rest : /\ batch = SubSeq(outbox, 1, k)
                           /\ rest = SubSeq(outbox, k + 1, Len(outbox))
    OBVIOUS
  <2>3. batch \in Seq(Sent) /\ rest \in Seq(Sent) /\ outbox = batch \o rest
    BY <2>1, <2>2, <1>0, SplitOutbox
  <2>4. sheet' = Shown(sheet, batch) /\ outbox' = rest /\ UNCHANGED <<wire, answers>>
    BY <1>2, <2>2 DEF Post, Shown
  <2>5. FinalSheet = Shown(Shown(sheet, batch), rest)
    BY ONLY <2>3, <1>0, Showing DEF FinalSheet
  <2>6. FinalSheet' = FinalSheet BY <2>4, <2>5 DEF FinalSheet
  <2>7. QED BY <2>4, <2>6, <1>1 DEF Sheet
<1>3. ~ResumePost /\ ~Restart /\ ~Reopen
  BY <1>0 DEF ResumePost, Restart, Reopen, Staying
<1>4. CASE HandleAnswer
  <2>1. FinalSheet' = FinalSheet BY <1>4 DEF FinalSheet, HandleAnswer
  <2>2. PICK h \in Tools : /\ h = answers[1] /\ 1 \in DOMAIN answers /\ answers' = Tail(answers)
                           /\ wire' = wire \/ wire' = Append(wire, h)
    BY <1>0, <1>4 DEF HandleAnswer
  <2>3. \A i \in DOMAIN wire' : wire'[i] = h \/ (i \in DOMAIN wire /\ wire'[i] = wire[i])
    <3>1. CASE wire' = wire BY <3>1
    <3>2. CASE wire' = Append(wire, h) BY <3>2, <1>0
    <3>3. QED BY <2>2, <3>1, <3>2
  <2>4. \A i \in DOMAIN answers' : i + 1 \in DOMAIN answers /\ answers'[i] = answers[i + 1]
    BY <2>2, <1>0
  <2>5. QED BY <2>1, <2>2, <2>3, <2>4, <1>1 DEF Sheet
<1>5. CASE Flush \/ LoseStream \/ OpenStream
  <2>1. FinalSheet' = FinalSheet BY <1>5 DEF FinalSheet, Flush, LoseStream, OpenStream, phoneVars
  <2>2. (wire' = wire \/ wire' = <<>>) /\ answers' = answers
    BY <1>5 DEF Flush, LoseStream, OpenStream, phoneVars
  <2>3. QED BY <2>1, <2>2, <1>1 DEF Sheet
<1>6. CASE Answer
  <2>1. /\ sheet \in Tools /\ sheet' = Null /\ answers' = Append(answers, sheet)
        /\ outbox' = outbox /\ wire' = wire
    BY <1>0, <1>6 DEF Answer
  <2>2. FinalSheet' = Shown(Null, outbox) BY <2>1 DEF FinalSheet
  <2>3. FinalSheet' \in {Null, FinalSheet}
    BY <2>2, <1>0, SheetOverNull DEF FinalSheet
  <2>4. FinalSheet' # sheet
    <3>1. ~AskedIn(outbox, sheet) BY <2>1, <1>0 DEF Asking
    <3>2. CASE FinalSheet' = Null BY <3>2, <2>1, <1>0
    <3>3. CASE FinalSheet' # Null
      <4>1. Null \in Tools \cup {Null} OBVIOUS
      <4>2. AskedIn(outbox, FinalSheet')
        BY <4>1, <3>3, <2>2, <1>0, SheetWasAsked DEF AskedIn, Asks
      <4>3. QED BY <4>2, <3>1
    <3>4. QED BY <3>2, <3>3
  <2>5. \A i \in DOMAIN answers' : answers'[i] = sheet \/ (i \in DOMAIN answers /\ answers'[i] = answers[i])
    BY <2>1, <1>0
  <2>6. /\ \A i \in DOMAIN wire : wire[i] # Null
        /\ \A i \in DOMAIN answers : answers[i] # Null
    BY <1>0
  <2>7. QED BY <2>1, <2>3, <2>4, <2>5, <2>6, <1>1 DEF Sheet
<1>7. QED BY <1>2, <1>3, <1>4, <1>5, <1>6 DEF ServerStep

\* A step that changes nothing.
LEMMA SheetStutter == Sheet /\ UNCHANGED vars => Sheet'
BY DEF Sheet, FinalSheet, Waiting, vars, workerVars, phoneVars

\* What the invariant says once everything was relayed.
LEMMA SheetMeans == ASSUME Typing, Sheet PROVE SheetIsLive
<1>1. sheet \in Tools \cup {Null} /\ <<>> \in Seq(Sent)
  BY DEF Typing, TypeOK
<1>2. Quiet => FinalSheet = sheet
  BY <1>1, Showing DEF Quiet, FinalSheet
<1>3. QED BY <1>2 DEF Sheet, SheetIsLive

-----------------------------------------------------------------------------
(* The theorems.                                                           *)

\* Once a turn is over and the server was told, the row settles, and a turn the
\* digest reports is one turnActiveIn finds (store.ts, foldDigest settle;
\* model.ts, turnActiveIn); and until a restart the row is that of the newest
\* visible call (store.ts, foldDigest).
THEOREM RowFollows ==
    ASSUME Parameters
    PROVE  Spec => [](/\ TypeOK /\ RowSettles /\ StopButtonOffered
                      /\ used["restart"] = 0 => RowIsNewestCall)
<1>1. Init => RowInv
  BY RowInit
<1>2. RowInv /\ [Next]_vars => RowInv'
  BY RowStep
<1>3. RowInv => /\ TypeOK /\ RowSettles /\ StopButtonOffered
                /\ used["restart"] = 0 => RowIsNewestCall
  BY RowMeans DEF RowInv, Typing
<1>4. QED BY <1>1, <1>2, <1>3, PTL DEF Spec

\* Without PostgreSQL the badge drops with the answer, whatever streams are lost
\* and however often the phone reopens the session (index.ts,
\* sendControlResponse).
THEOREM BadgeDrops ==
    ASSUME Parameters, ~HasPool
    PROVE  Spec => []BadgeNotStale
<1>1. Init => PhoneInv
  BY PhoneInit
<1>2. PhoneInv /\ [Next]_vars => PhoneInv'
  BY PhoneStep
<1>3. PhoneInv => BadgeNotStale
  BY BadgeMeans
<1>4. QED BY <1>1, <1>2, <1>3, PTL DEF Spec

\* And as long as the phone does not reopen the session and the worker does not
\* exit, the sheet it shows is of the request the worker waits on (model.ts,
\* controlCancel).
THEOREM SheetStaysLive ==
    ASSUME Parameters, Staying
    PROVE  Spec => []SheetIsLive
<1> DEFINE Inv == RowInv /\ PhoneInv /\ Sheet
<1>1. Init => Inv
  BY RowInit, PhoneInit, SheetInit DEF SheetInv
<1>2. Inv /\ [Next]_vars => Inv'
  BY RowStep, PhoneStep, SheetWorker, SheetServer, SheetStutter DEF Next, Staying
<1>3. Inv => SheetIsLive
  BY SheetMeans DEF PhoneInv
<1> HIDE DEF Inv
<1>4. QED BY <1>1, <1>2, <1>3, PTL DEF Spec

=============================================================================
