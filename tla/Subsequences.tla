---------------------------- MODULE Subsequences ----------------------------
(***************************************************************************)
(* The array filter and reduce of the code as recursive functions: the     *)
(* prover knows nothing of SelectSeq, while it can be shown what these     *)
(* return (RecursionLemmas).                                               *)
(***************************************************************************)
EXTENDS Naturals, Sequences

\* The elements of s at the positions in I, in their order.
SubseqAt(s, I) ==
    LET kept[i \in 0 .. Len(s)] ==
            IF i = 0 THEN <<>>
            ELSE IF i \in I THEN Append(kept[i - 1], s[i]) ELSE kept[i - 1]
    IN  kept[Len(s)]

\* op over the elements of s in their order, from base.
Reduce(op(_, _), base, s) ==
    LET upto[i \in 0 .. Len(s)] == IF i = 0 THEN base ELSE op(upto[i - 1], s[i])
    IN  upto[Len(s)]

=============================================================================
