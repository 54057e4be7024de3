--------------------------- MODULE RecursionLemmas ---------------------------
(***************************************************************************)
(* Induction and recursion over the natural numbers as first-order facts.  *)
(* The library's induction theorems take the predicate as an operator      *)
(* argument, which no installed prover can instantiate; here the predicate *)
(* is the set of its counterexamples, and the step of a recursion is a     *)
(* function.                                                               *)
(***************************************************************************)
EXTENDS Integers, Subsequences, FiniteSets, FiniteSetTheorems, SequenceTheorems,
        SequencesExt, WellFoundedInduction, TLAPS

\* Every non-empty set of natural numbers has a least element.
LEMMA LeastElement ==
    ASSUME NEW T, T \subseteq Nat, T # {}
    PROVE  \E x \in T : \A y \in T : x <= y
<1> DEFINE U == {0 .. n : n \in T}
<1>1. U \subseteq FiniteSubsetsOf(Nat)
  <2>1. ASSUME NEW n \in T PROVE 0 .. n \in FiniteSubsetsOf(Nat)
    <3>1. IsFiniteSet(0 .. n) BY FS_Interval
    <3>2. 0 .. n \subseteq Nat OBVIOUS
    <3>3. QED BY <3>1, <3>2 DEF FiniteSubsetsOf
  <2>2. QED BY <2>1
<1>2. IsWellFoundedOn(StrictSubsetOrdering(Nat), FiniteSubsetsOf(Nat))
  BY FS_StrictSubsetOrderingWellFounded
<1>3. PICK u \in U : \A v \in U : ~(<<v, u>> \in StrictSubsetOrdering(Nat))
  <2>1. U # {} OBVIOUS
  <2> HIDE DEF U
  <2>2. QED BY <2>1, <1>1, <1>2, WFMin
<1>4. PICK x \in T : u = 0 .. x
  OBVIOUS
<1>5. ASSUME NEW y \in T, y < x PROVE FALSE
  <2>1. <<0 .. y, u>> \in StrictSubsetOrdering(Nat)
    BY <1>4, <1>5 DEF StrictSubsetOrdering
  <2>2. QED BY <2>1, <1>3
<1>6. QED BY <1>5

\* Primitive recursion: a step function g and a start b define a function on
\* 0 .. N.
Recursion(f, T, N, b, g) ==
    /\ f \in [0 .. N -> T]
    /\ f[0] = b
    /\ \A n \in 1 .. N : f[n] = g[<<n, f[n - 1]>>]

\* Such a function exists.
LEMMA PrimitiveRecursion ==
    ASSUME NEW T, NEW N \in Nat, NEW b \in T, NEW g \in [(1 .. N) \X T -> T]
    PROVE  \E f : Recursion(f, T, N, b, g)
<1> DEFINE Good(m, f) == /\ f \in [0 .. m -> T]
                         /\ f[0] = b
                         /\ \A n \in 1 .. m : f[n] = g[<<n, f[n - 1]>>]
           Bad == {m \in 0 .. N : \A f \in [0 .. m -> T] : ~Good(m, f)}
<1>1. SUFFICES Bad = {}
  <2>1. N \in 0 .. N OBVIOUS
  <2>2. PICK f \in [0 .. N -> T] : Good(N, f) BY <1>1, <2>1
  <2>3. Recursion(f, T, N, b, g) BY <2>2 DEF Recursion
  <2>4. QED BY <2>3
<1>2. SUFFICES ASSUME Bad # {} PROVE FALSE
  OBVIOUS
<1>3. PICK m \in Bad : \A y \in Bad : m <= y
  <2>1. Bad \subseteq Nat OBVIOUS
  <2>2. QED BY <2>1, <1>2, LeastElement
<1>4. CASE m = 0
  <2>1. Good(0, [i \in 0 .. 0 |-> b]) OBVIOUS
  <2>2. QED BY <2>1, <1>3, <1>4
<1>5. CASE m # 0
  <2>1. m \in 1 .. N /\ m - 1 \in 0 .. N BY <1>3, <1>5
  <2>2. m - 1 \notin Bad BY <2>1, <1>3
  <2>3. PICK f \in [0 .. m - 1 -> T] : Good(m - 1, f) BY <2>1, <2>2
  <2> DEFINE h == [i \in 0 .. m |-> IF i = m THEN g[<<m, f[m - 1]>>] ELSE f[i]]
  <2>4. g[<<m, f[m - 1]>>] \in T BY <2>1, <2>3
  <2>5. h \in [0 .. m -> T] BY <2>1, <2>3, <2>4
  <2>6. h[0] = b BY <2>1, <2>3
  <2>7. ASSUME NEW n \in 1 .. m PROVE h[n] = g[<<n, h[n - 1]>>]
    <3>1. h[n - 1] = f[n - 1] BY <2>1
    <3>2. CASE n = m
      <4>1. h[n] = g[<<m, f[m - 1]>>] BY <3>2
      <4>2. QED BY <4>1, <3>1, <3>2
    <3>3. CASE n # m BY <2>1, <2>3, <3>1, <3>3
    <3>4. QED BY <3>2, <3>3
  <2>8. Good(m, h) BY <2>5, <2>6, <2>7
  <2>9. QED BY <2>5, <2>8, <1>3
<1>6. QED BY <1>4, <1>5

\* Induction up to n over a set.
LEMMA UpTo ==
    ASSUME NEW n \in Nat, NEW S, 0 \in S, \A i \in 1 .. n : i - 1 \in S => i \in S
    PROVE  0 .. n \subseteq S
<1> DEFINE Bad == (0 .. n) \ S
<1>1. ASSUME Bad # {} PROVE FALSE
  <2>1. PICK m \in Bad : \A y \in Bad : m <= y
    <3>1. Bad \subseteq Nat OBVIOUS
    <3>2. QED BY <3>1, <1>1, LeastElement
  <2>2. m \in 1 .. n /\ m - 1 \in 0 .. n
    BY <2>1
  <2>3. m - 1 \in S
    BY <2>1, <2>2
  <2>4. QED BY <2>1, <2>2, <2>3
<1>2. QED BY <1>1

\* What SubseqAt returns step by step.
Filtering(kept, E, s, I, L) ==
    /\ kept \in [0 .. L -> Seq(E)]
    /\ kept[0] = <<>>
    /\ \A i \in 1 .. L : kept[i] = IF i \in I THEN Append(kept[i - 1], s[i]) ELSE kept[i - 1]
    /\ SubseqAt(s, I) = kept[L]

\* There is such a sequence of steps.
LEMMA SubseqAtSteps ==
    ASSUME NEW E, NEW s \in Seq(E), NEW I
    PROVE  \E kept : Filtering(kept, E, s, I, Len(s))
<1> DEFINE L == Len(s)
           IsKept(f) == f = [i \in 0 .. L |->
                              IF i = 0 THEN <<>>
                              ELSE IF i \in I THEN Append(f[i - 1], s[i]) ELSE f[i - 1]]
           kept == CHOOSE f : IsKept(f)
<1>1. L \in Nat /\ \A i \in 1 .. L : s[i] \in E
  OBVIOUS
<1> HIDE DEF L
<1>2. \E f : IsKept(f)
  <2> DEFINE g == [x \in (1 .. L) \X Seq(E) |->
                     IF x[1] \in I THEN Append(x[2], s[x[1]]) ELSE x[2]]
  <2>1. g \in [(1 .. L) \X Seq(E) -> Seq(E)]
    <3>1. ASSUME NEW x \in (1 .. L) \X Seq(E)
          PROVE  (IF x[1] \in I THEN Append(x[2], s[x[1]]) ELSE x[2]) \in Seq(E)
      <4>1. x[1] \in 1 .. L /\ x[2] \in Seq(E) BY <3>1
      <4>2. s[x[1]] \in E BY <1>1, <4>1
      <4>3. Append(x[2], s[x[1]]) \in Seq(E) BY <4>1, <4>2
      <4>4. QED BY <4>1, <4>3
    <3>2. QED BY <3>1
  <2>2. ASSUME NEW i \in 1 .. L, NEW q \in Seq(E)
        PROVE  g[<<i, q>>] = IF i \in I THEN Append(q, s[i]) ELSE q
    <3>1. <<i, q>> \in (1 .. L) \X Seq(E) OBVIOUS
    <3>2. QED BY <3>1
  <2>3. <<>> \in Seq(E) OBVIOUS
  <2> DEFINE T == Seq(E)
             b == <<>>
  <2> HIDE DEF g, IsKept, kept
  <2>4. PICK f : Recursion(f, T, L, b, g)
    <3>1. L \in Nat /\ b \in T /\ g \in [(1 .. L) \X T -> T] BY <1>1, <2>1, <2>3
    <3> HIDE DEF T, b
    <3>2. QED BY <3>1, PrimitiveRecursion
  <2>5. ASSUME NEW i \in 1 .. L
        PROVE  f[i] = IF i \in I THEN Append(f[i - 1], s[i]) ELSE f[i - 1]
    <3>1. i - 1 \in 0 .. L BY <1>1
    <3>2. f[i - 1] \in Seq(E) BY <3>1, <2>4 DEF Recursion
    <3>3. QED BY <2>2, <2>4, <3>2 DEF Recursion
  <2>6. ASSUME NEW i \in 0 .. L
        PROVE  f[i] = IF i = 0 THEN <<>>
                      ELSE IF i \in I THEN Append(f[i - 1], s[i]) ELSE f[i - 1]
    <3>1. CASE i = 0 BY <2>4, <3>1 DEF Recursion
    <3>2. CASE i # 0
      <4>1. i \in 1 .. L BY <1>1, <3>2
      <4>2. QED BY <2>5, <4>1, <3>2
    <3>3. QED BY <3>1, <3>2
  <2>7. IsKept(f) BY <2>4, <2>6 DEF IsKept, Recursion
  <2>8. QED BY <2>7
<1>3. IsKept(kept)
  <2> HIDE DEF IsKept
  <2>1. QED BY <1>2
<1>4. SubseqAt(s, I) = kept[L]
  BY DEF SubseqAt, L
<1> HIDE DEF kept
<1>5. ASSUME NEW i \in 0 .. L
      PROVE  kept[i] = IF i = 0 THEN <<>>
                       ELSE IF i \in I THEN Append(kept[i - 1], s[i]) ELSE kept[i - 1]
  BY <1>3, Zenon
<1>6. kept = [i \in 0 .. L |-> kept[i]]
  BY <1>3
<1> HIDE DEF IsKept
<1>7. kept[0] = <<>>
  BY <1>1, <1>5
<1>8. ASSUME NEW i \in 1 .. L
      PROVE  kept[i] = IF i \in I THEN Append(kept[i - 1], s[i]) ELSE kept[i - 1]
  BY <1>1, <1>5
<1> DEFINE S == {i \in 0 .. L : kept[i] \in Seq(E)}
<1>9. \A i \in 1 .. L : i - 1 \in S => i \in S
  <2>1. ASSUME NEW i \in 1 .. L, kept[i - 1] \in Seq(E) PROVE kept[i] \in Seq(E)
    <3>1. s[i] \in E BY <1>1
    <3>2. kept[i] = IF i \in I THEN Append(kept[i - 1], s[i]) ELSE kept[i - 1] BY <1>8
    <3>3. Append(kept[i - 1], s[i]) \in Seq(E) BY <2>1, <3>1
    <3>4. QED BY <2>1, <3>2, <3>3
  <2>2. QED BY <1>1, <2>1
<1>10. 0 \in S
  <2>1. <<>> \in Seq(E) OBVIOUS
  <2>2. 0 \in 0 .. L BY <1>1
  <2>3. QED BY <1>7, <2>1, <2>2
<1> HIDE DEF S
<1>11. 0 .. L \subseteq S
  BY <1>1, <1>9, <1>10, UpTo
<1>12. kept \in [0 .. L -> Seq(E)]
  BY <1>6, <1>11 DEF S
<1>13. Filtering(kept, E, s, I, L)
  BY <1>4, <1>7, <1>8, <1>12 DEF Filtering
<1>14. QED BY <1>13 DEF L

\* A filtered sequence is made of what is at these positions, and of all of it.
LEMMA SubseqAtContents ==
    ASSUME NEW E, NEW s \in Seq(E), NEW I
    PROVE  /\ SubseqAt(s, I) \in Seq(E)
           /\ \A j \in DOMAIN SubseqAt(s, I) : \E i \in DOMAIN s : i \in I /\ SubseqAt(s, I)[j] = s[i]
           /\ \A i \in DOMAIN s : i \in I => \E j \in DOMAIN SubseqAt(s, I) : SubseqAt(s, I)[j] = s[i]
<1> DEFINE L == Len(s)
<1>1. PICK kept : Filtering(kept, E, s, I, L)
  BY SubseqAtSteps
<1> USE DEF Filtering
<1>2. L \in Nat /\ DOMAIN s = 1 .. L /\ \A i \in 1 .. L : s[i] \in E
  OBVIOUS
<1> DEFINE Good(k) ==
             /\ \A j \in DOMAIN kept[k] : \E i \in 1 .. k : i \in I /\ kept[k][j] = s[i]
             /\ \A i \in 1 .. k : i \in I => \E j \in DOMAIN kept[k] : kept[k][j] = s[i]
           S == {k \in 0 .. L : Good(k)}
<1> HIDE DEF L
<1>3. 0 \in S
  BY <1>1, <1>2
<1>4. ASSUME NEW k \in 1 .. L, Good(k - 1) PROVE Good(k)
  <2>1. k - 1 \in 0 .. L /\ 1 .. k = 1 .. (k - 1) \cup {k}
    BY <1>2
  <2>2. kept[k - 1] \in Seq(E) /\ s[k] \in E
    BY <1>1, <1>2, <2>1
  <2>3. CASE k \in I
    <3>1. kept[k] = Append(kept[k - 1], s[k])
      BY <1>1, <2>3
    <3>2. /\ \A j \in DOMAIN kept[k] : \/ j \in DOMAIN kept[k - 1] /\ kept[k][j] = kept[k - 1][j]
                                       \/ kept[k][j] = s[k]
          /\ \A j \in DOMAIN kept[k - 1] : j \in DOMAIN kept[k] /\ kept[k][j] = kept[k - 1][j]
          /\ \E j \in DOMAIN kept[k] : kept[k][j] = s[k]
      <4>1. PICK n \in Nat : n = Len(kept[k - 1])
        BY <2>2
      <4>2. DOMAIN kept[k - 1] = 1 .. n /\ DOMAIN kept[k] = 1 .. n + 1
        BY <2>2, <3>1, <4>1
      <4>3. kept[k][n + 1] = s[k] /\ \A j \in 1 .. n : kept[k][j] = kept[k - 1][j]
        BY <2>2, <3>1, <4>1
      <4>4. 1 .. n + 1 = 1 .. n \cup {n + 1}
        BY <4>1
      <4>5. QED BY <4>2, <4>3, <4>4
    <3>3. \A j \in DOMAIN kept[k] : \E i \in 1 .. k : i \in I /\ kept[k][j] = s[i]
      BY <1>4, <2>1, <2>3, <3>2
    <3>4. \A i \in 1 .. k : i \in I => \E j \in DOMAIN kept[k] : kept[k][j] = s[i]
      BY <1>4, <2>1, <3>2
    <3>5. QED BY <3>3, <3>4
  <2>4. CASE k \notin I
    <3>1. kept[k] = kept[k - 1]
      BY <1>1, <2>4
    <3>2. QED BY <1>4, <2>1, <2>4, <3>1
  <2>5. QED BY <2>3, <2>4
<1>5. \A k \in 1 .. L : k - 1 \in S => k \in S
  <2> HIDE DEF Good
  <2>1. QED BY <1>2, <1>4
<1> HIDE DEF S
<1>6. 0 .. L \subseteq S
  BY <1>2, <1>3, <1>5, UpTo
<1>7. Good(L)
  BY <1>2, <1>6 DEF S
<1>8. SubseqAt(s, I) = kept[L] /\ kept[L] \in Seq(E)
  BY <1>1, <1>2
<1>9. QED BY <1>2, <1>7, <1>8

\* A filtered sequence over E is a sequence over E, for any E: filtering makes
\* nothing up.
LEMMA SubseqAtType ==
    ASSUME NEW E, NEW s \in Seq(E), NEW I
    PROVE  SubseqAt(s, I) \in Seq(E)
BY SubseqAtContents

\* A filtered sequence keeps the order of the sequence: what holds of any two
\* elements, the earlier first, is still so.
LEMMA SubseqAtOrder ==
    ASSUME NEW E, NEW s \in Seq(E), NEW I, NEW R,
           \A i, j \in DOMAIN s : i < j => <<s[i], s[j]>> \in R
    PROVE  \A i, j \in DOMAIN SubseqAt(s, I) : i < j => <<SubseqAt(s, I)[i], SubseqAt(s, I)[j]>> \in R
<1>1. PICK L \in Nat : L = Len(s) /\ DOMAIN s = 1 .. L
  OBVIOUS
<1>2. PICK kept : Filtering(kept, E, s, I, L)
  BY <1>1, SubseqAtSteps
<1>3. kept \in [0 .. L -> Seq(E)] /\ kept[0] = <<>> /\ SubseqAt(s, I) = kept[L]
      /\ \A i \in 1 .. L : kept[i] = IF i \in I THEN Append(kept[i - 1], s[i]) ELSE kept[i - 1]
  BY <1>2 DEF Filtering
<1> DEFINE Good(k) ==
             /\ \A j \in DOMAIN kept[k] : \E i \in 1 .. k : kept[k][j] = s[i]
             /\ \A i, j \in DOMAIN kept[k] : i < j => <<kept[k][i], kept[k][j]>> \in R
           S == {k \in 0 .. L : Good(k)}
<1>4. 0 \in S
  BY <1>3
<1>5. ASSUME NEW k \in 1 .. L, Good(k - 1) PROVE Good(k)
  <2>1. k - 1 \in 0 .. L /\ 1 .. k = 1 .. (k - 1) \cup {k}
    OBVIOUS
  <2>2. kept[k - 1] \in Seq(E) /\ s[k] \in E
    <3> HIDE DEF Good
    <3>1. kept[k - 1] \in Seq(E)
      BY <1>3, <2>1
    <3>2. s[k] \in E
      BY <1>1
    <3>3. QED BY <3>1, <3>2
  <2>3. CASE k \in I
    <3>1. PICK a, b, x : a = kept[k - 1] /\ b = kept[k] /\ x = s[k]
      OBVIOUS
    <3>2. b = Append(a, x) /\ a \in Seq(E) /\ x \in E
      BY <1>3, <2>2, <2>3, <3>1
    <3>3. PICK n \in Nat : n = Len(a)
      BY <3>2
    <3>4. /\ DOMAIN a = 1 .. n /\ DOMAIN b = 1 .. n + 1
          /\ b[n + 1] = x /\ \A j \in 1 .. n : b[j] = a[j]
      BY <3>2, <3>3
    <3>5. \A j \in DOMAIN a : \E i \in 1 .. k - 1 : a[j] = s[i]
      BY <1>5, <3>1
    <3>6. \A j \in DOMAIN b : \E i \in 1 .. k : b[j] = s[i]
      <4>1. ASSUME NEW j \in DOMAIN b PROVE \E i \in 1 .. k : b[j] = s[i]
        <5>1. j \in 1 .. n \/ j = n + 1
          BY <3>4
        <5>2. CASE j \in 1 .. n
          BY <2>1, <3>4, <3>5, <5>2
        <5>3. CASE j = n + 1
          BY <2>1, <3>1, <3>4, <5>3
        <5>4. QED BY <5>1, <5>2, <5>3
      <4>2. QED BY <4>1
    <3>7. \A i, j \in DOMAIN b : i < j => <<b[i], b[j]>> \in R
      <4>1. ASSUME NEW i \in DOMAIN b, NEW j \in DOMAIN b, i < j PROVE <<b[i], b[j]>> \in R
        <5>1. i \in 1 .. n /\ b[i] = a[i]
          BY <3>4, <4>1
        <5>2. CASE j \in 1 .. n
          <6>1. i \in DOMAIN a /\ j \in DOMAIN a /\ b[j] = a[j]
            BY <3>4, <5>1, <5>2
          <6>2. <<a[i], a[j]>> \in R
            BY <1>5, <3>1, <4>1, <6>1
          <6>3. QED BY <5>1, <6>1, <6>2
        <5>3. CASE j = n + 1
          <6>1. PICK m \in 1 .. k - 1 : a[i] = s[m]
            BY <3>4, <3>5, <5>1
          <6>2. m \in DOMAIN s /\ k \in DOMAIN s /\ m < k
            BY <1>1
          <6>3. <<s[m], s[k]>> \in R
            BY <6>2
          <6>4. QED BY <3>1, <3>4, <5>1, <5>3, <6>1, <6>3
        <5>4. j \in 1 .. n \/ j = n + 1
          BY <3>4
        <5>5. QED BY <5>2, <5>3, <5>4
      <4>2. QED BY <4>1
    <3>8. QED BY <3>1, <3>6, <3>7
  <2>4. CASE k \notin I
    <3>1. kept[k] = kept[k - 1]
      BY <1>3, <2>4
    <3>2. QED BY <1>5, <2>1, <3>1
  <2>5. QED BY <2>3, <2>4
<1>6. \A k \in 1 .. L : k - 1 \in S => k \in S
  <2> HIDE DEF Good
  <2>1. QED BY <1>1, <1>5
<1> HIDE DEF S
<1>7. 0 .. L \subseteq S
  BY <1>4, <1>6, UpTo
<1>8. Good(L)
  BY <1>7 DEF S
<1>9. QED BY <1>3, <1>8

\* Filtering for what is all there returns the sequence.
LEMMA SubseqAtAll ==
    ASSUME NEW E, NEW s \in Seq(E), NEW I, 1 .. Len(s) \subseteq I
    PROVE  SubseqAt(s, I) = s
<1>1. PICK L \in Nat : L = Len(s)
  OBVIOUS
<1>2. PICK kept : Filtering(kept, E, s, I, L)
  BY <1>1, SubseqAtSteps
<1>3. kept[0] = <<>> /\ SubseqAt(s, I) = kept[L]
      /\ \A i \in 1 .. L : kept[i] = Append(kept[i - 1], s[i])
  BY <1>1, <1>2 DEF Filtering
<1> DEFINE S == {i \in 0 .. L : kept[i] = SubSeq(s, 1, i)}
<1>4. 0 \in S
  <2>1. SubSeq(s, 1, 0) = <<>>
    OBVIOUS
  <2>2. kept[0] = SubSeq(s, 1, 0)
    BY <1>3, <2>1
  <2>3. 0 \in 0 .. L
    OBVIOUS
  <2>4. QED BY ONLY <2>2, <2>3
<1>5. \A i \in 1 .. L : i - 1 \in S => i \in S
  <2>1. ASSUME NEW i \in 1 .. L, kept[i - 1] = SubSeq(s, 1, i - 1) PROVE kept[i] = SubSeq(s, 1, i)
    <3>1. SubSeq(s, 1, i) = SubSeq(s, 1, i - 1) \o <<s[i]>>
      BY <1>1, SubSeqRecursiveSecond
    <3>2. SubSeq(s, 1, i - 1) \in Seq(E) /\ s[i] \in E
      BY <1>1
    <3>3. Append(SubSeq(s, 1, i - 1), s[i]) = SubSeq(s, 1, i - 1) \o <<s[i]>>
      BY <3>2, AppendIsConcat
    <3>4. QED BY <1>3, <2>1, <3>1, <3>3
  <2>2. QED BY <2>1
<1>6. 0 .. L \subseteq S
  <2> HIDE DEF S
  <2>1. QED BY <1>4, <1>5, UpTo
<1>7. kept[L] = SubSeq(s, 1, L)
  BY <1>6
<1>8. QED BY <1>1, <1>3, <1>7, SubSeqFull

\* The first elements of a sequence.
LEMMA FirstOf ==
    ASSUME NEW E, NEW s \in Seq(E), NEW n \in Nat, n <= Len(s)
    PROVE  /\ SubSeq(s, 1, n) \in Seq(E) /\ Len(SubSeq(s, 1, n)) = n
           /\ \A j \in 1 .. n : SubSeq(s, 1, n)[j] = s[j]
OBVIOUS

-----------------------------------------------------------------------------
(* Sequences joined one after the other by a recursive function.           *)

\* What joining sequences one after the other returns step by step.
Joining(walk, E, parts, n) ==
    /\ walk \in [0 .. n -> Seq(E)]
    /\ walk[0] = <<>>
    /\ \A i \in 1 .. n : walk[i] = walk[i - 1] \o parts[i]

\* The recursive function that joins them is such a sequence of steps.
LEMMA JoiningSteps ==
    ASSUME NEW E, NEW n \in Nat, NEW parts \in [1 .. n -> Seq(E)]
    PROVE  Joining(CHOOSE f : f = [i \in 0 .. n |-> IF i = 0 THEN <<>> ELSE f[i - 1] \o parts[i]], E, parts, n)
<1> DEFINE IsWalk(f) == f = [i \in 0 .. n |-> IF i = 0 THEN <<>> ELSE f[i - 1] \o parts[i]]
           walk == CHOOSE f : IsWalk(f)
<1>1. \E f : IsWalk(f)
  <2> DEFINE g == [x \in (1 .. n) \X Seq(E) |-> x[2] \o parts[x[1]]]
  <2>1. g \in [(1 .. n) \X Seq(E) -> Seq(E)]
    <3>1. ASSUME NEW x \in (1 .. n) \X Seq(E) PROVE x[2] \o parts[x[1]] \in Seq(E)
      <4>1. x[2] \in Seq(E) /\ parts[x[1]] \in Seq(E) OBVIOUS
      <4>2. QED BY <4>1, ConcatProperties
    <3>2. QED BY <3>1
  <2>2. ASSUME NEW i \in 1 .. n, NEW q \in Seq(E) PROVE g[<<i, q>>] = q \o parts[i]
    <3>1. <<i, q>> \in (1 .. n) \X Seq(E) OBVIOUS
    <3>2. QED BY <3>1
  <2>3. <<>> \in Seq(E) OBVIOUS
  <2> DEFINE T == Seq(E)
             b == <<>>
  <2> HIDE DEF g, IsWalk, walk
  <2>4. PICK f : Recursion(f, T, n, b, g)
    <3>1. b \in T /\ g \in [(1 .. n) \X T -> T] BY <2>1, <2>3
    <3> HIDE DEF T, b
    <3>2. QED BY <3>1, PrimitiveRecursion
  <2>5. ASSUME NEW i \in 1 .. n PROVE f[i] = f[i - 1] \o parts[i]
    <3>1. i - 1 \in 0 .. n OBVIOUS
    <3>2. f[i - 1] \in Seq(E) BY <3>1, <2>4 DEF Recursion
    <3>3. QED BY <2>2, <2>4, <3>2 DEF Recursion
  <2>6. ASSUME NEW i \in 0 .. n PROVE f[i] = IF i = 0 THEN <<>> ELSE f[i - 1] \o parts[i]
    <3>1. CASE i = 0 BY <2>4, <3>1 DEF Recursion
    <3>2. CASE i # 0
      <4>1. i \in 1 .. n BY <3>2
      <4>2. QED BY <2>5, <4>1, <3>2
    <3>3. QED BY <3>1, <3>2
  <2>7. IsWalk(f) BY <2>4, <2>6 DEF IsWalk, Recursion
  <2>8. QED BY <2>7
<1>2. IsWalk(walk)
  <2> HIDE DEF IsWalk
  <2>1. QED BY <1>1
<1>3. walk = CHOOSE f : f = [i \in 0 .. n |-> IF i = 0 THEN <<>> ELSE f[i - 1] \o parts[i]]
  BY DEF walk
<1> HIDE DEF walk
<1>4. ASSUME NEW i \in 0 .. n PROVE walk[i] = IF i = 0 THEN <<>> ELSE walk[i - 1] \o parts[i]
  BY <1>2, Zenon
<1>5. walk = [i \in 0 .. n |-> walk[i]]
  BY <1>2
<1> HIDE DEF IsWalk
<1>6. walk[0] = <<>> /\ \A i \in 1 .. n : walk[i] = walk[i - 1] \o parts[i]
  <2>1. 0 \in 0 .. n /\ \A i \in 1 .. n : i \in 0 .. n /\ i # 0
    OBVIOUS
  <2>2. walk[0] = <<>>
    BY <2>1, <1>4
  <2>3. ASSUME NEW i \in 1 .. n PROVE walk[i] = walk[i - 1] \o parts[i]
    BY <2>1, <1>4, Zenon
  <2>4. QED BY <2>2, <2>3
<1> DEFINE S == {i \in 0 .. n : walk[i] \in Seq(E)}
<1>7. 0 \in S
  <2>1. 0 \in 0 .. n OBVIOUS
  <2>2. <<>> \in Seq(E) OBVIOUS
  <2>3. walk[0] \in Seq(E) BY <2>2, <1>6, Zenon
  <2>4. QED BY <2>1, <2>3, Zenon
<1>8. ASSUME NEW i \in 1 .. n, i - 1 \in S PROVE i \in S
  <2>1. walk[i - 1] \in Seq(E) /\ parts[i] \in Seq(E) BY <1>8
  <2>2. walk[i - 1] \o parts[i] \in Seq(E) BY <2>1, ConcatProperties
  <2>3. walk[i] \in Seq(E) BY <2>2, <1>6, Zenon
  <2>4. i \in 0 .. n OBVIOUS
  <2>5. QED BY <2>3, <2>4, Zenon
<1> HIDE DEF S
<1>9. 0 .. n \subseteq S
  BY <1>7, <1>8, UpTo
<1>10. walk \in [0 .. n -> Seq(E)]
  BY <1>5, <1>9 DEF S
<1>11. QED BY <1>3, <1>6, <1>10 DEF Joining

\* Joined, they are made of what is in them, and of all of it; and what holds of
\* any two elements of one of them or of two, the earlier first, still holds.
LEMMA JoiningContents ==
    ASSUME NEW E, NEW n \in Nat, NEW parts \in [1 .. n -> Seq(E)], NEW walk, Joining(walk, E, parts, n), NEW R,
           \A i \in 1 .. n : \A a, b \in DOMAIN parts[i] : a < b => <<parts[i][a], parts[i][b]>> \in R,
           \A i, j \in 1 .. n : i < j =>
               \A a \in DOMAIN parts[i], b \in DOMAIN parts[j] : <<parts[i][a], parts[j][b]>> \in R
    PROVE  /\ walk[n] \in Seq(E)
           /\ \A k \in DOMAIN walk[n] : \E i \in 1 .. n : \E a \in DOMAIN parts[i] : walk[n][k] = parts[i][a]
           /\ \A i \in 1 .. n : \A a \in DOMAIN parts[i] : \E k \in DOMAIN walk[n] : walk[n][k] = parts[i][a]
           /\ \A k, l \in DOMAIN walk[n] : k < l => <<walk[n][k], walk[n][l]>> \in R
<1>1. walk \in [0 .. n -> Seq(E)] /\ walk[0] = <<>> /\ \A i \in 1 .. n : walk[i] = walk[i - 1] \o parts[i]
  BY DEF Joining
<1> DEFINE Good(m) ==
             /\ \A k \in DOMAIN walk[m] : \E i \in 1 .. m : \E a \in DOMAIN parts[i] : walk[m][k] = parts[i][a]
             /\ \A i \in 1 .. m : \A a \in DOMAIN parts[i] : \E k \in DOMAIN walk[m] : walk[m][k] = parts[i][a]
             /\ \A k, l \in DOMAIN walk[m] : k < l => <<walk[m][k], walk[m][l]>> \in R
           S == {m \in 0 .. n : Good(m)}
<1>2. 0 \in S
  BY <1>1
<1>3. ASSUME NEW m \in 1 .. n, Good(m - 1) PROVE Good(m)
  <2>1. m - 1 \in 0 .. n /\ 1 .. m = 1 .. (m - 1) \cup {m} /\ \A i \in 1 .. (m - 1) : i \in 1 .. n /\ i < m
    OBVIOUS
  <2>2. PICK s, t : s = walk[m - 1] /\ t = walk[m]
    OBVIOUS
  <2>3. s \in Seq(E) /\ parts[m] \in Seq(E) /\ t = s \o parts[m]
    BY <1>1, <2>1, <2>2
  <2>4. PICK p, q \in Nat : p = Len(s) /\ q = Len(parts[m])
    BY <2>3
  <2>5. DOMAIN s = 1 .. p /\ DOMAIN parts[m] = 1 .. q
    BY <2>3, <2>4
  <2>6. DOMAIN t = 1 .. p + q /\ \A k \in 1 .. p + q : t[k] = IF k <= p THEN s[k] ELSE parts[m][k - p]
    BY <2>3, <2>4
  <2>7. \A k \in 1 .. p + q : k \in 1 .. p \/ (k \notin 1 .. p /\ ~(k <= p) /\ k - p \in 1 .. q /\ k = p + (k - p))
    BY <2>4
  <2>8. ASSUME NEW k \in DOMAIN t
        PROVE  \/ k \in DOMAIN s /\ t[k] = s[k]
               \/ ~(k <= p) /\ k - p \in DOMAIN parts[m] /\ t[k] = parts[m][k - p]
    BY <2>4, <2>5, <2>6, <2>7
  <2>9. ASSUME NEW a \in DOMAIN parts[m] PROVE p + a \in DOMAIN t /\ t[p + a] = parts[m][a]
    <3>1. p + a \in 1 .. p + q /\ ~(p + a <= p) /\ (p + a) - p = a BY <2>4, <2>5
    <3>2. QED BY <3>1, <2>6
  <2>10. ASSUME NEW k \in DOMAIN s PROVE k \in DOMAIN t /\ t[k] = s[k]
    BY <2>4, <2>5, <2>6
  <2>11. \A k \in DOMAIN t : \E i \in 1 .. m : \E a \in DOMAIN parts[i] : t[k] = parts[i][a]
    BY <1>3, <2>1, <2>2, <2>8
  <2>12. \A i \in 1 .. m : \A a \in DOMAIN parts[i] : \E k \in DOMAIN t : t[k] = parts[i][a]
    BY <1>3, <2>1, <2>2, <2>9, <2>10
  <2>13. ASSUME NEW k \in DOMAIN t, NEW l \in DOMAIN t, k < l PROVE <<t[k], t[l]>> \in R
    <3>0. k \in Nat /\ l \in Nat BY <2>6
    <3>1. CASE k \in DOMAIN s /\ l \in DOMAIN s
      BY <1>3, <2>2, <2>10, <2>13, <3>1
    <3>2. CASE k \in DOMAIN s /\ l \notin DOMAIN s
      <4>1. t[k] = s[k] /\ l - p \in DOMAIN parts[m] /\ t[l] = parts[m][l - p]
        BY <2>8, <2>10, <3>2
      <4>2. PICK i \in 1 .. (m - 1) : \E a \in DOMAIN parts[i] : s[k] = parts[i][a]
        BY <1>3, <2>2, <3>2
      <4>3. i \in 1 .. n /\ i < m BY <2>1
      <4>4. QED BY <4>1, <4>2, <4>3
    <3>3. CASE k \notin DOMAIN s /\ l \notin DOMAIN s
      <4>1. /\ k - p \in DOMAIN parts[m] /\ t[k] = parts[m][k - p]
            /\ l - p \in DOMAIN parts[m] /\ t[l] = parts[m][l - p]
        BY <2>8, <3>3
      <4>2. k - p < l - p BY <2>4, <2>13, <3>0
      <4>3. QED BY <4>1, <4>2
    <3>4. CASE k \notin DOMAIN s /\ l \in DOMAIN s
      BY <2>4, <2>5, <2>8, <2>13, <3>0, <3>4
    <3>5. QED BY <3>1, <3>2, <3>3, <3>4
  <2>14. QED BY <2>2, <2>11, <2>12, <2>13
<1>4. ASSUME NEW m \in 1 .. n, m - 1 \in S PROVE m \in S
  <2> HIDE DEF Good
  <2>1. QED BY <1>3, <1>4
<1> HIDE DEF S
<1>5. 0 .. n \subseteq S
  BY <1>2, <1>4, UpTo
<1>6. Good(n)
  BY <1>5 DEF S
<1>7. QED BY <1>1, <1>6

-----------------------------------------------------------------------------
(* FoldLeft of the community modules, one step at a time.                  *)

\* The greatest number of an interval, and the interval without it.
LEMMA TopOfInterval ==
    ASSUME NEW n \in Nat \ {0}
    PROVE  Max(1 .. n) = n /\ (1 .. n) \ {n} = 1 .. n - 1 /\ 1 .. n # {}
<1>1. n \in 1 .. n /\ \A y \in 1 .. n : n >= y
  OBVIOUS
<1>2. ASSUME NEW x \in 1 .. n, \A y \in 1 .. n : x >= y PROVE x = n
  BY <1>1, <1>2
<1>3. Max(1 .. n) = n
  BY <1>1, <1>2 DEF Max
<1>4. QED BY <1>1, <1>3

\* A non-empty part of an interval has a greatest member.
LEMMA GreatestElement ==
    ASSUME NEW n \in Nat, NEW S \in SUBSET (1 .. n), S # {}
    PROVE  \E x \in S : \A y \in S : y <= x
<1> DEFINE B == {n - x : x \in S}
<1>1. B \subseteq Nat /\ B # {}
  <2>1. ASSUME NEW x \in S PROVE n - x \in Nat
    <3>1. x \in 1 .. n OBVIOUS
    <3>2. QED BY <3>1
  <2>2. QED BY <2>1
<1>2. PICK m \in B : \A y \in B : m <= y
  <2> HIDE DEF B
  <2>1. QED BY <1>1, LeastElement
<1>3. PICK x \in S : m = n - x
  BY <1>2
<1>4. \A y \in S : y <= x
  <2>1. ASSUME NEW y \in S PROVE y <= x
    <3>1. n - y \in B OBVIOUS
    <3>2. m <= n - y BY <3>1, <1>2
    <3>3. n \in Nat /\ x \in Nat /\ y \in Nat OBVIOUS
    <3>4. QED BY <3>2, <3>3, <1>3
  <2>2. QED BY <2>1
<1>5. QED BY <1>4

\* It is what is taken off first.
LEMMA TopOfPart ==
    ASSUME NEW n \in Nat, NEW S \in SUBSET (1 .. n), S # {}
    PROVE  /\ Max(S) \in S
           /\ \A k \in Nat : S \subseteq 1 .. k => k > 0 /\ S \ {Max(S)} \subseteq 1 .. k - 1
<1>1. PICK x \in S : \A y \in S : x >= y
  <2>1. \A y \in S : y \in Nat OBVIOUS
  <2>2. QED BY <2>1, GreatestElement
<1>2. Max(S) \in S /\ \A y \in S : Max(S) >= y
  BY <1>1 DEF Max
<1>3. ASSUME NEW k \in Nat, S \subseteq 1 .. k
      PROVE  k > 0 /\ S \ {Max(S)} \subseteq 1 .. k - 1
  <2> DEFINE top == Max(S)
  <2>1. top \in S /\ \A y \in S : top >= y BY <1>2
  <2> HIDE DEF top
  <2>2. top \in 1 .. k BY <2>1, <1>3
  <2>3. ASSUME NEW y \in S \ {top} PROVE y \in 1 .. k - 1
    <3>1. y \in 1 .. k /\ top >= y /\ y # top BY <2>1, <1>3
    <3>2. QED BY <3>1, <2>2
  <2>4. S \ {top} \subseteq 1 .. k - 1 BY <2>3
  <2>5. QED BY <2>2, <2>4 DEF top
<1>4. QED BY <1>2, <1>3

\* A function on the parts of 1 .. n that takes off their greatest member.
Peels(iter, T, n, b, g) ==
    /\ iter \in [SUBSET (1 .. n) -> T]
    /\ \A S \in SUBSET (1 .. n) :
          iter[S] = IF S = {} THEN b ELSE g[<<iter[S \ {Max(S)}], Max(S)>>]

\* There is one.
LEMMA PeelingExists ==
    ASSUME NEW T, NEW n \in Nat, NEW b \in T, NEW g \in [T \X (1 .. n) -> T]
    PROVE  \E iter : Peels(iter, T, n, b, g)
<1> DEFINE P == SUBSET (1 .. n)
           F == [P -> T]
           start == [S \in P |-> b]
           Onto(f) == [S \in P |-> IF S = {} THEN b ELSE g[<<f[S \ {Max(S)}], Max(S)>>]]
           step == [x \in (1 .. n) \X F |-> Onto(x[2])]
<1>1. ASSUME NEW f \in F PROVE Onto(f) \in F
  <2>1. ASSUME NEW S \in P, S # {} PROVE g[<<f[S \ {Max(S)}], Max(S)>>] \in T
    <3>1. Max(S) \in 1 .. n BY <2>1, TopOfPart
    <3>2. S \ {Max(S)} \in P OBVIOUS
    <3>3. QED BY <3>1, <3>2
  <2>2. QED BY <2>1
<1>2. step \in [(1 .. n) \X F -> F]
  <2> HIDE DEF Onto, F
  <2>1. \A x \in (1 .. n) \X F : Onto(x[2]) \in F BY <1>1
  <2>2. QED BY <2>1
<1>3. start \in F
  OBVIOUS
<1>4. ASSUME NEW i \in 1 .. n, NEW f \in F PROVE step[<<i, f>>] = Onto(f)
  OBVIOUS
<1>5. PICK h : Recursion(h, F, n, start, step)
  <2> HIDE DEF F, start, step
  <2>1. QED BY <1>2, <1>3, PrimitiveRecursion
<1>6. /\ \A i \in 0 .. n : h[i] \in F
      /\ h[0] = start
      /\ \A i \in 1 .. n : h[i] = Onto(h[i - 1])
  <2> HIDE DEF F, start, step, Onto
  <2>1. ASSUME NEW i \in 1 .. n PROVE h[i] = Onto(h[i - 1])
    <3>1. i - 1 \in 0 .. n OBVIOUS
    <3>2. h[i - 1] \in F BY <3>1, <1>5 DEF Recursion
    <3>3. h[i] = step[<<i, h[i - 1]>>] BY <1>5 DEF Recursion
    <3>4. QED BY <3>2, <3>3, <1>4
  <2>2. QED BY <2>1, <1>5 DEF Recursion
<1>7. ASSUME NEW i \in 1 .. n, NEW S \in P
      PROVE  h[i][S] = IF S = {} THEN b ELSE g[<<h[i - 1][S \ {Max(S)}], Max(S)>>]
  <2>1. h[i] = Onto(h[i - 1]) BY <1>6
  <2>2. QED BY ONLY <2>1, S \in P
<1>8. ASSUME NEW S \in P PROVE h[0][S] = b
  <2>1. h[0] = start BY <1>6
  <2>2. QED BY ONLY <2>1, S \in P
<1> HIDE DEF F, start, step, Onto
\* A part of 1 .. k has its value from the k-th function on.
<1> DEFINE Settled == {k \in 0 .. n : \A S \in P : \A j \in k .. n :
                                        S \subseteq 1 .. k => h[j][S] = h[k][S]}
<1>9. 0 \in Settled
  <2>1. ASSUME NEW S \in P, NEW j \in 0 .. n, S \subseteq 1 .. 0 PROVE h[j][S] = h[0][S]
    <3>1. S = {} BY <2>1
    <3>2. CASE j = 0 BY <3>2
    <3>3. CASE j \in 1 .. n BY <3>1, <3>3, <1>7, <1>8
    <3>4. QED BY <3>2, <3>3
  <2>2. QED BY <2>1
<1>10. ASSUME NEW k \in 1 .. n, k - 1 \in Settled PROVE k \in Settled
  <2>1. ASSUME NEW S \in P, NEW j \in k .. n, S \subseteq 1 .. k PROVE h[j][S] = h[k][S]
    <3>1. j \in 1 .. n /\ j - 1 \in (k - 1) .. n /\ k - 1 \in 0 .. n /\ k \in Nat OBVIOUS
    <3>2. CASE S = {} BY <3>1, <3>2, <1>7
    <3>3. CASE S # {}
      <4> DEFINE R == S \ {Max(S)}
      <4>1. R \subseteq 1 .. k - 1 /\ R \in P BY <2>1, <3>1, <3>3, TopOfPart
      <4> HIDE DEF R
      <4>2. h[j - 1][R] = h[k - 1][R] BY <4>1, <3>1, <1>10
      <4>3. h[j][S] = g[<<h[j - 1][R], Max(S)>>] /\ h[k][S] = g[<<h[k - 1][R], Max(S)>>]
        BY <3>1, <3>3, <1>7 DEF R
      <4>4. QED BY <4>2, <4>3
    <3>4. QED BY <3>2, <3>3
  <2>2. k \in 0 .. n OBVIOUS
  <2>3. QED BY <2>1, <2>2
<1>11. 0 .. n \subseteq Settled
  <2> HIDE DEF Settled
  <2>1. QED BY <1>9, <1>10, UpTo
<1>12. ASSUME NEW S \in P
       PROVE  h[n][S] = IF S = {} THEN b ELSE g[<<h[n][S \ {Max(S)}], Max(S)>>]
  <2>1. CASE n = 0
    <3>1. S = {} BY <2>1
    <3>2. QED BY <3>1, <2>1, <1>8
  <2>2. CASE n # 0
    <3>1. n \in 1 .. n /\ n - 1 \in 0 .. n /\ n \in (n - 1) .. n BY <2>2
    <3>2. CASE S = {} BY <3>1, <3>2, <1>7
    <3>3. CASE S # {}
      <4> DEFINE R == S \ {Max(S)}
      <4>1. R \subseteq 1 .. n - 1 /\ R \in P BY <3>3, TopOfPart
      <4> HIDE DEF R
      <4>2. n - 1 \in Settled BY <3>1, <1>11
      <4>3. h[n][R] = h[n - 1][R] BY <4>1, <4>2, <3>1
      <4>4. h[n][S] = g[<<h[n - 1][R], Max(S)>>] BY <3>1, <3>3, <1>7 DEF R
      <4>5. QED BY <4>3, <4>4, <3>3 DEF R
    <3>4. QED BY <3>2, <3>3
  <2>3. QED BY <2>1, <2>2
<1>13. h[n] \in [SUBSET (1 .. n) -> T]
  <2>1. n \in 0 .. n OBVIOUS
  <2>2. h[n] \in F BY <1>6, <2>1
  <2>3. QED BY <2>2 DEF F
<1>14. Peels(h[n], T, n, b, g)
  BY <1>12, <1>13 DEF Peels
<1>15. QED BY <1>14

\* The values it has on the intervals 1 .. i, one step at a time.
LEMMA PeelingSteps ==
    ASSUME NEW T, NEW n \in Nat, NEW b, NEW g, NEW iter, Peels(iter, T, n, b, g)
    PROVE  /\ \A i \in 0 .. n : iter[1 .. i] \in T
           /\ iter[1 .. 0] = b
           /\ \A i \in 1 .. n : iter[1 .. i] = g[<<iter[1 .. i - 1], i>>]
<1>1. ASSUME NEW i \in 0 .. n PROVE 1 .. i \in SUBSET (1 .. n)
  OBVIOUS
<1>2. ASSUME NEW i \in 1 .. n PROVE iter[1 .. i] = g[<<iter[1 .. i - 1], i>>]
  <2>1. i \in Nat \ {0} OBVIOUS
  <2>2. Max(1 .. i) = i /\ (1 .. i) \ {i} = 1 .. i - 1 /\ 1 .. i # {} BY <2>1, TopOfInterval
  <2>3. 1 .. i \in SUBSET (1 .. n) OBVIOUS
  <2>4. iter[1 .. i] = g[<<iter[(1 .. i) \ {Max(1 .. i)}], Max(1 .. i)>>]
    BY <2>2, <2>3 DEF Peels
  <2>5. QED BY <2>2, <2>4
<1>3. iter[1 .. 0] = b
  <2>1. 1 .. 0 = {} OBVIOUS
  <2>2. QED BY <2>1 DEF Peels
<1>4. ASSUME NEW i \in 0 .. n PROVE iter[1 .. i] \in T
  BY <1>1 DEF Peels
<1>5. QED BY <1>2, <1>3, <1>4

\* The results of a fold over s, one for each of its prefixes.
Results(after, T, s, b, g) ==
    /\ after \in [0 .. Len(s) -> T]
    /\ after[0] = b
    /\ \A i \in 1 .. Len(s) : after[i] = g[<<after[i - 1], s[i]>>]

\* There is one such function only.
LEMMA ResultsUnique ==
    ASSUME NEW T, NEW E, NEW s \in Seq(E), NEW b, NEW g, NEW a, NEW c,
           Results(a, T, s, b, g), Results(c, T, s, b, g)
    PROVE  a[Len(s)] = c[Len(s)]
<1> DEFINE Same == {i \in 0 .. Len(s) : a[i] = c[i]}
<1>1. 0 \in Same
  BY DEF Results
<1>2. ASSUME NEW i \in 1 .. Len(s), i - 1 \in Same PROVE i \in Same
  <2>1. a[i] = g[<<a[i - 1], s[i]>>] /\ c[i] = g[<<c[i - 1], s[i]>>] BY DEF Results
  <2>2. QED BY <2>1, <1>2
<1>3. 0 .. Len(s) \subseteq Same
  <2>1. Len(s) \in Nat OBVIOUS
  <2> HIDE DEF Same
  <2>2. QED BY <2>1, <1>1, <1>2, UpTo
<1>4. QED BY <1>3

\* To fold over two sequences one after the other is to fold over both.
LEMMA ResultsConcat ==
    ASSUME NEW T, NEW E, NEW s \in Seq(E), NEW t \in Seq(E), NEW b, NEW g, NEW a, NEW c, NEW e,
           Results(a, T, s, b, g), Results(c, T, t, a[Len(s)], g), Results(e, T, s \o t, b, g)
    PROVE  e[Len(s \o t)] = c[Len(t)]
<1> DEFINE m == Len(s)
           n == Len(t)
           Same == {i \in 0 .. m : e[i] = a[i]}
           Rest == {i \in 0 .. n : e[m + i] = c[i]}
<1>1. /\ m \in Nat /\ n \in Nat /\ Len(s \o t) = m + n
      /\ \A i \in 1 .. m : (s \o t)[i] = s[i]
      /\ \A i \in 1 .. n : (s \o t)[m + i] = t[i]
  OBVIOUS
<1>2. /\ e[0] = a[0] /\ c[0] = a[m]
      /\ \A i \in 1 .. m : a[i] = g[<<a[i - 1], s[i]>>]
      /\ \A i \in 1 .. n : c[i] = g[<<c[i - 1], t[i]>>]
      /\ \A i \in 1 .. m + n : e[i] = g[<<e[i - 1], (s \o t)[i]>>]
  BY <1>1 DEF Results
<1> HIDE DEF m, n
<1>3. 0 .. m \subseteq Same
  <2>1. 0 \in Same BY <1>1, <1>2
  <2>2. ASSUME NEW i \in 1 .. m, i - 1 \in Same PROVE i \in Same
    <3>1. i \in 1 .. m + n /\ i \in 0 .. m BY <1>1
    <3>2. e[i] = g[<<e[i - 1], s[i]>>] BY <3>1, <1>1, <1>2
    <3>3. e[i - 1] = a[i - 1] BY <2>2
    <3>4. a[i] = g[<<a[i - 1], s[i]>>] BY <1>2
    <3>5. e[i] = a[i] BY <3>2, <3>3, <3>4
    <3>6. QED BY <3>1, <3>5
  <2> HIDE DEF Same
  <2>3. QED BY <2>1, <2>2, <1>1, UpTo
<1>4. 0 .. n \subseteq Rest
  <2>1. 0 \in Rest BY <1>1, <1>2, <1>3
  <2>2. ASSUME NEW i \in 1 .. n, i - 1 \in Rest PROVE i \in Rest
    <3>1. m + i \in 1 .. m + n /\ (m + i) - 1 = m + (i - 1) /\ i \in 0 .. n BY <1>1
    <3>2. e[m + i] = g[<<e[(m + i) - 1], (s \o t)[m + i]>>] BY <3>1, <1>2
    <3>3. e[m + (i - 1)] = c[i - 1] BY <2>2
    <3>4. c[i] = g[<<c[i - 1], t[i]>>] BY <1>2
    <3>5. e[m + i] = g[<<c[i - 1], t[i]>>] BY <3>1, <3>2, <3>3, <1>1
    <3>6. e[m + i] = c[i] BY <3>4, <3>5
    <3>7. QED BY <3>1, <3>6
  <2> HIDE DEF Rest
  <2>3. QED BY <2>1, <2>2, <1>1, UpTo
<1>5. n \in Rest
  BY <1>1, <1>4
<1>6. QED BY <1>1, <1>5 DEF m, n

\* A step of a fold as a function of the value so far and the next element.
StepOn(g, T, E) == g \in [T \X E -> T]

\* What FoldLeft over s unfolds to.
Unfolds(f, T, E, s, b, g) ==
    /\ f[{}] = b
    /\ \A S \in SUBSET DOMAIN s :
          S # {} /\ f[S \ {Max(S)}] \in T /\ s[Max(S)] \in E
             => f[S] = g[<<f[S \ {Max(S)}], s[Max(S)]>>]

\* A peeling of s whose values are in T.
Typed(f, T, E, s) ==
    /\ f \in [SUBSET DOMAIN s -> T]
    /\ \A S \in (SUBSET DOMAIN s) \ {{}} : f[S \ {Max(S)}] \in T /\ s[Max(S)] \in E

\* There is such a function, with values in T.
LEMMA FoldExists ==
    ASSUME NEW T, NEW E, NEW s \in Seq(E), NEW b \in T, NEW g, StepOn(g, T, E)
    PROVE  \E f : Unfolds(f, T, E, s, b, g) /\ Typed(f, T, E, s)
<1> DEFINE n == Len(s)
           h == [x \in T \X (1 .. n) |-> g[<<x[1], s[x[2]]>>]]
<1>1. n \in Nat /\ DOMAIN s = 1 .. n /\ \A i \in 1 .. n : s[i] \in E
  OBVIOUS
<1> HIDE DEF n
<1>2. h \in [T \X (1 .. n) -> T]
  <2>1. ASSUME NEW x \in T \X (1 .. n) PROVE g[<<x[1], s[x[2]]>>] \in T
    <3>1. x[1] \in T /\ s[x[2]] \in E BY <1>1
    <3>2. QED BY <3>1 DEF StepOn
  <2>2. QED BY <2>1
<1>3. ASSUME NEW v \in T, NEW i \in 1 .. n PROVE h[<<v, i>>] = g[<<v, s[i]>>]
  OBVIOUS
<1>4. PICK f : Peels(f, T, n, b, h)
  <2> HIDE DEF h
  <2>1. QED BY <1>1, <1>2, PeelingExists
<1> HIDE DEF h
<1>5. ASSUME NEW S \in SUBSET (1 .. n), S # {}
      PROVE  /\ f[S \ {Max(S)}] \in T /\ s[Max(S)] \in E
             /\ f[S] = g[<<f[S \ {Max(S)}], s[Max(S)]>>]
  <2>1. Max(S) \in 1 .. n BY <1>1, <1>5, TopOfPart
  <2>2. S \ {Max(S)} \in SUBSET (1 .. n) OBVIOUS
  <2>3. f[S \ {Max(S)}] \in T BY <2>2, <1>4 DEF Peels
  <2>4. f[S] = h[<<f[S \ {Max(S)}], Max(S)>>] BY <1>4, <1>5 DEF Peels
  <2>5. QED BY <2>1, <2>3, <2>4, <1>1, <1>3
<1>6. f \in [SUBSET (1 .. n) -> T] /\ f[{}] = b
  BY <1>4 DEF Peels
<1>7. Unfolds(f, T, E, s, b, g)
  BY <1>1, <1>5, <1>6 DEF Unfolds
<1>8. f \in [SUBSET DOMAIN s -> T]
  BY <1>1, <1>6
<1>9. \A S \in (SUBSET DOMAIN s) \ {{}} : f[S \ {Max(S)}] \in T /\ s[Max(S)] \in E
  BY <1>1, <1>5
<1>10. QED BY <1>7, <1>8, <1>9 DEF Typed

\* Any such peeling has the results of the fold on its intervals.
LEMMA FoldSteps ==
    ASSUME NEW T, NEW E, NEW s \in Seq(E), NEW b \in T, NEW g, StepOn(g, T, E), NEW f,
           Unfolds(f, T, E, s, b, g)
    PROVE  \E a : Results(a, T, s, b, g) /\ f[DOMAIN s] = a[Len(s)]
<1> USE DEF Unfolds, StepOn
<1> DEFINE n == Len(s)
           a == [i \in 0 .. n |-> f[1 .. i]]
           Values == {i \in 0 .. n : f[1 .. i] \in T}
<1>1. n \in Nat /\ DOMAIN s = 1 .. n /\ \A i \in 1 .. n : s[i] \in E
  OBVIOUS
<1> HIDE DEF n
<1>2. f[1 .. 0] = b
  <2>1. 1 .. 0 = {} OBVIOUS
  <2>2. QED BY <2>1
<1>3. ASSUME NEW i \in 1 .. n, f[1 .. i - 1] \in T
      PROVE  f[1 .. i] = g[<<f[1 .. i - 1], s[i]>>]
  <2>1. i \in Nat \ {0} BY <1>1
  <2>2. Max(1 .. i) = i /\ (1 .. i) \ {i} = 1 .. i - 1 /\ 1 .. i # {} BY <2>1, TopOfInterval
  <2>3. 1 .. i \in SUBSET (1 .. n) BY <1>1
  <2>4. QED BY <2>2, <2>3, <1>1, <1>3
<1>4. 0 .. n \subseteq Values
  <2>1. 0 \in Values BY <1>1, <1>2
  <2>2. ASSUME NEW i \in 1 .. n, i - 1 \in Values PROVE i \in Values
    <3>1. f[1 .. i - 1] \in T BY <2>2
    <3>2. f[1 .. i] = g[<<f[1 .. i - 1], s[i]>>] BY <3>1, <1>3
    <3>3. s[i] \in E BY <1>1
    <3>4. f[1 .. i] \in T BY <3>1, <3>2, <3>3
    <3>5. QED BY <3>4
  <2> HIDE DEF Values
  <2>3. QED BY <2>1, <2>2, <1>1, UpTo
<1>5. \A i \in 0 .. n : a[i] = f[1 .. i] /\ a[i] \in T
  BY <1>4
<1>6. ASSUME NEW i \in 1 .. n PROVE a[i] = g[<<a[i - 1], s[i]>>]
  <2>1. i \in 0 .. n /\ i - 1 \in 0 .. n BY <1>1
  <2>2. f[1 .. i - 1] \in T /\ a[i - 1] = f[1 .. i - 1] BY <2>1, <1>5
  <2>3. QED BY <2>1, <2>2, <1>3
<1>7. 0 \in 0 .. n /\ n \in 0 .. n
  BY <1>1
<1>8. a \in [0 .. n -> T] /\ a[0] = b
  BY <1>2, <1>5, <1>7
<1>9. a[n] = f[DOMAIN s]
  BY <1>1, <1>7
<1> HIDE DEF a
<1>10. Results(a, T, s, b, g)
  BY <1>6, <1>8 DEF Results, n
<1>11. QED BY <1>9, <1>10 DEF n

-----------------------------------------------------------------------------
(* SetToSeq and FlattenSeq of the community modules.                       *)

\* SetToSeq lists a finite set.
LEMMA SetToSeqType ==
    ASSUME NEW S, IsFiniteSet(S)
    PROVE  SetToSeq(S) \in [1 .. Cardinality(S) -> S] /\ Cardinality(S) \in Nat
<1>1. Cardinality(S) \in Nat /\ ExistsBijection(1 .. Cardinality(S), S)
  BY FS_CardinalityType
<1>2. PICK f \in Bijection(1 .. Cardinality(S), S) : TRUE
  BY <1>1 DEF ExistsBijection
<1>3. f \in [1 .. Cardinality(S) -> S] /\ IsInjective(f)
  BY <1>2 DEF Bijection, Injection
<1>4. \E h \in [1 .. Cardinality(S) -> S] : IsInjective(h)
  BY <1>3
<1>5. QED BY <1>1, <1>4 DEF SetToSeq

\* What two sequences contain together.
LEMMA ConcatSet ==
    ASSUME NEW T, NEW a \in Seq(T), NEW b \in Seq(T)
    PROVE  a \o b \in Seq(T) /\ ToSet(a \o b) = ToSet(a) \cup ToSet(b)
<1>1. a \o b \in Seq(T) /\ Len(a) \in Nat /\ Len(b) \in Nat
  OBVIOUS
<1>2. DOMAIN (a \o b) = 1 .. Len(a) + Len(b) /\ DOMAIN a = 1 .. Len(a) /\ DOMAIN b = 1 .. Len(b)
  OBVIOUS
<1>3. \A i \in DOMAIN a : i \in DOMAIN (a \o b) /\ (a \o b)[i] = a[i]
  OBVIOUS
<1>4. ASSUME NEW i \in DOMAIN b PROVE i + Len(a) \in DOMAIN (a \o b) /\ (a \o b)[i + Len(a)] = b[i]
  <2>1. i \in Nat /\ 1 <= i /\ i <= Len(b) /\ i + Len(a) \in 1 .. Len(a) + Len(b)
    BY <1>1, <1>2
  <2>2. QED BY <1>1, <1>2, <2>1
<1>5. \A i \in DOMAIN (a \o b) : i \in DOMAIN a \/ (i - Len(a) \in DOMAIN b /\ (a \o b)[i] = b[i - Len(a)])
  BY <1>1, <1>2
<1>6. ToSet(a \o b) \subseteq ToSet(a) \cup ToSet(b)
  <2>1. ASSUME NEW i \in DOMAIN (a \o b) PROVE (a \o b)[i] \in ToSet(a) \cup ToSet(b)
    <3>1. CASE i \in DOMAIN a BY <1>3, <3>1 DEF ToSet
    <3>2. CASE i \notin DOMAIN a BY <1>5, <3>2 DEF ToSet
    <3>3. QED BY <3>1, <3>2
  <2>2. QED BY <2>1 DEF ToSet
<1>7. ToSet(a) \subseteq ToSet(a \o b)
  <2>1. ASSUME NEW i \in DOMAIN a PROVE a[i] \in ToSet(a \o b)
    BY <1>3 DEF ToSet
  <2>2. QED BY <2>1 DEF ToSet
<1>8. ToSet(b) \subseteq ToSet(a \o b)
  <2>1. ASSUME NEW i \in DOMAIN b PROVE b[i] \in ToSet(a \o b)
    BY <1>4 DEF ToSet
  <2>2. QED BY <2>1 DEF ToSet
<1>9. QED BY <1>1, <1>6, <1>7, <1>8

\* SetToSeq leaves nothing of the set out.
LEMMA SetToSeqAll ==
    ASSUME NEW S, IsFiniteSet(S)
    PROVE  ToSet(SetToSeq(S)) = S
<1> DEFINE n == Cardinality(S)
           f == SetToSeq(S)
<1>1. n \in Nat /\ ExistsBijection(1 .. n, S)
  BY FS_CardinalityType
<1>2. PICK g \in Bijection(1 .. n, S) : TRUE
  BY <1>1 DEF ExistsBijection
<1>3. g \in [1 .. n -> S] /\ IsInjective(g)
  BY <1>2 DEF Bijection, Injection
<1>4. f \in [1 .. n -> S] /\ IsInjective(f)
  BY <1>3 DEF SetToSeq
<1>5. f \in Injection(1 .. n, S)
  BY <1>4 DEF Injection, IsInjective
<1>6. IsFiniteSet(1 .. n) /\ Cardinality(1 .. n) = n
  <2> HIDE DEF n
  <2>1. QED BY <1>1, FS_Interval
<1>7. f \in Surjection(1 .. n, S)
  <2> HIDE DEF f
  <2>1. QED BY <1>5, <1>6, FS_Injection
<1>8. \A x \in S : \E i \in 1 .. n : f[i] = x
  BY <1>7 DEF Surjection
<1> HIDE DEF f, n
<1>9. QED BY <1>4, <1>8 DEF ToSet, f

\* FlattenSeq of sequences is a sequence of what they contain.
LEMMA FlattenSeqType ==
    ASSUME NEW T, NEW s \in Seq(Seq(T))
    PROVE  /\ FlattenSeq(s) \in Seq(T)
           /\ ToSet(FlattenSeq(s)) = UNION {ToSet(s[i]) : i \in DOMAIN s}
<1>1. CASE Len(s) = 0
  <2>1. s = <<>> BY <1>1
  <2>2. FlattenSeq(s) = s BY <1>1 DEF FlattenSeq
  <2>3. <<>> \in Seq(T) OBVIOUS
  <2>4. DOMAIN s = {} /\ DOMAIN FlattenSeq(s) = {} BY <2>1, <2>2
  <2>5. ToSet(FlattenSeq(s)) = {} BY <2>4 DEF ToSet
  <2>6. QED BY <2>1, <2>2, <2>3, <2>4, <2>5
<1>2. CASE Len(s) # 0
  <2> DEFINE N == Len(s)
             g == [x \in (1 .. N) \X Seq(T) |-> IF x[1] = 1 THEN s[1] ELSE x[2] \o s[x[1]]]
             k == CHOOSE h : h = [i \in 1 .. N |-> IF i = 1 THEN s[i] ELSE h[i - 1] \o s[i]]
  <2>1. N \in Nat \ {0} /\ \A i \in 1 .. N : s[i] \in Seq(T)
    BY <1>2
  <2>2. FlattenSeq(s) = k[N]
    BY <1>2 DEF FlattenSeq
  <2> HIDE DEF N
  <2>3. g \in [(1 .. N) \X Seq(T) -> Seq(T)]
    <3>1. ASSUME NEW x \in (1 .. N) \X Seq(T)
          PROVE  (IF x[1] = 1 THEN s[1] ELSE x[2] \o s[x[1]]) \in Seq(T)
      <4>1. x[1] \in 1 .. N /\ x[2] \in Seq(T) /\ s[x[1]] \in Seq(T) BY <2>1
      <4>2. x[2] \o s[x[1]] \in Seq(T) BY <4>1
      <4>3. QED BY <4>1, <4>2
    <3>2. QED BY <3>1
  <2>4. <<>> \in Seq(T) OBVIOUS
  <2>5. PICK f : Recursion(f, Seq(T), N, <<>>, g)
    <3> HIDE DEF g
    <3>1. QED BY <2>1, <2>3, <2>4, PrimitiveRecursion
  <2>6. ASSUME NEW i \in 1 .. N PROVE f[i] = IF i = 1 THEN s[i] ELSE f[i - 1] \o s[i]
    <3>1. f[i - 1] \in Seq(T) BY <2>1, <2>5 DEF Recursion
    <3>2. f[i] = g[<<i, f[i - 1]>>] BY <2>5 DEF Recursion
    <3>3. QED BY <3>1, <3>2
  <2> DEFINE h == [i \in 1 .. N |-> f[i]]
  <2>7. h = [i \in 1 .. N |-> IF i = 1 THEN s[i] ELSE h[i - 1] \o s[i]]
    <3>1. ASSUME NEW i \in 1 .. N PROVE h[i] = IF i = 1 THEN s[i] ELSE h[i - 1] \o s[i]
      <4>1. CASE i = 1 BY <2>6, <4>1
      <4>2. CASE i # 1
        <5>1. i - 1 \in 1 .. N BY <2>1, <4>2
        <5>2. h[i - 1] = f[i - 1] /\ h[i] = f[i] BY <5>1
        <5>3. QED BY <2>6, <4>2, <5>2
      <4>3. QED BY <4>1, <4>2
    <3>2. QED BY <3>1
  <2>8. k = [i \in 1 .. N |-> IF i = 1 THEN s[i] ELSE k[i - 1] \o s[i]]
    <3> HIDE DEF h
    <3>1. \E u : u = [i \in 1 .. N |-> IF i = 1 THEN s[i] ELSE u[i - 1] \o s[i]] BY <2>7
    <3>2. QED BY <3>1
  <2> HIDE DEF k, h, g
  <2>9. \A i \in 1 .. N : k[i] = IF i = 1 THEN s[i] ELSE k[i - 1] \o s[i]
    BY <2>8
  <2> DEFINE Of(i) == UNION {ToSet(s[j]) : j \in 1 .. i}
             Fine == {i \in 0 .. N : i # 0 => k[i] \in Seq(T) /\ ToSet(k[i]) = Of(i)}
  <2>10. 0 \in Fine BY <2>1
  <2>11. ASSUME NEW i \in 1 .. N, i - 1 \in Fine PROVE i \in Fine
    <3>1. s[i] \in Seq(T) BY <2>1
    <3>2. CASE i = 1
      <4>1. 1 .. 1 = {1} OBVIOUS
      <4>2. Of(1) = ToSet(s[1]) BY <4>1
      <4>3. k[i] = s[1] BY <2>9, <3>2
      <4>4. k[i] \in Seq(T) /\ ToSet(k[i]) = Of(i)
        <5> HIDE DEF Of
        <5>1. QED BY <3>1, <3>2, <4>2, <4>3
      <4>5. QED BY <4>4
    <3>3. CASE i # 1
      <4>1. i - 1 \in 1 .. N /\ k[i - 1] \in Seq(T) /\ ToSet(k[i - 1]) = Of(i - 1) BY <2>11, <3>3
      <4>2. k[i - 1] \o s[i] \in Seq(T) /\ ToSet(k[i - 1] \o s[i]) = ToSet(k[i - 1]) \cup ToSet(s[i])
        BY <3>1, <4>1, ConcatSet
      <4>3. k[i] = k[i - 1] \o s[i] BY <2>9, <3>3
      <4>4. 1 .. i = (1 .. i - 1) \cup {i}
        BY <2>1
      <4>5. Of(i) = Of(i - 1) \cup ToSet(s[i])
        BY <4>4
      <4>6. k[i] \in Seq(T) /\ ToSet(k[i]) = Of(i)
        <5> HIDE DEF Of
        <5>1. QED BY <4>1, <4>2, <4>3, <4>5
      <4>7. QED BY <4>6
    <3>4. QED BY <3>2, <3>3
  <2>12. N \in Fine
    <3> HIDE DEF Fine
    <3>1. 0 .. N \subseteq Fine BY <2>1, <2>10, <2>11, UpTo
    <3>2. QED BY <2>1, <3>1
  <2>13. DOMAIN s = 1 .. N BY DEF N
  <2>14. k[N] \in Seq(T) /\ ToSet(k[N]) = Of(N)
    BY <2>1, <2>12
  <2>15. QED BY <2>2, <2>13, <2>14
<1>3. QED BY <1>1, <1>2

\* What the sequences made of a sequence contain.
LEMMA ReverseSet ==
    ASSUME NEW T, NEW s \in Seq(T)
    PROVE  Reverse(s) \in Seq(T) /\ ToSet(Reverse(s)) = ToSet(s)
<1> DEFINE n == Len(s)
           r == Reverse(s)
<1>1. n \in Nat /\ DOMAIN s = 1 .. n /\ \A i \in 1 .. n : s[i] \in T
  OBVIOUS
<1>2. r = [i \in 1 .. n |-> s[(n - i) + 1]]
  BY DEF Reverse
<1> HIDE DEF n, r
<1>3. \A i \in 1 .. n : (n - i) + 1 \in 1 .. n /\ (n - ((n - i) + 1)) + 1 = i
  BY <1>1
<1>4. DOMAIN r = 1 .. n /\ \A i \in 1 .. n : r[i] = s[(n - i) + 1]
  BY <1>2
<1>5. r \in [1 .. n -> T]
  BY <1>1, <1>2, <1>3
<1>6. r \in Seq(T)
  BY <1>1, <1>5
<1>7. ASSUME NEW i \in 1 .. n PROVE s[i] \in ToSet(r)
  <2>1. r[(n - i) + 1] = s[i] /\ (n - i) + 1 \in DOMAIN r BY <1>3, <1>4
  <2>2. QED BY <2>1 DEF ToSet
<1>8. ASSUME NEW i \in 1 .. n PROVE r[i] \in ToSet(s)
  BY <1>1, <1>3, <1>4 DEF ToSet
<1>9. ToSet(r) = ToSet(s)
  BY <1>1, <1>4, <1>7, <1>8 DEF ToSet
<1>10. QED BY <1>6, <1>9 DEF r

\* With one more at the end.
LEMMA AppendSet ==
    ASSUME NEW T, NEW s \in Seq(T), NEW x \in T
    PROVE  Append(s, x) \in Seq(T) /\ ToSet(Append(s, x)) = ToSet(s) \cup {x}
<1>1. Append(s, x) \in Seq(T)
  OBVIOUS
<1>2. /\ DOMAIN Append(s, x) = DOMAIN s \cup {Len(s) + 1}
      /\ Append(s, x)[Len(s) + 1] = x /\ \A i \in DOMAIN s : Append(s, x)[i] = s[i]
  OBVIOUS
<1>3. QED BY <1>1, <1>2 DEF ToSet

\* Without the first.
LEMMA TailSet ==
    ASSUME NEW T, NEW s \in Seq(T), s # <<>>
    PROVE  /\ Head(s) \in T /\ Tail(s) \in Seq(T)
           /\ ToSet(s) \subseteq ToSet(Tail(s)) \cup {Head(s)}
<1>1. Head(s) \in T /\ Tail(s) \in Seq(T)
  OBVIOUS
<1>2. ASSUME NEW i \in DOMAIN s PROVE s[i] \in ToSet(Tail(s)) \cup {Head(s)}
  <2>1. CASE i = 1 BY <2>1
  <2>2. CASE i # 1
    <3>1. i - 1 \in DOMAIN Tail(s) /\ Tail(s)[i - 1] = s[i] BY <2>2
    <3>2. QED BY <3>1 DEF ToSet
  <2>3. QED BY <2>1, <2>2
<1>3. QED BY <1>1, <1>2 DEF ToSet

\* Short sequences made longer.
LEMMA AppendToOne == ASSUME NEW a, NEW b PROVE Append(<<a>>, b) = <<a, b>>
<1> DEFINE T == {a, b}
<1>1. Append(<<a>>, b) \in Seq(T) /\ <<a, b>> \in Seq(T)
  OBVIOUS
<1>2. Len(Append(<<a>>, b)) = 2 /\ Len(<<a, b>>) = 2
  OBVIOUS
<1>3. \A i \in 1 .. 2 : Append(<<a>>, b)[i] = <<a, b>>[i]
  OBVIOUS
<1>4. QED BY <1>1, <1>2, <1>3, SeqEqual

LEMMA AppendToTwo == ASSUME NEW a, NEW b, NEW c PROVE Append(<<a, b>>, c) = <<a, b, c>>
<1> DEFINE T == {a, b, c}
<1>1. Append(<<a, b>>, c) \in Seq(T) /\ <<a, b, c>> \in Seq(T)
  OBVIOUS
<1>2. Len(Append(<<a, b>>, c)) = 3 /\ Len(<<a, b, c>>) = 3
  OBVIOUS
<1>3. \A i \in 1 .. 3 : Append(<<a, b>>, c)[i] = <<a, b, c>>[i]
  OBVIOUS
<1>4. QED BY <1>1, <1>2, <1>3, SeqEqual

\* A sequence is what stands before a place of it and what stands behind.
LEMMA CutAt ==
    ASSUME NEW T, NEW s \in Seq(T), NEW k \in 0 .. Len(s)
    PROVE  /\ SubSeq(s, 1, k) \in Seq(T) /\ SubSeq(s, k + 1, Len(s)) \in Seq(T)
           /\ SubSeq(s, 1, k) \o SubSeq(s, k + 1, Len(s)) = s
<1>1. Len(s) \in Nat /\ 1 \in 1 .. Len(s) + 1 /\ k \in 1 - 1 .. Len(s) /\ Len(s) \in k .. Len(s)
  OBVIOUS
<1>2. SubSeq(s, 1, k) \o SubSeq(s, k + 1, Len(s)) = s
  BY <1>1, ConcatAdjacentSubSeq, SubSeqFull
<1>3. SubSeq(s, 1, k) \in Seq(T) /\ SubSeq(s, k + 1, Len(s)) \in Seq(T)
  BY <1>1
<1>4. QED BY <1>2, <1>3

\* The first of some, and the others.
LEMMA FirstAndRest ==
    ASSUME NEW T, NEW s \in Seq(T), NEW k \in 1 .. Len(s)
    PROVE  /\ Head(s) \in T /\ <<Head(s)>> \in Seq(T) /\ SubSeq(s, 2, k) \in Seq(T)
           /\ SubSeq(s, 1, k) = <<Head(s)>> \o SubSeq(s, 2, k)
<1>1. Len(s) \in Nat /\ 1 \in 1 .. Len(s)  /\ k \in 1 .. Len(s) /\ 1 + 1 = 2 /\ Head(s) = s[1] /\ s[1] \in T
  OBVIOUS
<1>2. SubSeq(s, 1, k) = <<s[1]>> \o SubSeq(s, 1 + 1, k)
  BY <1>1, SubSeqRecursiveFirst
<1>3. SubSeq(s, 2, k) \in Seq(T)
  BY <1>1
<1>4. QED BY <1>1, <1>2, <1>3

LEMMA HeadAndTail ==
    ASSUME NEW T, NEW s \in Seq(T), s # <<>>
    PROVE  /\ Head(s) \in T /\ <<Head(s)>> \in Seq(T) /\ Tail(s) \in Seq(T)
           /\ s = <<Head(s)>> \o Tail(s)
<1>1. Len(s) \in 1 .. Len(s) /\ SubSeq(s, 1, Len(s)) = s
  BY SubSeqFull
<1>2. Tail(s) = SubSeq(s, 2, Len(s))
  BY TailIsSubSeq
<1>3. QED BY <1>1, <1>2, FirstAndRest

\* Where the brackets stand makes no difference.
Associates(a, b, c) == (a \o b) \o c = a \o (b \o c)

LEMMA Associate ==
    ASSUME NEW T, NEW a \in Seq(T), NEW b \in Seq(T), NEW c \in Seq(T)
    PROVE  Associates(a, b, c)
BY ConcatAssociative DEF Associates

=============================================================================
