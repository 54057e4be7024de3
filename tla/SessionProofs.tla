----------------------------- MODULE SessionProofs -----------------------------
(***************************************************************************)
(* The row, the badge, the sheet and the Stop button of a session, in      *)
(* every behaviour of MCSession and for any calls, turns and batches.  The *)
(* two instances of Approvals that MCSession runs are those the invariants *)
(* of ApprovalsProofs are about: "digest" without PostgreSQL, a phone that *)
(* stays and a worker that does not exit; "worker" with everything.        *)
(*                                                                         *)
(* The cards of a session are where its index says, in every behaviour of  *)
(* ChatSession.  The calls a worker has yet to make, those the events on   *)
(* the wire announce and those the index knows are apart, so a live event  *)
(* notes a call once; Goes follows one event through the reducer.  Their   *)
(* bubbles are as many as the texts sent: an echo on the wire, a bubble    *)
(* shown, an echo stored and a text pending balance, text by text.         *)
(*                                                                         *)
(* An image has the number in its payload that the walk over it gives it,  *)
(* so a reference leads back to the image it stands for, in every          *)
(* behaviour of Images.                                                    *)
(***************************************************************************)
EXTENDS MCSession, RecursionLemmas

-----------------------------------------------------------------------------
(* Images: the numbers of the images of a payload.                         *)

Precedes == {xy \in Place \X Place : xy[1][1] < xy[2][1] \/ (xy[1][1] = xy[2][1] /\ xy[1][2] < xy[2][2])}

Reference == [uuid : Uuids, n : Nat]
ShownBlock == InnerBlocks \cup [type : {"image"}, source : {"ref"}, ref : Reference]
SentBlock == ShownBlock \cup [type : {"result"}, inner : Seq(ShownBlock)]
Walkable(p) == p.content \in Seq(SentBlock)

\* The operators of Images are those of the library.
LEMMA SameFilter == ASSUME NEW s, NEW I PROVE Pictures!SubseqAt(s, I) = SubseqAt(s, I)
BY Zenon DEF Pictures!SubseqAt, SubseqAt
LEMMA SameCardinality == ASSUME NEW S PROVE Pictures!Cardinality(S) = Cardinality(S)
BY Zenon DEF Pictures!Cardinality, Cardinality

\* A tool result has a sequence of blocks inside, any other block none.
LEMMA BlockShape ==
    ASSUME NEW p, Walkable(p), NEW i \in DOMAIN p.content
    PROVE  /\ i \in Nat \ {0} /\ p.content[i] \in SentBlock /\ Pictures!inner(p.content[i]) \in Seq(ShownBlock)
           /\ Pictures!isImageBlock(p.content[i]) => Pictures!inner(p.content[i]) = <<>>
<1>1. i \in Nat \ {0} /\ p.content[i] \in SentBlock
  BY DEF Walkable
<1> DEFINE b == p.content[i]
<1>2. b \in SentBlock BY <1>1
<1> HIDE DEF b
<1> DEFINE Good == Pictures!inner(b) \in Seq(ShownBlock) /\ (Pictures!isImageBlock(b) => Pictures!inner(b) = <<>>)
<1>3. ASSUME b \in [type : {"result"}, inner : Seq(ShownBlock)] PROVE Good
  BY <1>3 DEF Pictures!inner, Pictures!isImageBlock
<1>4. ASSUME b \in ShownBlock PROVE Good
  <2>1. b.type # "result" BY <1>4 DEF ShownBlock, InnerBlocks
  <2>2. <<>> \in Seq(ShownBlock) OBVIOUS
  <2>3. QED BY <2>1, <2>2 DEF Pictures!inner
<1>5. Good BY <1>2, <1>3, <1>4 DEF SentBlock
<1>6. QED BY <1>1, <1>5 DEF b

\* Those of a block are in it, all of them, and in their order.
LEMMA OfOneBlock ==
    ASSUME NEW p, Walkable(p), NEW i \in DOMAIN p.content
    PROVE  /\ Pictures!imagesOf(p, i) \in Seq(Place)
           /\ \A k \in DOMAIN Pictures!imagesOf(p, i) :
                 Pictures!imagesOf(p, i)[k] \in Pictures!ImagePlaces(p) /\ Pictures!imagesOf(p, i)[k][1] = i
           /\ \A at \in Pictures!ImagePlaces(p) : at[1] = i => \E k \in DOMAIN Pictures!imagesOf(p, i) : Pictures!imagesOf(p, i)[k] = at
           /\ \A k, l \in DOMAIN Pictures!imagesOf(p, i) : k < l => <<Pictures!imagesOf(p, i)[k], Pictures!imagesOf(p, i)[l]>> \in Precedes
<1> DEFINE b == p.content[i]
           in == Pictures!inner(b)
           at0 == <<i, 0>>
<1>1. /\ i \in Nat \ {0} /\ in \in Seq(ShownBlock)
      /\ Pictures!isImageBlock(b) => in = <<>>
  BY BlockShape
<1>2. \A j \in 0 .. Len(in) : <<i, j>> \in Pictures!Places(p)
  BY DEF Pictures!Places
<1>3. \A at \in Pictures!Places(p) : at[1] = i => at = <<i, at[2]>> /\ at[2] \in 0 .. Len(in)
  BY DEF Pictures!Places
<1>4. /\ Pictures!blockAt(p, <<i, 0>>) = b
      /\ \A j \in DOMAIN in : Pictures!blockAt(p, <<i, j>>) = in[j]
  BY <1>1 DEF Pictures!blockAt
<1>5. DOMAIN in = 1 .. Len(in) /\ Len(in) \in Nat
  BY <1>1
<1>6. CASE Pictures!isImageBlock(b)
  <2>1. Pictures!imagesOf(p, i) = << <<i, 0>> >> BY <1>6 DEF Pictures!imagesOf
  <2>2. Len(in) = 0 BY <1>1, <1>6
  <2> HIDE DEF b, in
  <2>3. <<i, 0>> \in Pictures!ImagePlaces(p)
    BY <1>2, <1>4, <1>6, <2>2 DEF Pictures!ImagePlaces
  <2>4. \A at \in Pictures!ImagePlaces(p) : at[1] = i => at = <<i, 0>>
    BY <1>3, <2>2 DEF Pictures!ImagePlaces
  <2>5. <<i, 0>> \in Place BY <1>1 DEF Place
  <2>6. DOMAIN << <<i, 0>> >> = {1} /\ << <<i, 0>> >>[1] = <<i, 0>> /\ << <<i, 0>> >> \in Seq(Place)
    BY <2>5
  <2>7. \A k, l \in {1} : ~(k < l) OBVIOUS
  <2>8. QED BY <2>1, <2>3, <2>4, <2>6, <2>7
<1>7. CASE ~Pictures!isImageBlock(b)
  <2> DEFINE I == {j \in DOMAIN in : Pictures!isImageBlock(in[j])}
             s == [j \in DOMAIN in |-> <<i, j>>]
  <2>1. Pictures!imagesOf(p, i) = SubseqAt(s, I) BY <1>7, SameFilter, Zenon DEF Pictures!imagesOf
  <2> HIDE DEF b, in
  <2>2. s \in Seq(Place) /\ DOMAIN s = 1 .. Len(in) /\ \A j \in 1 .. Len(in) : s[j] = <<i, j>>
    <3>1. ASSUME NEW j \in 1 .. Len(in) PROVE <<i, j>> \in Place BY <1>1 DEF Place
    <3>2. s = [j \in 1 .. Len(in) |-> <<i, j>>] BY <1>5
    <3> HIDE DEF s
    <3>3. s \in [1 .. Len(in) -> Place] BY <3>1, <3>2
    <3>4. s \in Seq(Place) BY <3>3, <1>5
    <3>5. QED BY <3>2, <3>4
  <2>3. \A j \in I : <<i, j>> \in Pictures!ImagePlaces(p)
    <3>1. ASSUME NEW j \in I PROVE <<i, j>> \in Pictures!ImagePlaces(p)
      <4>1. j \in 0 .. Len(in) BY <1>5
      <4>2. QED BY <4>1, <1>2, <1>4 DEF Pictures!ImagePlaces
    <3>2. QED BY <3>1
  <2>4. \A at \in Pictures!ImagePlaces(p) : at[1] = i => at[2] \in I /\ at = <<i, at[2]>>
    <3>1. ASSUME NEW at \in Pictures!ImagePlaces(p), at[1] = i PROVE at[2] \in I /\ at = <<i, at[2]>>
      <4>1. at = <<i, at[2]>> /\ at[2] \in 0 .. Len(in) /\ Pictures!isImageBlock(Pictures!blockAt(p, at))
        BY <1>3, <3>1 DEF Pictures!ImagePlaces
      <4>2. at[2] # 0 BY <1>4, <1>7, <4>1
      <4>3. at[2] \in DOMAIN in BY <1>5, <4>1, <4>2
      <4>4. QED BY <1>4, <4>1, <4>3
    <3>2. QED BY <3>1
  <2>5. \A k, l \in DOMAIN s : k < l => <<s[k], s[l]>> \in Precedes
    <3>1. ASSUME NEW k \in 1 .. Len(in), NEW l \in 1 .. Len(in), k < l PROVE << <<i, k>>, <<i, l>> >> \in Precedes
      BY <1>1, <3>1 DEF Precedes, Place
    <3>2. QED BY <2>2, <3>1
  <2> DEFINE t == SubseqAt(s, I)
  <2> HIDE DEF s, I
  <2>6. /\ t \in Seq(Place)
        /\ \A k \in DOMAIN t : \E j \in DOMAIN s : j \in I /\ t[k] = s[j]
        /\ \A j \in DOMAIN s : j \in I => \E k \in DOMAIN t : t[k] = s[j]
    <3>1. s \in Seq(Place) BY <2>2
    <3>2. SubseqAt(s, I) \in Seq(Place) BY <3>1, SubseqAtType
    <3>3. \A k \in DOMAIN SubseqAt(s, I) : \E j \in DOMAIN s : j \in I /\ SubseqAt(s, I)[k] = s[j]
      BY <3>1, SubseqAtContents
    <3>4. \A j \in DOMAIN s : j \in I => \E k \in DOMAIN SubseqAt(s, I) : SubseqAt(s, I)[k] = s[j]
      BY <3>1, SubseqAtContents
    <3>5. QED BY <3>2, <3>3, <3>4, Zenon DEF t
  <2>7. \A k, l \in DOMAIN t : k < l => <<t[k], t[l]>> \in Precedes
    BY <2>2, <2>5, SubseqAtOrder
  <2>8. I \subseteq DOMAIN s BY <1>5, <2>2 DEF I
  <2> HIDE DEF t
  <2>9. \A k \in DOMAIN t : t[k] \in Pictures!ImagePlaces(p) /\ t[k][1] = i
    <3>1. \A j \in I : s[j] = <<i, j>> /\ s[j][1] = i BY <1>5, <2>2 DEF I
    <3>2. ASSUME NEW k \in DOMAIN t PROVE t[k] \in Pictures!ImagePlaces(p) /\ t[k][1] = i
      <4>1. PICK j \in I : t[k] = s[j] BY <2>6
      <4>2. QED BY <2>3, <3>1, <4>1
    <3>3. QED BY <3>2
  <2>10. \A at \in Pictures!ImagePlaces(p) : at[1] = i => \E k \in DOMAIN t : t[k] = at
    <3>1. \A j \in I : s[j] = <<i, j>> BY <1>5, <2>2 DEF I
    <3>2. ASSUME NEW at \in Pictures!ImagePlaces(p), at[1] = i PROVE \E k \in DOMAIN t : t[k] = at
      <4>1. at[2] \in I /\ s[at[2]] = at BY <2>4, <3>1, <3>2
      <4>2. at[2] \in DOMAIN s BY <2>8, <4>1
      <4>3. QED BY <2>6, <4>1, <4>2
    <3>3. QED BY <3>2
  <2>11. Pictures!imagesOf(p, i) = t BY <2>1 DEF t
  <2>12. QED BY <2>6, <2>7, <2>9, <2>10, <2>11
<1>8. QED BY <1>6, <1>7

\* The walk meets each image of a payload once, in the order of their places.
LEMMA EachImage ==
    ASSUME NEW p, Walkable(p)
    PROVE  /\ Pictures!eachImage(p) \in Seq(Place)
           /\ \A k \in DOMAIN Pictures!eachImage(p) : Pictures!eachImage(p)[k] \in Pictures!ImagePlaces(p)
           /\ \A at \in Pictures!ImagePlaces(p) :
                 at \in Place /\ \E k \in DOMAIN Pictures!eachImage(p) : Pictures!eachImage(p)[k] = at
           /\ \A k, l \in DOMAIN Pictures!eachImage(p) :
                 k < l => <<Pictures!eachImage(p)[k], Pictures!eachImage(p)[l]>> \in Precedes
<1> DEFINE n == Len(p.content)
           parts == [i \in 1 .. n |-> Pictures!imagesOf(p, i)]
           walk == CHOOSE f : f = [i \in 0 .. n |-> IF i = 0 THEN <<>> ELSE f[i - 1] \o parts[i]]
<1>1. n \in Nat /\ DOMAIN p.content = 1 .. n
  BY DEF Walkable
<1>2. Pictures!eachImage(p) = walk[n]
  <2> DEFINE raw(f) == f = [i \in 0 .. n |-> IF i = 0 THEN <<>> ELSE f[i - 1] \o Pictures!imagesOf(p, i)]
             cooked(f) == f = [i \in 0 .. n |-> IF i = 0 THEN <<>> ELSE f[i - 1] \o parts[i]]
  <2>1. Pictures!eachImage(p) = (CHOOSE f : raw(f))[n]
    BY DEF Pictures!eachImage
  <2>2. ASSUME NEW f PROVE raw(f) <=> cooked(f)
    <3>1. \A i \in 0 .. n : i # 0 => parts[i] = Pictures!imagesOf(p, i) BY <1>1
    <3> HIDE DEF parts
    <3>2. [i \in 0 .. n |-> IF i = 0 THEN <<>> ELSE f[i - 1] \o Pictures!imagesOf(p, i)]
            = [i \in 0 .. n |-> IF i = 0 THEN <<>> ELSE f[i - 1] \o parts[i]]
      BY <3>1
    <3>3. QED BY <3>2
  <2>3. (CHOOSE f : raw(f)) = (CHOOSE f : cooked(f))
    <3> HIDE DEF raw, cooked
    <3>1. QED BY <2>2
  <2>4. QED BY <2>1, <2>3
<1> HIDE DEF walk
<1>3. parts \in [1 .. n -> Seq(Place)] /\ \A i \in 1 .. n : parts[i] = Pictures!imagesOf(p, i)
  BY <1>1, OfOneBlock
<1>4. Joining(walk, Place, parts, n)
  <2> HIDE DEF parts, n
  <2>1. QED BY <1>1, <1>3, JoiningSteps DEF walk
<1> HIDE DEF parts, n
<1>5. \A i \in 1 .. n : \A a, b \in DOMAIN parts[i] : a < b => <<parts[i][a], parts[i][b]>> \in Precedes
  BY <1>1, <1>3, OfOneBlock
<1>6. \A i, j \in 1 .. n : i < j =>
          \A a \in DOMAIN parts[i], b \in DOMAIN parts[j] : <<parts[i][a], parts[j][b]>> \in Precedes
  <2>1. ASSUME NEW i \in 1 .. n, NEW j \in 1 .. n, i < j, NEW a \in DOMAIN parts[i], NEW b \in DOMAIN parts[j]
        PROVE  <<parts[i][a], parts[j][b]>> \in Precedes
    <3>1. /\ parts[i][a] \in Place /\ parts[i][a][1] = i
          /\ parts[j][b] \in Place /\ parts[j][b][1] = j
      <4>1. parts[i] = Pictures!imagesOf(p, i) /\ parts[j] = Pictures!imagesOf(p, j) /\ i \in DOMAIN p.content /\ j \in DOMAIN p.content
        BY <1>1, <1>3
      <4>2. parts[i] \in Seq(Place) /\ parts[j] \in Seq(Place)
        BY <1>3
      <4>3. parts[i][a] \in Place /\ parts[j][b] \in Place
        BY <4>2
      <4>4. QED BY <4>1, <4>3, OfOneBlock
    <3>2. QED BY <2>1, <3>1 DEF Precedes
  <2>2. QED BY <2>1
<1> DEFINE s == walk[n]
<1>7. /\ s \in Seq(Place)
      /\ \A k \in DOMAIN s : \E i \in 1 .. n : \E a \in DOMAIN parts[i] : s[k] = parts[i][a]
      /\ \A i \in 1 .. n : \A a \in DOMAIN parts[i] : \E k \in DOMAIN s : s[k] = parts[i][a]
      /\ \A k, l \in DOMAIN s : k < l => <<s[k], s[l]>> \in Precedes
  <2>1. n \in Nat /\ parts \in [1 .. n -> Seq(Place)] BY <1>1, <1>3
  <2> HIDE DEF Place, Precedes
  <2>2. QED BY <2>1, <1>4, <1>5, <1>6, JoiningContents, Zenon
<1> HIDE DEF s
<1>8. \A k \in DOMAIN s : s[k] \in Pictures!ImagePlaces(p)
  <2>1. ASSUME NEW k \in DOMAIN s
        PROVE  s[k] \in Pictures!ImagePlaces(p)
    <3>1. PICK i \in 1 .. n : \E a \in DOMAIN parts[i] : s[k] = parts[i][a]
      BY <1>7
    <3>2. PICK a \in DOMAIN parts[i] : s[k] = parts[i][a]
      BY <3>1
    <3>3. parts[i] = Pictures!imagesOf(p, i) /\ i \in DOMAIN p.content
      BY <1>1, <1>3
    <3>4. parts[i][a] \in Pictures!ImagePlaces(p)
      BY <3>2, <3>3, OfOneBlock
    <3>5. QED BY <3>2, <3>4
  <2>2. QED BY <2>1
<1>9. ASSUME NEW at \in Pictures!ImagePlaces(p)
      PROVE  at \in Place /\ \E k \in DOMAIN s : s[k] = at
  <2>1. at[1] \in DOMAIN p.content BY DEF Pictures!ImagePlaces, Pictures!Places
  <2>2. PICK a \in DOMAIN Pictures!imagesOf(p, at[1]) : Pictures!imagesOf(p, at[1])[a] = at
    BY <2>1, OfOneBlock
  <2>3. at \in Place
    <3>1. Pictures!imagesOf(p, at[1]) \in Seq(Place) BY <2>1, OfOneBlock
    <3>2. QED BY <2>2, <3>1
  <2>4. QED BY <1>1, <1>3, <1>7, <2>1, <2>2, <2>3
<1>10. QED BY <1>2, <1>7, <1>8, <1>9 DEF s

\* The number an image is sent with is where the walk finds it.
LEMMA Numbered ==
    ASSUME NEW p, Walkable(p), NEW at \in Pictures!ImagePlaces(p)
    PROVE  /\ Pictures!numberOf(p, at[1], at[2]) \in Nat
           /\ Pictures!numberOf(p, at[1], at[2]) < Len(Pictures!eachImage(p))
           /\ Pictures!eachImage(p)[Pictures!numberOf(p, at[1], at[2]) + 1] = at
<1> DEFINE s == Pictures!eachImage(p)
           D == {x \in Pictures!ImagePlaces(p) : x[1] < at[1] \/ (x[1] = at[1] /\ x[2] < at[2])}
<1>1. Pictures!numberOf(p, at[1], at[2]) = Cardinality(D)
  BY SameCardinality, Zenon DEF Pictures!numberOf
<1>2. /\ s \in Seq(Place)
      /\ \A k \in DOMAIN s : s[k] \in Pictures!ImagePlaces(p)
      /\ \A x \in Pictures!ImagePlaces(p) : x \in Place /\ \E k \in DOMAIN s : s[k] = x
      /\ \A k, l \in DOMAIN s : k < l => <<s[k], s[l]>> \in Precedes
  BY EachImage
<1> HIDE DEF s
<1>3. PICK k \in DOMAIN s : s[k] = at
  BY <1>2
<1>4. k \in Nat \ {0} /\ k <= Len(s) /\ Len(s) \in Nat /\ DOMAIN s = 1 .. Len(s)
  BY <1>2, <1>3
<1>5. \A l \in DOMAIN s : l \in Nat /\ s[l] \in Place
  BY <1>2
<1>6. \A x, y \in Place : <<x, y>> \in Precedes <=> (x[1] < y[1] \/ (x[1] = y[1] /\ x[2] < y[2]))
  BY DEF Precedes
<1>7. \A x, y \in Place : <<x, y>> \in Precedes => <<y, x>> \notin Precedes /\ x # y
  BY <1>6 DEF Place
<1> DEFINE f == [l \in 1 .. k - 1 |-> s[l]]
<1>8. \A l \in 1 .. k - 1 : l \in DOMAIN s /\ l < k
  BY <1>4
<1>9. D = {s[l] : l \in 1 .. k - 1}
  <2>1. ASSUME NEW l \in 1 .. k - 1 PROVE s[l] \in D
    <3>1. l \in DOMAIN s /\ l < k BY <1>8
    <3>2. <<s[l], at>> \in Precedes /\ s[l] \in Pictures!ImagePlaces(p) BY <1>2, <1>3, <3>1
    <3>3. QED BY <3>2, <1>2, <1>6
  <2>2. ASSUME NEW x \in D PROVE \E l \in 1 .. k - 1 : s[l] = x
    <3>1. x \in Place /\ at \in Place /\ <<x, at>> \in Precedes BY <1>2, <1>6
    <3>2. PICK l \in DOMAIN s : s[l] = x BY <1>2
    <3>3. l # k BY <1>3, <1>7, <3>1, <3>2
    <3>4. ~(k < l) BY <1>2, <1>3, <1>7, <3>1, <3>2
    <3>5. l \in 1 .. k - 1 BY <1>4, <3>3, <3>4
    <3>6. QED BY <3>2, <3>5
  <2> HIDE DEF D
  <2>3. QED BY <2>1, <2>2
<1> HIDE DEF D
<1>10. IsFiniteSet(1 .. k - 1) /\ Cardinality(1 .. k - 1) = k - 1
  <2>1. 1 \in Int /\ k - 1 \in Int /\ (1 > k - 1 => k - 1 = 0) /\ (k - 1) - 1 + 1 = k - 1 BY <1>4
  <2>2. IsFiniteSet(1 .. k - 1) /\ Cardinality(1 .. k - 1) = IF 1 > k - 1 THEN 0 ELSE (k - 1) - 1 + 1
    BY <2>1, FS_Interval, Zenon
  <2>3. QED BY <2>1, <2>2
<1>11. f \in Bijection(1 .. k - 1, D)
  <2>1. f \in [1 .. k - 1 -> D] BY <1>9
  <2>2. ASSUME NEW l \in 1 .. k - 1, NEW m \in 1 .. k - 1, f[l] = f[m] PROVE l = m
    <3>1. l \in DOMAIN s /\ m \in DOMAIN s /\ s[l] = s[m] /\ l \in Nat /\ m \in Nat BY <1>5, <1>8, <2>2
    <3>2. ~(l < m) /\ ~(m < l) BY <1>2, <1>5, <1>7, <3>1
    <3>3. QED BY <3>1, <3>2
  <2>3. \A x \in D : \E l \in 1 .. k - 1 : f[l] = x BY <1>9
  <2> HIDE DEF f
  <2>4. QED BY <2>1, <2>2, <2>3 DEF Bijection, Injection, Surjection, IsInjective
<1>12. Cardinality(D) = k - 1
  <2> HIDE DEF f
  <2>1. ExistsBijection(1 .. k - 1, D) BY <1>11 DEF ExistsBijection
  <2>2. Cardinality(D) = Cardinality(1 .. k - 1) BY <1>10, <2>1, FS_Bijection
  <2>3. QED BY <1>10, <2>2
<1>13. QED BY <1>1, <1>3, <1>4, <1>12 DEF s

-----------------------------------------------------------------------------
(* Images: what is sent of a payload.                                      *)

LEMMA PayloadShape ==
    ASSUME NEW p \in Payloads
    PROVE  /\ p = [uuid |-> p.uuid, copy |-> p.copy, content |-> p.content] /\ p.uuid \in Uuids
           /\ p.content \in Seq(PayloadBlocks) /\ Walkable(p)
<1>1. p = [uuid |-> p.uuid, copy |-> p.copy, content |-> p.content] /\ p.content \in Seq(PayloadBlocks) /\ p.uuid \in Uuids
  BY PayloadsAssumption DEF Uuids
<1>2. PayloadBlocks \subseteq SentBlock
  <2>1. InnerBlocks \subseteq ShownBlock BY DEF ShownBlock
  <2>2. [type : {"result"}, inner : Seq(InnerBlocks)] \subseteq [type : {"result"}, inner : Seq(ShownBlock)]
    <3>1. Seq(InnerBlocks) \subseteq Seq(ShownBlock)
      <4>1. ASSUME NEW s \in Seq(InnerBlocks) PROVE s \in Seq(ShownBlock)
        <5>1. s \in [1 .. Len(s) -> InnerBlocks] /\ Len(s) \in Nat OBVIOUS
        <5>2. s \in [1 .. Len(s) -> ShownBlock] BY <2>1, <5>1
        <5>3. QED BY <5>1, <5>2
      <4>2. QED BY <4>1
    <3>2. QED BY <3>1
  <2>3. QED BY <2>1, <2>2 DEF PayloadBlocks, SentBlock
<1>3. p.content \in Seq(SentBlock)
  <2>1. p.content \in [1 .. Len(p.content) -> PayloadBlocks] /\ Len(p.content) \in Nat BY <1>1
  <2>2. p.content \in [1 .. Len(p.content) -> SentBlock] BY <1>2, <2>1
  <2>3. QED BY <2>1, <2>2
<1>4. QED BY <1>1, <1>3 DEF Walkable

\* A worker sends images with their bytes, or with a url.
LEMMA PayloadImages ==
    ASSUME NEW p \in Payloads, NEW at \in Pictures!ImagePlaces(p)
    PROVE  /\ at \in Place /\ at[1] \in DOMAIN p.content /\ at = <<at[1], at[2]>>
           /\ Pictures!blockAt(p, at) \in [type : {"image"}, source : {"base64", "url"}]
<1>1. /\ at \in Pictures!Places(p) /\ Pictures!isImageBlock(Pictures!blockAt(p, at))
      /\ at \in Place
  BY PayloadShape, EachImage DEF Pictures!ImagePlaces
<1>2. PICK i \in DOMAIN p.content : \E j \in 0 .. Len(Pictures!inner(p.content[i])) : at = <<i, j>>
  BY <1>1 DEF Pictures!Places
<1>3. PICK j \in 0 .. Len(Pictures!inner(p.content[i])) : at = <<i, j>>
  BY <1>2
<1> DEFINE b == p.content[i]
<1>4. b \in PayloadBlocks
  BY PayloadShape
<1> HIDE DEF b
<1>5. Pictures!inner(b) \in Seq(InnerBlocks)
  <2>1. CASE b \in InnerBlocks
    <3>1. Pictures!inner(b) = <<>> BY <2>1 DEF InnerBlocks, Pictures!inner
    <3>2. <<>> \in Seq(InnerBlocks) OBVIOUS
    <3>3. QED BY <3>1, <3>2
  <2>2. CASE b \in [type : {"result"}, inner : Seq(InnerBlocks)]
    BY <2>2 DEF Pictures!inner
  <2>3. QED BY <1>4, <2>1, <2>2 DEF PayloadBlocks
<1>6. Pictures!blockAt(p, at) \in PayloadBlocks \cup InnerBlocks
  <2>1. CASE j = 0 BY <1>3, <1>4, <2>1 DEF Pictures!blockAt, b
  <2>2. CASE j # 0
    <3>1. j \in DOMAIN Pictures!inner(b) BY <1>3, <1>5, <2>2 DEF b
    <3>2. Pictures!inner(b)[j] \in InnerBlocks BY <1>5, <3>1
    <3>3. Pictures!blockAt(p, at) = Pictures!inner(b)[j] BY <1>3, <2>2 DEF Pictures!blockAt, b
    <3>4. QED BY <3>2, <3>3
  <2>3. QED BY <2>1, <2>2
<1>7. Pictures!blockAt(p, at).type = "image" BY <1>1 DEF Pictures!isImageBlock
<1>8. Pictures!blockAt(p, at) \in [type : {"image"}, source : {"base64", "url"}]
  <2> DEFINE x == Pictures!blockAt(p, at)
  <2>1. x \in PayloadBlocks \cup InnerBlocks /\ x.type = "image" BY <1>6, <1>7
  <2> HIDE DEF x
  <2>2. x \in [type : {"image"}, source : {"base64", "url"}] BY <2>1 DEF PayloadBlocks, InnerBlocks
  <2>3. QED BY <2>2 DEF x
<1>9. QED BY <1>1, <1>2, <1>3, <1>8

\* A payload has bytes to send if one of its images has.
LEMMA BlobsOf ==
    ASSUME NEW p, Walkable(p)
    PROVE  Pictures!hasImageBlobs(p) <=> \E at \in Pictures!ImagePlaces(p) : Pictures!blockAt(p, at).source = "base64"
<1>1. /\ \A k \in DOMAIN Pictures!eachImage(p) : Pictures!eachImage(p)[k] \in Pictures!ImagePlaces(p)
      /\ \A at \in Pictures!ImagePlaces(p) : \E k \in DOMAIN Pictures!eachImage(p) : Pictures!eachImage(p)[k] = at
  BY EachImage
<1>2. QED BY <1>1 DEF Pictures!hasImageBlobs

\* What a reference to an image is.
RefTo(p, at) == [uuid |-> p.uuid, n |-> Pictures!numberOf(p, at[1], at[2])]

\* The blocks of q are those of p, where an image with bytes is a reference, or
\* its bytes can not be referred to.
SentFor(q, p) ==
    /\ q.uuid = p.uuid /\ ~q.copy /\ Walkable(q)
    /\ Pictures!ImagePlaces(q) = Pictures!ImagePlaces(p)
    /\ \A at \in Pictures!ImagePlaces(p) :
          \/ /\ Pictures!blockAt(q, at) = Pictures!blockAt(p, at)
             /\ Pictures!blockAt(p, at).source = "base64" => p.uuid = Null
          \/ /\ Pictures!blockAt(p, at).source = "base64" /\ p.uuid # Null
             /\ Pictures!blockAt(q, at) = [type |-> "image", source |-> "ref", ref |-> RefTo(p, at)]

\* One image of a payload, rewritten.
LEMMA Rewritten ==
    ASSUME NEW p \in Payloads, p.uuid # Null, NEW i \in Nat, NEW j \in Nat, <<i, j>> \in Pictures!ImagePlaces(p),
           NEW b, b = Pictures!blockAt(p, <<i, j>>)
    PROVE  /\ Pictures!rewriteBlock(p, b, i, j) \in ShownBlock
           /\ Pictures!isImageBlock(Pictures!rewriteBlock(p, b, i, j))
           /\ \/ Pictures!rewriteBlock(p, b, i, j) = b /\ b.source # "base64"
              \/ /\ b.source = "base64"
                 /\ Pictures!rewriteBlock(p, b, i, j) = [type |-> "image", source |-> "ref", ref |-> RefTo(p, <<i, j>>)]
<1>1. b \in [type : {"image"}, source : {"base64", "url"}]
  BY PayloadImages
<1>2. RefTo(p, <<i, j>>) \in Reference
  <2>1. Pictures!numberOf(p, i, j) \in Nat BY PayloadShape, Numbered
  <2>2. p.uuid \in Uuids BY PayloadShape
  <2>3. QED BY <2>1, <2>2 DEF RefTo, Reference
<1>3. CASE b.source = "base64"
  <2>1. Pictures!rewriteBlock(p, b, i, j) = [type |-> "image", source |-> "ref", ref |-> RefTo(p, <<i, j>>)]
    BY <1>3 DEF Pictures!rewriteBlock, RefTo
  <2>2. [type |-> "image", source |-> "ref", ref |-> RefTo(p, <<i, j>>)] \in ShownBlock
    BY <1>2 DEF ShownBlock
  <2>3. QED BY <1>3, <2>1, <2>2 DEF Pictures!isImageBlock
<1>4. CASE b.source # "base64"
  BY <1>1, <1>4 DEF Pictures!rewriteBlock, Pictures!isImageBlock, ShownBlock, InnerBlocks
<1>5. QED BY <1>3, <1>4

\* A block of a payload, rewritten: an image, those within a tool result, or
\* nothing of it.
NewBlock(p, i) ==
    LET b == p.content[i]
    IN  IF Pictures!isImageBlock(b) THEN Pictures!rewriteBlock(p, b, i, 0)
        ELSE IF b.type # "result" THEN b
        ELSE [b EXCEPT !.inner = [j \in DOMAIN b.inner |->
                IF Pictures!isImageBlock(b.inner[j]) THEN Pictures!rewriteBlock(p, b.inner[j], i, j) ELSE b.inner[j]]]

LEMMA BlockRewritten ==
    ASSUME NEW p \in Payloads, p.uuid # Null, NEW i \in DOMAIN p.content
    PROVE  /\ NewBlock(p, i) \in SentBlock
           /\ Len(Pictures!inner(NewBlock(p, i))) = Len(Pictures!inner(p.content[i]))
           /\ IF Pictures!isImageBlock(p.content[i])
              THEN NewBlock(p, i) = Pictures!rewriteBlock(p, p.content[i], i, 0)
              ELSE ~Pictures!isImageBlock(NewBlock(p, i))
           /\ \A j \in 1 .. Len(Pictures!inner(p.content[i])) :
                 Pictures!inner(NewBlock(p, i))[j] =
                     IF Pictures!isImageBlock(Pictures!inner(p.content[i])[j])
                     THEN Pictures!rewriteBlock(p, Pictures!inner(p.content[i])[j], i, j)
                     ELSE Pictures!inner(p.content[i])[j]
<1> DEFINE b == p.content[i]
           in == Pictures!inner(b)
           n == NewBlock(p, i)
<1>1. i \in Nat \ {0} /\ b \in SentBlock /\ in \in Seq(ShownBlock)
      /\ (Pictures!isImageBlock(b) => in = <<>>)
  BY PayloadShape, BlockShape
<1>2. \A j \in 0 .. Len(in) : <<i, j>> \in Pictures!Places(p)
  BY DEF Pictures!Places
<1>3. Pictures!blockAt(p, <<i, 0>>) = b /\ \A j \in 1 .. Len(in) : Pictures!blockAt(p, <<i, j>>) = in[j]
  BY DEF Pictures!blockAt
<1>4. Len(in) \in Nat /\ DOMAIN in = 1 .. Len(in)
  BY <1>1
<1>5. CASE Pictures!isImageBlock(b)
  <2>1. n = Pictures!rewriteBlock(p, b, i, 0)
    BY <1>5 DEF NewBlock
  <2> HIDE DEF b, in, n
  <2>2. <<i, 0>> \in Pictures!ImagePlaces(p)
    <3>1. 0 \in 0 .. Len(in) BY <1>4
    <3>2. QED BY <3>1, <1>2, <1>3, <1>5 DEF Pictures!ImagePlaces
  <2>3. n \in ShownBlock /\ Pictures!isImageBlock(n)
    BY <1>1, <1>3, <2>1, <2>2, Rewritten
  <2>4. Len(in) = 0 BY <1>1, <1>5
  <2>5. Pictures!inner(n) = <<>>
    <3>1. n.type = "image" BY <2>3 DEF Pictures!isImageBlock
    <3>2. QED BY <3>1 DEF Pictures!inner
  <2>6. n \in SentBlock BY <2>3 DEF SentBlock
  <2>7. Len(Pictures!inner(n)) = Len(in) BY <2>4, <2>5
  <2>8. \A j \in 1 .. Len(in) : FALSE BY <2>4
  <2>9. QED BY <1>5, <2>1, <2>6, <2>7, <2>8 DEF b, in, n
<1>6. CASE ~Pictures!isImageBlock(b) /\ b.type # "result"
  <2>1. n = b BY <1>6 DEF NewBlock
  <2>2. in = <<>> BY <1>6 DEF Pictures!inner
  <2> HIDE DEF b, in, n
  <2>3. Pictures!inner(n) = in BY <2>1 DEF in
  <2>4. Len(in) = 0 BY <2>2
  <2>5. \A j \in 1 .. Len(in) : FALSE BY <2>4
  <2>6. QED BY <1>1, <1>6, <2>1, <2>3, <2>5 DEF b, in, n
<1>7. CASE ~Pictures!isImageBlock(b) /\ b.type = "result"
  <2> DEFINE new(j) == IF Pictures!isImageBlock(in[j]) THEN Pictures!rewriteBlock(p, in[j], i, j) ELSE in[j]
             s == [j \in DOMAIN in |-> new(j)]
  <2>1. in = b.inner BY <1>7 DEF Pictures!inner
  <2>2. n = [b EXCEPT !.inner = s]
    BY <1>7, <2>1 DEF NewBlock
  <2> HIDE DEF in, n
  <2>3. b \in [type : {"result"}, inner : Seq(ShownBlock)]
    <3> HIDE DEF b
    <3>1. QED BY <1>1, <1>7 DEF SentBlock, ShownBlock, InnerBlocks
  <2> HIDE DEF b
  <2>4. ASSUME NEW j \in 1 .. Len(in) PROVE new(j) \in ShownBlock
    <3>1. in[j] \in ShownBlock BY <1>1, <1>4
    <3>2. CASE Pictures!isImageBlock(in[j])
      <4>1. <<i, j>> \in Pictures!ImagePlaces(p)
        <5>1. j \in 0 .. Len(in) BY <1>4
        <5>2. QED BY <5>1, <1>2, <1>3, <3>2 DEF Pictures!ImagePlaces
      <4>2. in[j] = Pictures!blockAt(p, <<i, j>>) /\ i \in Nat /\ j \in Nat BY <1>1, <1>3, <1>4
      <4>3. Pictures!rewriteBlock(p, in[j], i, j) \in ShownBlock BY <4>1, <4>2, Rewritten
      <4>4. QED BY <3>2, <4>3
    <3>3. CASE ~Pictures!isImageBlock(in[j]) BY <3>1, <3>3
    <3>4. QED BY <3>2, <3>3
  <2> HIDE DEF new
  <2>5. s \in Seq(ShownBlock) /\ Len(s) = Len(in) /\ \A j \in 1 .. Len(in) : s[j] = new(j)
    <3>1. s = [j \in 1 .. Len(in) |-> new(j)] BY <1>4
    <3> HIDE DEF s
    <3>2. s \in [1 .. Len(in) -> ShownBlock] BY <2>4, <3>1
    <3>3. s \in Seq(ShownBlock) BY <1>4, <3>2
    <3>4. DOMAIN s = 1 .. Len(in) BY <3>1
    <3>5. Len(s) = Len(in) BY <1>4, <3>3, <3>4
    <3>6. QED BY <3>1, <3>3, <3>5
  <2> HIDE DEF s
  <2>6. n \in [type : {"result"}, inner : Seq(ShownBlock)] /\ n.inner = s /\ n.type = "result"
    BY <2>2, <2>3, <2>5
  <2>7. n \in SentBlock BY <2>6 DEF SentBlock
  <2>8. Pictures!inner(n) = s /\ ~Pictures!isImageBlock(n) BY <2>6 DEF Pictures!inner, Pictures!isImageBlock
  <2>9. QED BY <1>7, <2>5, <2>7, <2>8 DEF b, in, n, new
<1>8. QED BY <1>5, <1>6, <1>7

\* Another payload with the same blocks.
LEMMA BlocksAlike ==
    ASSUME NEW p, NEW q, q.content = p.content
    PROVE  /\ Pictures!ImagePlaces(q) = Pictures!ImagePlaces(p)
           /\ \A at : Pictures!blockAt(q, at) = Pictures!blockAt(p, at)
<1>1. \A at : Pictures!blockAt(q, at) = Pictures!blockAt(p, at)
  BY DEF Pictures!blockAt
<1>2. Pictures!Places(q) = Pictures!Places(p)
  BY DEF Pictures!Places
<1>3. QED BY <1>1, <1>2 DEF Pictures!ImagePlaces

\* What is sent of a payload.
LEMMA Stripped == ASSUME NEW p \in Payloads PROVE SentFor(Pictures!stripImageBlobs(p), p)
<1> DEFINE s == Pictures!stripContentImageBlobs(p)
           q == Pictures!stripImageBlobs(p)
<1>1. /\ p = [uuid |-> p.uuid, copy |-> p.copy, content |-> p.content]
      /\ p.content \in Seq(PayloadBlocks) /\ Walkable(p)
  BY PayloadShape
<1>2. q = [s EXCEPT !.copy = FALSE]
  BY DEF Pictures!stripImageBlobs, Pictures!stripResultImageCopy
<1>3. CASE p.uuid = Null \/ ~Pictures!hasImageBlobs(p)
  <2>1. s = p BY <1>3 DEF Pictures!stripContentImageBlobs
  <2>2. q.uuid = p.uuid /\ ~q.copy /\ q.content = p.content
    <3> HIDE DEF q, s
    <3>1. q = [p EXCEPT !.copy = FALSE] BY <1>2, <2>1
    <3>2. QED BY <1>1, <3>1
  <2> HIDE DEF q
  <2>3. Walkable(q) BY <1>1, <2>2 DEF Walkable
  <2>4. /\ Pictures!ImagePlaces(q) = Pictures!ImagePlaces(p)
        /\ \A at : Pictures!blockAt(q, at) = Pictures!blockAt(p, at)
    BY <2>2, BlocksAlike
  <2>5. \A at \in Pictures!ImagePlaces(p) : Pictures!blockAt(p, at).source = "base64" => p.uuid = Null
    BY <1>1, <1>3, BlobsOf
  <2>6. QED BY <2>2, <2>3, <2>4, <2>5 DEF q, SentFor
<1>4. CASE p.uuid # Null /\ Pictures!hasImageBlobs(p)
  <2> DEFINE new == [i \in DOMAIN p.content |-> NewBlock(p, i)]
  <2>1. s = [p EXCEPT !.content = new]
    BY <1>4 DEF Pictures!stripContentImageBlobs, NewBlock
  <2> HIDE DEF new, s, q
  <2>2. q.uuid = p.uuid /\ ~q.copy /\ q.content = new
    <3>1. s = [uuid |-> p.uuid, copy |-> p.copy, content |-> new] BY <1>1, <2>1
    <3>2. QED BY <1>2, <3>1
  <2>3. Len(p.content) \in Nat /\ DOMAIN p.content = 1 .. Len(p.content) /\ DOMAIN new = DOMAIN p.content
    BY <1>1 DEF new
  <2>4. \A i \in DOMAIN p.content : new[i] = NewBlock(p, i)
    BY DEF new
  <2>5. Walkable(q)
    <3>1. new \in [1 .. Len(p.content) -> SentBlock] BY <1>4, <2>3, <2>4, BlockRewritten DEF new
    <3>2. new \in Seq(SentBlock) BY <2>3, <3>1
    <3>3. QED BY <2>2, <3>2 DEF Walkable
  <2>6. Pictures!Places(q) = Pictures!Places(p)
    <3>1. DOMAIN q.content = DOMAIN p.content BY <2>2, <2>3
    <3>2. \A i \in DOMAIN p.content : Len(Pictures!inner(q.content[i])) = Len(Pictures!inner(p.content[i]))
      BY <1>4, <2>2, <2>4, BlockRewritten
    <3>3. \A i \in DOMAIN p.content : {<<i, j>> : j \in 0 .. Len(Pictures!inner(q.content[i]))}
                                        = {<<i, j>> : j \in 0 .. Len(Pictures!inner(p.content[i]))}
      BY <3>2
    <3>4. QED BY <3>1, <3>3 DEF Pictures!Places
  <2>7. ASSUME NEW at \in Pictures!Places(p)
        PROVE  IF Pictures!isImageBlock(Pictures!blockAt(p, at))
               THEN /\ Pictures!isImageBlock(Pictures!blockAt(q, at))
                    /\ \/ Pictures!blockAt(q, at) = Pictures!blockAt(p, at) /\ Pictures!blockAt(p, at).source # "base64"
                       \/ /\ Pictures!blockAt(p, at).source = "base64"
                          /\ Pictures!blockAt(q, at) = [type |-> "image", source |-> "ref", ref |-> RefTo(p, at)]
               ELSE ~Pictures!isImageBlock(Pictures!blockAt(q, at))
    <3>1. PICK i \in DOMAIN p.content : \E j \in 0 .. Len(Pictures!inner(p.content[i])) : at = <<i, j>>
      BY DEF Pictures!Places
    <3>2. PICK j \in 0 .. Len(Pictures!inner(p.content[i])) : at = <<i, j>>
      BY <3>1
    <3>3. i \in Nat /\ Pictures!inner(p.content[i]) \in Seq(ShownBlock) BY <1>1, BlockShape
    <3>4. j \in Nat /\ (j # 0 => j \in 1 .. Len(Pictures!inner(p.content[i]))) BY <3>3
    <3>5. at[1] = i /\ at[2] = j BY <3>2
    <3>6. q.content[i] = NewBlock(p, i) BY <2>2, <2>4
    <3> DEFINE x == Pictures!blockAt(p, at)
               y == Pictures!blockAt(q, at)
    <3>7. IF Pictures!isImageBlock(x) THEN y = Pictures!rewriteBlock(p, x, i, j) ELSE ~Pictures!isImageBlock(y)
      <4>1. CASE j = 0
        <5>1. x = p.content[i] /\ y = NewBlock(p, i) BY <3>5, <3>6, <4>1 DEF Pictures!blockAt
        <5> HIDE DEF x, y
        <5>2. QED BY <1>4, <4>1, <5>1, BlockRewritten
      <4>2. CASE j # 0
        <5>1. x = Pictures!inner(p.content[i])[j] /\ y = Pictures!inner(NewBlock(p, i))[j]
          BY <3>5, <3>6, <4>2 DEF Pictures!blockAt
        <5>2. j \in 1 .. Len(Pictures!inner(p.content[i])) BY <3>4, <4>2
        <5> HIDE DEF x, y
        <5>3. y = IF Pictures!isImageBlock(x) THEN Pictures!rewriteBlock(p, x, i, j) ELSE x
          BY <1>4, <5>1, <5>2, BlockRewritten
        <5>4. QED BY <5>3
      <4>3. QED BY <4>1, <4>2
    <3>8. CASE Pictures!isImageBlock(x)
      <4>1. <<i, j>> \in Pictures!ImagePlaces(p) /\ x = Pictures!blockAt(p, <<i, j>>)
        BY <3>2, <3>8 DEF Pictures!ImagePlaces
      <4> HIDE DEF x, y
      <4>2. y = Pictures!rewriteBlock(p, x, i, j) BY <3>7, <3>8
      <4>3. /\ Pictures!isImageBlock(y)
            /\ \/ y = x /\ x.source # "base64"
               \/ x.source = "base64" /\ y = [type |-> "image", source |-> "ref", ref |-> RefTo(p, <<i, j>>)]
        BY <1>4, <3>3, <3>4, <4>1, <4>2, Rewritten
      <4>4. QED BY <3>2, <3>8, <4>3 DEF x, y
    <3>9. CASE ~Pictures!isImageBlock(x)
      <4> HIDE DEF x, y
      <4>1. ~Pictures!isImageBlock(y) BY <3>7, <3>9
      <4>2. QED BY <3>9, <4>1 DEF x, y
    <3>10. QED BY <3>8, <3>9
  <2>8. Pictures!ImagePlaces(q) = Pictures!ImagePlaces(p)
    BY <2>6, <2>7 DEF Pictures!ImagePlaces
  <2>9. ASSUME NEW at \in Pictures!ImagePlaces(p)
        PROVE  \/ /\ Pictures!blockAt(q, at) = Pictures!blockAt(p, at)
                  /\ Pictures!blockAt(p, at).source = "base64" => p.uuid = Null
               \/ /\ Pictures!blockAt(p, at).source = "base64" /\ p.uuid # Null
                  /\ Pictures!blockAt(q, at) = [type |-> "image", source |-> "ref", ref |-> RefTo(p, at)]
    <3>1. at \in Pictures!Places(p) /\ Pictures!isImageBlock(Pictures!blockAt(p, at)) BY DEF Pictures!ImagePlaces
    <3>2. QED BY <1>4, <2>7, <3>1
  <2>10. QED BY <2>2, <2>5, <2>8, <2>9 DEF SentFor, q
<1>5. QED BY <1>3, <1>4

\* No image of it has its bytes, if it can be referred to.
LEMMA NoBlobs ==
    ASSUME NEW p \in Payloads, NEW q, SentFor(q, p), q.uuid # Null
    PROVE  ~Pictures!hasImageBlobs(q)
<1>1. ASSUME NEW at \in Pictures!ImagePlaces(q) PROVE Pictures!blockAt(q, at).source # "base64"
  <2>1. at \in Pictures!ImagePlaces(p) /\ p.uuid # Null BY DEF SentFor
  <2>2. CASE /\ Pictures!blockAt(q, at) = Pictures!blockAt(p, at)
             /\ Pictures!blockAt(p, at).source = "base64" => p.uuid = Null
    BY <2>1, <2>2
  <2>3. CASE Pictures!blockAt(q, at) = [type |-> "image", source |-> "ref", ref |-> RefTo(p, at)]
    BY <2>3
  <2>4. QED BY <2>1, <2>2, <2>3 DEF SentFor
<1>2. Walkable(q) BY DEF SentFor
<1>3. QED BY <1>1, <1>2, BlobsOf

\* The bytes a reference resolves to are those of the image it replaced.
LEMMA Resolved ==
    ASSUME NEW p \in Payloads, NEW at \in Pictures!ImagePlaces(p), Pictures!blockAt(p, at).source = "base64"
    PROVE  /\ Pictures!resolveImageBlob(p, RefTo(p, at).n) = <<p.uuid, at>>
           /\ <<p.uuid, at>> # Null /\ RefTo(p, at) # Null
<1>1. /\ Pictures!numberOf(p, at[1], at[2]) \in Nat
      /\ Pictures!numberOf(p, at[1], at[2]) < Len(Pictures!eachImage(p))
      /\ Pictures!eachImage(p)[Pictures!numberOf(p, at[1], at[2]) + 1] = at
  BY PayloadShape, Numbered
<1>2. RefTo(p, at).n = Pictures!numberOf(p, at[1], at[2]) /\ RefTo(p, at) \in [uuid : Uuids, n : Nat]
  BY <1>1, PayloadShape DEF RefTo
<1>3. <<p.uuid, at>> \in Uuids \X Place
  BY PayloadShape, PayloadImages
<1>4. Pictures!resolveImageBlob(p, RefTo(p, at).n) = <<p.uuid, at>>
  BY <1>1, <1>2 DEF Pictures!resolveImageBlob, Pictures!bytesOf
<1>5. QED BY <1>2, <1>3, <1>4, PayloadsAssumption

-----------------------------------------------------------------------------
(* Images: the cards of a phone.                                           *)

\* A card of the image of p at a place: its bytes, or a reference that stands
\* for them.
CardOf(c, p, at) ==
    /\ c.uuid = p.uuid /\ c.at = at /\ Pictures!blockAt(p, at).source = "base64"
    /\ c.ref = Null \/ (p.uuid # Null /\ c.ref = RefTo(p, at))
    /\ \/ c.view = "shown" /\ c.bytes = <<p.uuid, at>>
       \/ c.view \in {"button", "failed"} /\ c.bytes = Null /\ c.ref # Null
    /\ c = [uuid |-> c.uuid, at |-> c.at, ref |-> c.ref, view |-> c.view, bytes |-> c.bytes]

PicturesInv ==
    /\ posted \subseteq Payloads
    /\ relaying \in posted \cup {Null}
    /\ kept \in Seq(Payloads) /\ \A i \in DOMAIN kept : kept[i] \in posted
    /\ \A i \in DOMAIN sent : \E p \in posted : sent[i] = Pictures!stripImageBlobs(p)
    /\ \A c \in cards : \E p \in posted : \E at \in Pictures!ImagePlaces(p) : CardOf(c, p, at)

\* The cards a phone makes of what it is sent.
LEMMA CardsOf ==
    ASSUME NEW p \in Payloads, NEW c \in Pictures!attachments(Pictures!stripImageBlobs(p))
    PROVE  \E at \in Pictures!ImagePlaces(p) : CardOf(c, p, at)
<1> DEFINE q == Pictures!stripImageBlobs(p)
<1>1. SentFor(q, p) BY Stripped
<1> HIDE DEF q
<1>2. PICK i \in DOMAIN q.content : \E j \in DOMAIN Pictures!inner(q.content[i]) :
          /\ q.content[i].type = "result"
          /\ Pictures!isImageBlock(q.content[i].inner[j]) /\ q.content[i].inner[j].source # "url"
          /\ c = [uuid |-> q.uuid, at |-> <<i, j>>,
                  ref |-> IF q.content[i].inner[j].source = "ref" THEN q.content[i].inner[j].ref ELSE Null,
                  view |-> IF q.content[i].inner[j].source = "ref" THEN "button" ELSE "shown",
                  bytes |-> IF q.content[i].inner[j].source = "ref" THEN Null ELSE <<q.uuid, <<i, j>> >>]
  BY DEF Pictures!attachments, Pictures!bytesOf, q
<1>3. PICK j \in DOMAIN Pictures!inner(q.content[i]) :
          /\ q.content[i].type = "result"
          /\ Pictures!isImageBlock(q.content[i].inner[j]) /\ q.content[i].inner[j].source # "url"
          /\ c = [uuid |-> q.uuid, at |-> <<i, j>>,
                  ref |-> IF q.content[i].inner[j].source = "ref" THEN q.content[i].inner[j].ref ELSE Null,
                  view |-> IF q.content[i].inner[j].source = "ref" THEN "button" ELSE "shown",
                  bytes |-> IF q.content[i].inner[j].source = "ref" THEN Null ELSE <<q.uuid, <<i, j>> >>]
  BY <1>2
<1> DEFINE at == <<i, j>>
           x == Pictures!blockAt(p, at)
           y == q.content[i].inner[j]
<1>4. Pictures!inner(q.content[i]) = q.content[i].inner BY <1>3 DEF Pictures!inner
<1>5. Pictures!inner(q.content[i]) \in Seq(ShownBlock) BY <1>1, BlockShape DEF SentFor
<1>6. j \in Nat \ {0} /\ j \in 0 .. Len(Pictures!inner(q.content[i])) BY <1>5
<1>7. Pictures!blockAt(q, at) = y BY <1>4, <1>6 DEF Pictures!blockAt
<1>8. at \in Pictures!ImagePlaces(q)
  <2>1. at \in Pictures!Places(q) BY <1>6 DEF Pictures!Places
  <2>2. QED BY <2>1, <1>3, <1>7 DEF Pictures!ImagePlaces
<1>9. at \in Pictures!ImagePlaces(p) /\ q.uuid = p.uuid BY <1>1, <1>8 DEF SentFor
<1>10. x \in [type : {"image"}, source : {"base64", "url"}] BY <1>9, PayloadImages
<1>11. CASE y = x /\ (x.source = "base64" => p.uuid = Null)
  <2>1. y.source = "base64" BY <1>3, <1>10, <1>11
  <2>2. c = [uuid |-> p.uuid, at |-> at, ref |-> Null, view |-> "shown", bytes |-> <<p.uuid, at>>]
    BY <1>3, <1>9, <2>1
  <2>3. x.source = "base64" BY <1>11, <2>1
  <2> HIDE DEF at
  <2>4. CardOf(c, p, at) BY <2>2, <2>3 DEF CardOf
  <2>5. QED BY <1>9, <2>4
<1>12. CASE x.source = "base64" /\ p.uuid # Null /\ y = [type |-> "image", source |-> "ref", ref |-> RefTo(p, at)]
  <2>1. y.source = "ref" /\ y.ref = RefTo(p, at) BY <1>12
  <2>2. c = [uuid |-> p.uuid, at |-> at, ref |-> RefTo(p, at), view |-> "button", bytes |-> Null]
    BY <1>3, <1>9, <2>1
  <2>3. x.source = "base64" /\ p.uuid # Null BY <1>12
  <2> HIDE DEF at
  <2>4. RefTo(p, at) # Null BY <1>9, <2>3, Resolved
  <2>5. CardOf(c, p, at) BY <2>2, <2>3, <2>4 DEF CardOf
  <2>6. QED BY <1>9, <2>5
<1>13. QED BY <1>1, <1>7, <1>9, <1>11, <1>12 DEF SentFor

\* A reference is looked up in the payload it was made of, whichever others are
\* kept; one to no payload kept is not found.
LEMMA LookedUp ==
    ASSUME PicturesInv, NEW p \in posted, p.uuid # Null,
           NEW at \in Pictures!ImagePlaces(p), Pictures!blockAt(p, at).source = "base64"
    PROVE  /\ (\E i \in DOMAIN kept : kept[i].uuid = p.uuid) => Pictures!Blob(RefTo(p, at)) = <<p.uuid, at>>
           /\ ~(\E i \in DOMAIN kept : kept[i].uuid = p.uuid) => Pictures!Blob(RefTo(p, at)) = Null
<1> DEFINE found == {i \in DOMAIN kept : kept[i].uuid = p.uuid}
<1>1. RefTo(p, at).uuid = p.uuid /\ p \in Payloads
  BY DEF RefTo, PicturesInv
<1>2. Pictures!eventByUuid(p.uuid) =
          IF found = {} THEN Null ELSE kept[CHOOSE i \in found : \A k \in found : k <= i]
  BY DEF Pictures!eventByUuid
<1>3. CASE found = {}
  <2>1. Pictures!eventByUuid(p.uuid) = Null BY <1>2, <1>3
  <2>2. Pictures!Blob(RefTo(p, at)) = Null BY <1>1, <2>1 DEF Pictures!Blob
  <2>3. QED BY <1>3, <2>2
<1>4. CASE found # {}
  <2> DEFINE top == CHOOSE i \in found : \A k \in found : k <= i
  <2>1. found \in SUBSET (1 .. Len(kept)) /\ Len(kept) \in Nat
    BY DEF PicturesInv
  <2> HIDE DEF found
  <2>2. top \in found
    <3>1. \E i \in found : \A k \in found : k <= i
      BY <1>4, <2>1, GreatestElement
    <3>2. QED BY <3>1
  <2> HIDE DEF top
  <2>3. kept[top] = p
    <3>1. top \in DOMAIN kept /\ kept[top].uuid = p.uuid BY <2>2 DEF found
    <3>2. kept[top] \in Payloads BY <3>1 DEF PicturesInv
    <3>3. QED BY <1>1, <3>1, <3>2, PayloadsAssumption
  <2>4. Pictures!eventByUuid(p.uuid) = p BY <1>2, <1>4, <2>3 DEF top
  <2>5. p # Null BY <1>1, PayloadsAssumption
  <2>6. Pictures!Blob(RefTo(p, at)) = Pictures!resolveImageBlob(p, RefTo(p, at).n)
    BY <1>1, <2>4, <2>5 DEF Pictures!Blob
  <2>7. Pictures!Blob(RefTo(p, at)) = <<p.uuid, at>> BY <1>1, <2>6, Resolved
  <2>8. QED BY <1>4, <2>7 DEF found
<1>5. QED BY <1>3, <1>4

LEMMA PicturesStart == Pictures!Init => PicturesInv
<1> SUFFICES ASSUME Pictures!Init PROVE PicturesInv
  OBVIOUS
<1>1. kept = <<>> /\ relaying = Null /\ posted = {} /\ sent = <<>> /\ cards = {}
  BY DEF Pictures!Init
<1>2. <<>> \in Seq(Payloads) /\ DOMAIN <<>> = {}
  OBVIOUS
<1>3. QED BY <1>1, <1>2 DEF PicturesInv

LEMMA PicturesRelayed == ASSUME PicturesInv, NEW p \in Payloads, Pictures!Relay(p) PROVE PicturesInv'
<1> DEFINE q == Pictures!stripImageBlobs(p)
<1>1. /\ relaying' = p /\ posted' = posted \cup {p} /\ sent' = Append(sent, q)
      /\ cards' = cards \cup Pictures!attachments(q) /\ kept' = kept
  BY DEF Pictures!Relay
<1>2. posted' \subseteq Payloads /\ relaying' \in posted' /\ kept' \in Seq(Payloads)
      /\ \A i \in DOMAIN kept' : kept'[i] \in posted'
  BY <1>1 DEF PicturesInv
<1>3. \A c \in cards' : \E r \in posted' : \E at \in Pictures!ImagePlaces(r) : CardOf(c, r, at)
  <2>1. \A c \in Pictures!attachments(q) : \E at \in Pictures!ImagePlaces(p) : CardOf(c, p, at)
    BY CardsOf
  <2> HIDE DEF q
  <2>2. QED BY <1>1, <2>1 DEF PicturesInv
<1>4. \A i \in DOMAIN sent' : \E r \in posted' : sent'[i] = Pictures!stripImageBlobs(r)
  <2>1. QED BY <1>1 DEF PicturesInv
<1>5. QED BY <1>2, <1>3, <1>4 DEF PicturesInv

LEMMA PicturesStored == ASSUME PicturesInv, Pictures!Store PROVE PicturesInv'
<1> DEFINE s == Append(kept, relaying)
<1>1. /\ relaying # Null /\ relaying' = Null /\ kept' = Pictures!Kept(s)
      /\ posted' = posted /\ sent' = sent /\ cards' = cards
  BY DEF Pictures!Store
<1>2. relaying \in posted /\ relaying \in Payloads BY <1>1 DEF PicturesInv
<1>3. s \in Seq(Payloads) /\ \A i \in DOMAIN s : s[i] \in posted
  <2>1. kept \in Seq(Payloads) /\ \A i \in DOMAIN kept : kept[i] \in posted BY DEF PicturesInv
  <2>2. QED BY <1>2, <2>1
<1> HIDE DEF s
<1>4. Pictures!Kept(s) \in Seq(Payloads) /\ \A i \in DOMAIN Pictures!Kept(s) : Pictures!Kept(s)[i] \in posted
  <2>1. CASE pool \/ Len(s) <= MemoryLimit
    BY <1>3, <2>1 DEF Pictures!Kept
  <2>2. CASE ~(pool \/ Len(s) <= MemoryLimit)
    <3> DEFINE m == Len(s) - MemoryLimit
               t == SubSeq(s, m + 1, Len(s))
    <3>1. m \in Nat /\ m <= Len(s) /\ Len(s) \in Nat /\ Len(s) - m \in Nat /\ DOMAIN s = 1 .. Len(s)
      BY <1>3, <2>2, PayloadsAssumption
    <3>2. Pictures!Kept(s) = t BY <2>2 DEF Pictures!Kept
    <3> HIDE DEF m
    <3>3. m + 1 \in 1 .. Len(s) + 1 /\ Len(s) \in (m + 1) - 1 .. Len(s)
      BY <3>1
    <3>4. /\ t \in Seq(Payloads) /\ Len(t) = Len(s) - (m + 1) + 1
          /\ \A i \in 1 .. Len(s) - (m + 1) + 1 : t[i] = s[(m + 1) + i - 1]
      BY <1>3, <3>3, SubSeqProperties
    <3>5. Len(s) - (m + 1) + 1 = Len(s) - m /\ \A i \in 1 .. Len(s) - m : (m + 1) + i - 1 \in 1 .. Len(s)
      BY <3>1
    <3> HIDE DEF t
    <3>6. DOMAIN t = 1 .. Len(s) - m BY <3>4, <3>5
    <3>7. ASSUME NEW i \in DOMAIN t PROVE t[i] \in posted
      <4>1. t[i] = s[(m + 1) + i - 1] /\ (m + 1) + i - 1 \in DOMAIN s BY <3>1, <3>4, <3>5, <3>6
      <4>2. QED BY <1>3, <4>1
    <3>8. QED BY <3>2, <3>4, <3>7
  <2>3. QED BY <2>1, <2>2
<1>5. QED BY <1>1, <1>4 DEF PicturesInv

LEMMA PicturesReopened == ASSUME PicturesInv, Pictures!Reopen PROVE PicturesInv'
<1>1. /\ sent' = [i \in DOMAIN kept |-> Pictures!stripImageBlobs(kept[i])]
      /\ cards' = UNION {Pictures!attachments(sent'[i]) : i \in DOMAIN sent'}
      /\ kept' = kept /\ relaying' = relaying /\ posted' = posted
  BY DEF Pictures!Reopen
<1>2. \A i \in DOMAIN kept : kept[i] \in posted /\ kept[i] \in Payloads
  BY DEF PicturesInv
<1>3. \A i \in DOMAIN sent' : i \in DOMAIN kept /\ sent'[i] = Pictures!stripImageBlobs(kept[i])
  BY <1>1
<1>4. ASSUME NEW c \in cards'
      PROVE  \E r \in posted' : \E at \in Pictures!ImagePlaces(r) : CardOf(c, r, at)
  <2>1. PICK i \in DOMAIN sent' : c \in Pictures!attachments(sent'[i])
    BY <1>1
  <2>2. \E at \in Pictures!ImagePlaces(kept[i]) : CardOf(c, kept[i], at)
    BY <1>2, <1>3, <2>1, CardsOf
  <2>3. kept[i] \in posted' BY <1>1, <1>2, <1>3
  <2>4. QED BY <2>2, <2>3
<1>5. \A i \in DOMAIN sent' : \E r \in posted' : sent'[i] = Pictures!stripImageBlobs(r)
  BY <1>1, <1>2, <1>3
<1>6. QED BY <1>1, <1>4, <1>5 DEF PicturesInv

LEMMA PicturesTapped == ASSUME PicturesInv, NEW c \in cards, Pictures!Tap(c) PROVE PicturesInv'
<1>1. /\ c.view = "button" /\ cards' = (cards \ {c}) \cup {Pictures!Loaded(c, Pictures!Blob(c.ref))}
      /\ kept' = kept /\ relaying' = relaying /\ posted' = posted /\ sent' = sent
  BY DEF Pictures!Tap
<1>2. PICK p \in posted : \E at \in Pictures!ImagePlaces(p) : CardOf(c, p, at)
  BY DEF PicturesInv
<1>3. PICK at \in Pictures!ImagePlaces(p) : CardOf(c, p, at)
  BY <1>2
<1>4. /\ c.uuid = p.uuid /\ c.at = at /\ Pictures!blockAt(p, at).source = "base64"
      /\ c.bytes = Null /\ p.uuid # Null /\ c.ref = RefTo(p, at) /\ c.ref # Null
      /\ c = [uuid |-> c.uuid, at |-> c.at, ref |-> c.ref, view |-> c.view, bytes |-> c.bytes]
  BY <1>1, <1>3 DEF CardOf
<1>5. Pictures!Blob(c.ref) \in {Null, <<p.uuid, at>>} /\ <<p.uuid, at>> # Null
  <2>1. p \in Payloads BY DEF PicturesInv
  <2>2. <<p.uuid, at>> # Null BY <1>4, <2>1, Resolved
  <2>3. QED BY <1>4, <2>2, LookedUp
<1> DEFINE n == Pictures!Loaded(c, Pictures!Blob(c.ref))
<1>6. CardOf(n, p, at)
  <2>1. CASE Pictures!Blob(c.ref) = Null
    <3>1. n = [c EXCEPT !.view = "failed"] BY <2>1 DEF Pictures!Loaded
    <3> HIDE DEF n
    <3>2. n = [uuid |-> p.uuid, at |-> at, ref |-> c.ref, view |-> "failed", bytes |-> Null] BY <1>4, <3>1
    <3>3. QED BY <1>4, <3>2 DEF CardOf
  <2>2. CASE Pictures!Blob(c.ref) # Null
    <3>1. n = [c EXCEPT !.view = "shown", !.bytes = <<p.uuid, at>>] BY <1>5, <2>2 DEF Pictures!Loaded
    <3> HIDE DEF n
    <3>2. n = [uuid |-> p.uuid, at |-> at, ref |-> c.ref, view |-> "shown", bytes |-> <<p.uuid, at>>]
      BY <1>4, <3>1
    <3>3. QED BY <1>4, <3>2 DEF CardOf
  <2>3. QED BY <2>1, <2>2
<1> HIDE DEF n
<1>7. \A d \in cards' : \E r \in posted' : \E x \in Pictures!ImagePlaces(r) : CardOf(d, r, x)
  <2>1. cards' = (cards \ {c}) \cup {n} BY <1>1 DEF n
  <2>2. QED BY <1>1, <1>6, <2>1 DEF PicturesInv
<1>8. QED BY <1>1, <1>7 DEF PicturesInv

LEMMA PicturesStep == PicturesInv /\ [Pictures!Next]_pictures => PicturesInv'
<1> SUFFICES ASSUME PicturesInv, [Pictures!Next]_pictures PROVE PicturesInv'
  OBVIOUS
<1>1. ASSUME NEW p \in Payloads, Pictures!Relay(p) PROVE PicturesInv'
  BY <1>1, PicturesRelayed
<1>2. CASE Pictures!Store BY <1>2, PicturesStored
<1>3. CASE Pictures!StoreFails
  <2>1. relaying' = Null /\ kept' = kept /\ posted' = posted /\ sent' = sent /\ cards' = cards
    BY <1>3 DEF Pictures!StoreFails
  <2>2. QED BY <2>1 DEF PicturesInv
<1>4. CASE Pictures!Reopen BY <1>4, PicturesReopened
<1>5. ASSUME NEW c \in cards, Pictures!Tap(c) PROVE PicturesInv'
  BY <1>5, PicturesTapped
<1>6. CASE UNCHANGED pictures
  <2>1. relaying' = relaying /\ kept' = kept /\ posted' = posted /\ sent' = sent /\ cards' = cards
    BY <1>6 DEF pictures
  <2>2. QED BY <2>1 DEF PicturesInv
<1>7. QED BY <1>1, <1>2, <1>3, <1>4, <1>5, <1>6 DEF Pictures!Next

LEMMA PicturesSafe ==
    PicturesInv => Pictures!TypeOK /\ Pictures!RightImage /\ Pictures!KeptResolves /\ Pictures!NoBytesSent
<1> SUFFICES ASSUME PicturesInv
             PROVE  Pictures!TypeOK /\ Pictures!RightImage /\ Pictures!KeptResolves /\ Pictures!NoBytesSent
  OBVIOUS
<1>1. ASSUME NEW c \in cards
      PROVE  /\ c.view \in {"button", "shown", "failed"} /\ (c.view = "shown") = (c.bytes # Null)
             /\ c.view = "shown" => c.bytes = <<c.uuid, c.at>>
             /\ c.ref # Null /\ (\E i \in DOMAIN kept : kept[i].uuid = c.uuid) => Pictures!Blob(c.ref) # Null
  <2>1. PICK p \in posted : \E at \in Pictures!ImagePlaces(p) : CardOf(c, p, at)
    BY DEF PicturesInv
  <2>2. PICK at \in Pictures!ImagePlaces(p) : CardOf(c, p, at)
    BY <2>1
  <2>3. p \in Payloads /\ Pictures!blockAt(p, at).source = "base64" /\ c.uuid = p.uuid /\ c.at = at
    BY <2>2 DEF CardOf, PicturesInv
  <2>4. <<p.uuid, at>> # Null
    BY <2>3, Resolved
  <2>5. /\ c.view \in {"button", "shown", "failed"} /\ (c.view = "shown") = (c.bytes # Null)
        /\ c.view = "shown" => c.bytes = <<c.uuid, c.at>>
    BY <2>2, <2>3, <2>4 DEF CardOf
  <2>6. ASSUME c.ref # Null, \E i \in DOMAIN kept : kept[i].uuid = c.uuid PROVE Pictures!Blob(c.ref) # Null
    <3>1. p.uuid # Null /\ c.ref = RefTo(p, at) BY <2>2, <2>6 DEF CardOf
    <3>2. Pictures!Blob(RefTo(p, at)) = <<p.uuid, at>> BY <2>3, <2>6, <3>1, LookedUp
    <3>3. QED BY <2>4, <3>1, <3>2
  <2>7. QED BY <2>5, <2>6
<1>2. ASSUME NEW i \in DOMAIN sent
      PROVE  ~sent[i].copy /\ (sent[i].uuid # Null => ~Pictures!hasImageBlobs(sent[i]))
  <2>1. PICK p \in posted : sent[i] = Pictures!stripImageBlobs(p)
    BY DEF PicturesInv
  <2>2. p \in Payloads BY DEF PicturesInv
  <2>3. SentFor(sent[i], p) BY <2>1, <2>2, Stripped
  <2>4. ~sent[i].copy BY <2>3 DEF SentFor
  <2>5. QED BY <2>2, <2>3, <2>4, NoBlobs
<1>3. Pictures!TypeOK BY <1>1 DEF Pictures!TypeOK, PicturesInv
<1>4. Pictures!RightImage BY <1>1 DEF Pictures!RightImage
<1>5. Pictures!KeptResolves BY <1>1 DEF Pictures!KeptResolves
<1>6. Pictures!NoBytesSent BY <1>2 DEF Pictures!NoBytesSent
<1>7. QED BY <1>3, <1>4, <1>5, <1>6

\* An image a phone shows is the one that was there, a reference into a payload
\* that is kept can be fetched, and no bytes are sent that a reference can name
\* (image-blob.ts), for any payloads and whatever memory keeps.
THEOREM ImagesAreRight == SessionSpec => []ImagesResolve
<1> DEFINE Inv == part = "images" => PicturesInv
<1>1. SessionInit => Inv
  BY PicturesStart DEF SessionInit
<1>2. Inv /\ [SessionNext]_<<part, vars, rows, pictures>> => Inv'
  <2> SUFFICES ASSUME Inv, [SessionNext]_<<part, vars, rows, pictures>>, part' = "images" PROVE PicturesInv'
    OBVIOUS
  <2>1. CASE part = "images" /\ Pictures!Next
    BY <2>1, PicturesStep
  <2>2. CASE part' = part /\ UNCHANGED pictures
    BY <2>2, PicturesStep
  <2>3. QED BY <2>1, <2>2 DEF SessionNext
<1>3. Inv => ImagesResolve
  BY PicturesSafe DEF ImagesResolve
<1>4. QED BY <1>1, <1>2, <1>3, PTL DEF SessionSpec

-----------------------------------------------------------------------------
(* The screen: what an item, an index and a screen may be.                 *)

Chunk == Nat \X Nat
Status == {"running", "awaiting", "ok", "error"}
CallCard == [id : Calls, status : Status]
TodoTask == [key : {"call", "number"} \X Calls, status : {"pending", "deleted"}]
TaskNames == {"t1", "t2"}
TaskStatus == {"running", "completed", "failed", "interrupted", "paused"}

UserItem == [kind : {"user"}, text : Texts, state : {"queued", "sent"}]
BlockItem == [kind : Stream, text : Seq(Chunk), streaming : BOOLEAN, fromStream : BOOLEAN]
ToolsItem == [kind : {"tools"}, calls : Seq(CallCard)]
TodoItem == [kind : {"todo"}, tasks : Seq(TodoTask)]
QuestionItem == [kind : {"question"}, request : Calls, id : Calls, answered : BOOLEAN]
TaskItem == [kind : {"bgtask"}, task : TaskNames, status : TaskStatus]
NoteItem == [kind : {"note"}, what : {"error", "reset", "shutdown", "summary", "boundary", "line"}]
UnknownItem == [kind : {"unknown"}, shape : {"new", "notice"}, count : Nat]
Item == UserItem \cup BlockItem \cup ToolsItem \cup TodoItem \cup QuestionItem \cup TaskItem
        \cup NoteItem \cup UnknownItem

Index == UNION {[S -> Nat \X Nat] : S \in SUBSET Calls}
Live == [busy : BOOLEAN, thinking : BOOLEAN, compacting : BOOLEAN, running : Calls \cup {Null},
         permission : Calls \cup {Null}, asked : Calls \cup {Null}]
Screen == [items : Seq(Item), index : Index, pendingWeb : Seq(Texts), todos : Seq(TodoTask), live : Live]

\* An item is of the set its kind names.
LEMMA ItemByKind ==
    ASSUME NEW x \in Item
    PROVE  /\ x.kind \in ItemKinds
           /\ x.kind = "user" => x \in UserItem
           /\ x.kind \in Stream => x \in BlockItem
           /\ x.kind = "tools" => x \in ToolsItem
           /\ x.kind = "todo" => x \in TodoItem
           /\ x.kind = "question" => x \in QuestionItem
           /\ x.kind = "bgtask" => x \in TaskItem
           /\ x.kind = "note" => x \in NoteItem
           /\ x.kind = "unknown" => x \in UnknownItem
<1>1. CASE x \in UserItem BY <1>1 DEF UserItem, ItemKinds, Stream
<1>2. CASE x \in BlockItem BY <1>2 DEF BlockItem, ItemKinds, Stream
<1>3. CASE x \in ToolsItem BY <1>3 DEF ToolsItem, ItemKinds, Stream
<1>4. CASE x \in TodoItem BY <1>4 DEF TodoItem, ItemKinds, Stream
<1>5. CASE x \in QuestionItem BY <1>5 DEF QuestionItem, ItemKinds, Stream
<1>6. CASE x \in TaskItem BY <1>6 DEF TaskItem, ItemKinds, Stream
<1>7. CASE x \in NoteItem BY <1>7 DEF NoteItem, ItemKinds, Stream
<1>8. CASE x \in UnknownItem BY <1>8 DEF UnknownItem, ItemKinds, Stream
<1>9. QED BY <1>1, <1>2, <1>3, <1>4, <1>5, <1>6, <1>7, <1>8 DEF Item

\* Each kind of item is an item.
LEMMA ItemSets ==
    /\ UserItem \subseteq Item /\ BlockItem \subseteq Item /\ ToolsItem \subseteq Item
    /\ TodoItem \subseteq Item /\ QuestionItem \subseteq Item /\ TaskItem \subseteq Item
    /\ NoteItem \subseteq Item /\ UnknownItem \subseteq Item
BY DEF Item

\* The fields of a screen.
LEMMA ScreenFields ==
    ASSUME NEW d \in Screen
    PROVE  /\ d.items \in Seq(Item) /\ d.index \in Index /\ d.pendingWeb \in Seq(Texts)
           /\ d.todos \in Seq(TodoTask) /\ d.live \in Live
           /\ DOMAIN d.items = 1 .. Len(d.items) /\ Len(d.items) \in Nat
           /\ \A i \in DOMAIN d.items : d.items[i] \in Item
           /\ DOMAIN d.index \subseteq Calls /\ \A c \in DOMAIN d.index : d.index[c] \in Nat \X Nat
<1>1. /\ d.items \in Seq(Item) /\ d.index \in Index /\ d.pendingWeb \in Seq(Texts)
      /\ d.todos \in Seq(TodoTask) /\ d.live \in Live
  BY DEF Screen
<1> HIDE DEF Item
<1>2. /\ DOMAIN d.items = 1 .. Len(d.items) /\ Len(d.items) \in Nat
      /\ \A i \in DOMAIN d.items : d.items[i] \in Item
  BY <1>1
<1>3. DOMAIN d.index \subseteq Calls /\ \A c \in DOMAIN d.index : d.index[c] \in Nat \X Nat
  BY <1>1 DEF Index
<1>4. QED BY <1>1, <1>2, <1>3

-----------------------------------------------------------------------------
(* What a screen keeps whatever the events are (Kept), and what it keeps   *)
(* if no call is announced twice (Exact).                                  *)

\* The place noted for a call is that of a card of it.
InPlace(d) ==
    \A c \in DOMAIN d.index : d.index[c][1] > 0 =>
        /\ d.index[c][1] \in DOMAIN d.items /\ d.items[d.index[c][1]].kind = "tools"
        /\ d.index[c][2] \in DOMAIN d.items[d.index[c][1]].calls
        /\ Card(d, c).id = c

OneEach(d) ==
    \A i, j \in DOMAIN d.items :
        /\ d.items[i].kind = "bgtask" /\ d.items[j].kind = "bgtask"
             /\ d.items[i].task = d.items[j].task => i = j
        /\ d.items[i].kind = "question" /\ d.items[j].kind = "question"
             /\ d.items[i].request = d.items[j].request => i = j

LastTodo(d, k) ==
    k \in DOMAIN d.items /\ d.items[k].kind = "todo" /\ \A i \in DOMAIN d.items : i > k => d.items[i].kind # "todo"
Fresh(d) ==
    d.todos # <<>> => \E k \in DOMAIN d.items : LastTodo(d, k) /\ d.items[k].tasks = d.todos

Kept == {d \in Screen : InPlace(d) /\ OneEach(d) /\ Fresh(d) /\ (d.live.permission = Null <=> d.live.asked = Null)}

\* Every card is the one noted for its call.
AllNoted(d) ==
    \A i \in DOMAIN d.items : d.items[i].kind = "tools" =>
        \A j \in DOMAIN d.items[i].calls :
            d.items[i].calls[j].id \in DOMAIN d.index /\ d.index[d.items[i].calls[j].id] = <<i, j>>
LineOpen(d) == d.live.running # Null => HasCard(d, d.live.running) /\ Open(Card(d, d.live.running))
Exact(d) == AllNoted(d) /\ LineOpen(d)

\* From d to n, announcing the calls of S.
Goes(d, n, S) ==
    /\ n \in Kept /\ DOMAIN n.index \subseteq DOMAIN d.index \cup S
    /\ Exact(d) /\ S \cap DOMAIN d.index = {} => Exact(n)

\* Steps of a screen compose, when they announce different calls.
LEMMA GoesOn ==
    ASSUME NEW d, NEW m, NEW n, NEW S, NEW T, Goes(d, m, S), Goes(m, n, T), S \cap T = {}
    PROVE  Goes(d, n, S \cup T)
BY DEF Goes

\* A screen that stays announces nothing.
LEMMA GoesNowhere == ASSUME NEW d \in Kept PROVE Goes(d, d, {})
BY DEF Goes

-----------------------------------------------------------------------------
(* The ways items change.                                                  *)

\* y may stand where x stood: the same kind, and the same calls, task, request
\* or list.
AlikeItem(x, y) ==
    /\ y.kind = x.kind
    /\ x.kind = "tools" => /\ DOMAIN y.calls = DOMAIN x.calls
                           /\ \A j \in DOMAIN x.calls : y.calls[j].id = x.calls[j].id
    /\ x.kind = "bgtask" => y.task = x.task
    /\ x.kind = "question" => y.request = x.request
    /\ x.kind = "todo" => y.tasks = x.tasks
Alike(d, n) ==
    /\ n \in Screen /\ n.index = d.index /\ n.todos = d.todos
    /\ DOMAIN n.items = DOMAIN d.items
    /\ \A i \in DOMAIN d.items : AlikeItem(d.items[i], n.items[i])
    /\ n.live.permission = Null <=> n.live.asked = Null

\* Patches of items that keep every call where it is keep the screen.
LEMMA AlikeKept ==
    ASSUME NEW d \in Kept, NEW n, Alike(d, n)
    PROVE  n \in Kept /\ (AllNoted(d) => AllNoted(n))
<1> USE DEF Alike, AlikeItem
<1>1. d \in Screen /\ InPlace(d) /\ OneEach(d) /\ Fresh(d)
  BY DEF Kept
<1>2. InPlace(n)
  <2>1. ASSUME NEW c \in DOMAIN n.index, n.index[c][1] > 0
        PROVE  /\ n.index[c][1] \in DOMAIN n.items /\ n.items[n.index[c][1]].kind = "tools"
               /\ n.index[c][2] \in DOMAIN n.items[n.index[c][1]].calls
               /\ n.items[n.index[c][1]].calls[n.index[c][2]].id = c
    <3> DEFINE i == d.index[c][1]
               j == d.index[c][2]
    <3>1. /\ i \in DOMAIN d.items /\ d.items[i].kind = "tools" /\ j \in DOMAIN d.items[i].calls
          /\ d.items[i].calls[j].id = c
      BY <2>1, <1>1 DEF InPlace, Card
    <3>2. n.index[c][1] = i /\ n.index[c][2] = j
      OBVIOUS
    <3> HIDE DEF i, j
    <3>3. AlikeItem(d.items[i], n.items[i])
      BY <3>1
    <3>4. QED BY <3>1, <3>2, <3>3
  <2>2. QED BY <2>1 DEF InPlace, Card
<1>3. OneEach(n)
  BY <1>1 DEF OneEach
<1>4. Fresh(n)
  BY <1>1 DEF Fresh, LastTodo
<1>5. ASSUME AllNoted(d) PROVE AllNoted(n)
  <2>1. ASSUME NEW i \in DOMAIN n.items, n.items[i].kind = "tools", NEW j \in DOMAIN n.items[i].calls
        PROVE  n.items[i].calls[j].id \in DOMAIN n.index /\ n.index[n.items[i].calls[j].id] = <<i, j>>
    <3>1. /\ i \in DOMAIN d.items /\ d.items[i].kind = "tools" /\ j \in DOMAIN d.items[i].calls
          /\ n.items[i].calls[j].id = d.items[i].calls[j].id
      BY <2>1
    <3>2. d.items[i].calls[j].id \in DOMAIN d.index /\ d.index[d.items[i].calls[j].id] = <<i, j>>
      BY <3>1, <1>5 DEF AllNoted
    <3>3. n.index = d.index OBVIOUS
    <3> HIDE DEF Alike, AlikeItem
    <3>4. QED BY <3>1, <3>2, <3>3
  <2> HIDE DEF Alike, AlikeItem
  <2>2. QED BY <2>1 DEF AllNoted
<1>6. QED BY <1>2, <1>3, <1>4, <1>5 DEF Kept

\* x is no list and no card of a call; of a task or a question it is the first.
FirstCard(d, x) ==
    /\ x.kind \notin {"tools", "todo"}
    /\ \A i \in DOMAIN d.items : d.items[i].kind = x.kind =>
          /\ x.kind = "bgtask" => d.items[i].task # x.task
          /\ x.kind = "question" => d.items[i].request # x.request

\* Such an item is pushed.
LEMMA PushKept ==
    ASSUME NEW d \in Kept, NEW x \in Item, FirstCard(d, x)
    PROVE  Goes(d, push(d, x), {})
<1> DEFINE n == push(d, x)
           N == Len(d.items)
<1>0. d \in Screen /\ InPlace(d) /\ OneEach(d) /\ Fresh(d) /\ (d.live.permission = Null <=> d.live.asked = Null)
  BY DEF Kept
<1>1. /\ N \in Nat /\ DOMAIN d.items = 1 .. N /\ DOMAIN n.items = 1 .. N + 1 /\ n.items \in Seq(Item)
      /\ \A i \in 1 .. N : n.items[i] = d.items[i]
      /\ n.items[N + 1] = x
  BY <1>0, ScreenFields DEF push, Screen
<1>2. n.index = d.index /\ n.todos = d.todos /\ n.live = d.live /\ n \in Screen
  BY <1>0, <1>1, ScreenFields DEF push, Screen
<1> HIDE DEF n, N
<1>3. InPlace(n)
  <2>1. ASSUME NEW c \in DOMAIN n.index, n.index[c][1] > 0
        PROVE  /\ n.index[c][1] \in DOMAIN n.items /\ n.items[n.index[c][1]].kind = "tools"
               /\ n.index[c][2] \in DOMAIN n.items[n.index[c][1]].calls
               /\ n.items[n.index[c][1]].calls[n.index[c][2]].id = c
    <3>1. /\ d.index[c][1] \in DOMAIN d.items /\ d.items[d.index[c][1]].kind = "tools"
          /\ d.index[c][2] \in DOMAIN d.items[d.index[c][1]].calls
          /\ d.items[d.index[c][1]].calls[d.index[c][2]].id = c
      BY <2>1, <1>0, <1>2 DEF InPlace, Card
    <3>2. PICK i \in DOMAIN d.items : i = d.index[c][1] BY <3>1
    <3>3. i \in 1 .. N BY <1>1
    <3>4. n.items[i] = d.items[i] /\ i \in DOMAIN n.items
      <4>1. i \in 1 .. N + 1 BY <3>3, <1>1
      <4>2. QED BY <3>3, <4>1, <1>1
    <3>5. n.index[c] = d.index[c] BY <1>2
    <3>6. QED BY <3>1, <3>2, <3>4, <3>5
  <2>2. QED BY <2>1 DEF InPlace, Card
<1>4. OneEach(n)
  <2>1. ASSUME NEW i \in 1 .. N + 1, NEW j \in 1 .. N + 1, n.items[i].kind = n.items[j].kind, i # j
        PROVE  /\ n.items[i].kind = "bgtask" => n.items[i].task # n.items[j].task
               /\ n.items[i].kind = "question" => n.items[i].request # n.items[j].request
    <3>1. CASE i \in 1 .. N /\ j \in 1 .. N
      BY <2>1, <3>1, <1>0, <1>1 DEF OneEach
    <3>2. CASE i = N + 1 /\ j \in 1 .. N
      BY <2>1, <3>2, <1>1 DEF FirstCard
    <3>3. CASE i \in 1 .. N /\ j = N + 1
      BY <2>1, <3>3, <1>1 DEF FirstCard
    <3>4. QED BY <2>1, <3>1, <3>2, <3>3, <1>1
  <2>2. QED BY <2>1, <1>1 DEF OneEach
<1>5. Fresh(n)
  <2>1. ASSUME NEW k \in DOMAIN d.items, LastTodo(d, k)
        PROVE  LastTodo(n, k) /\ n.items[k] = d.items[k]
    BY <2>1, <1>1 DEF LastTodo, FirstCard
  <2>2. QED BY <2>1, <1>0, <1>1, <1>2 DEF Fresh
<1>6. ASSUME AllNoted(d) PROVE AllNoted(n)
  <2>1. ASSUME NEW i \in DOMAIN n.items, n.items[i].kind = "tools"
        PROVE  i \in DOMAIN d.items /\ n.items[i] = d.items[i]
    BY <2>1, <1>1 DEF FirstCard
  <2>2. ASSUME NEW i \in DOMAIN n.items, n.items[i].kind = "tools", NEW j \in DOMAIN n.items[i].calls
        PROVE  n.items[i].calls[j].id \in DOMAIN d.index /\ d.index[n.items[i].calls[j].id] = <<i, j>>
    BY <2>1, <2>2, <1>6 DEF AllNoted
  <2>3. QED BY <2>2, <1>2 DEF AllNoted
<1>7. ASSUME LineOpen(d) PROVE LineOpen(n)
  <2>1. ASSUME NEW c \in DOMAIN d.index, HasCard(d, c) PROVE HasCard(n, c) /\ Card(n, c) = Card(d, c)
    BY <2>1, <1>0, <1>1, <1>2 DEF HasCard, Card, InPlace
  <2>2. QED BY <2>1, <1>7, <1>2 DEF LineOpen, HasCard
<1>8. QED BY <1>0, <1>2, <1>3, <1>4, <1>5, <1>6, <1>7 DEF Goes, Kept, Exact, n

\* The cards of calls stay as they are, and the line stays or is put out.
LEMMA SameCards ==
    ASSUME NEW d \in Kept, NEW n, Alike(d, n), n.live.running \in {Null, d.live.running},
           \A i \in DOMAIN d.items : d.items[i].kind = "tools" => n.items[i] = d.items[i]
    PROVE  Goes(d, n, {})
<1>1. n \in Kept /\ (AllNoted(d) => AllNoted(n)) /\ n.index = d.index
  BY AlikeKept DEF Alike
<1>2. ASSUME LineOpen(d) PROVE LineOpen(n)
  <2>1. ASSUME NEW c, HasCard(d, c) PROVE HasCard(n, c) /\ Card(n, c) = Card(d, c)
    <3>1. InPlace(d) BY DEF Kept
    <3>2. d.index[c][1] \in DOMAIN d.items /\ d.items[d.index[c][1]].kind = "tools"
      BY <2>1, <3>1 DEF InPlace, HasCard
    <3>3. n.items[d.index[c][1]] = d.items[d.index[c][1]]
      BY <3>2
    <3>4. QED BY <2>1, <3>3, <1>1 DEF HasCard, Card
  <2>2. QED BY <2>1, <1>2 DEF LineOpen
<1>3. QED BY <1>1, <1>2 DEF Goes, Exact

\* Only what is beside the items changes.
LEMMA AsideKept ==
    ASSUME NEW d \in Kept, NEW n \in Screen, n.items = d.items, n.index = d.index, n.todos = d.todos,
           n.live.running \in {Null, d.live.running}, n.live.permission = Null <=> n.live.asked = Null
    PROVE  Goes(d, n, {})
<1>1. Alike(d, n)
  BY DEF Alike, AlikeItem
<1>2. QED BY <1>1, SameCards

\* One item changes, and it is no card of a call.
LEMMA OneChanged ==
    ASSUME NEW d \in Kept, NEW k \in DOMAIN d.items, NEW x \in Item, AlikeItem(d.items[k], x),
           x.kind # "tools"
    PROVE  Goes(d, [d EXCEPT !.items[k] = x], {})
<1> DEFINE n == [d EXCEPT !.items[k] = x]
<1>1. d \in Screen /\ (d.live.permission = Null <=> d.live.asked = Null)
  BY DEF Kept
<1>2. n = [d EXCEPT !.items = [d.items EXCEPT ![k] = x]]
  BY <1>1 DEF Screen
<1>3. [d.items EXCEPT ![k] = x] \in Seq(Item)
  BY <1>1, ScreenFields
<1>4. n \in Screen /\ n.items = [d.items EXCEPT ![k] = x] /\ n.index = d.index /\ n.todos = d.todos /\ n.live = d.live
  BY <1>1, <1>2, <1>3 DEF Screen
<1> HIDE DEF n
<1>5. \A i \in DOMAIN d.items : n.items[i] = IF i = k THEN x ELSE d.items[i]
  BY <1>4
<1>6. ASSUME NEW i \in DOMAIN d.items
      PROVE  AlikeItem(d.items[i], n.items[i]) /\ (d.items[i].kind = "tools" => n.items[i] = d.items[i])
  BY <1>5 DEF AlikeItem
<1>7. Alike(d, n)
  BY <1>1, <1>4, <1>6 DEF Alike
<1>8. Goes(d, n, {})
  BY <1>4, <1>6, <1>7, SameCards
<1>9. QED BY <1>8 DEF n

\* The card of a call gets a status (patchCall).
LEMMA PatchKept ==
    ASSUME NEW d \in Kept, NEW id \in Calls, NEW status \in Status
    PROVE  LET n == patchCall(d, id, status)
           IN  /\ n \in Kept /\ n.index = d.index /\ n.live = d.live
               /\ AllNoted(d) => AllNoted(n)
               /\ \A c : HasCard(d, c) => HasCard(n, c) /\ (c # id => Card(n, c) = Card(d, c))
               /\ HasCard(d, id) => Card(n, id).status = status
<1> DEFINE n == patchCall(d, id, status)
<1>0. d \in Screen /\ InPlace(d) /\ (d.live.permission = Null <=> d.live.asked = Null)
  BY DEF Kept
<1>1. CASE ~HasCard(d, id)
  <2>1. n = d BY <1>1 DEF patchCall
  <2>2. QED BY <2>1, <1>1
<1>2. CASE HasCard(d, id)
  <2> DEFINE i == d.index[id][1]
             j == d.index[id][2]
             y == [d.items[i].calls[j] EXCEPT !.status = status]
             x == [d.items[i] EXCEPT !.calls = [d.items[i].calls EXCEPT ![j] = y]]
  <2>1. i \in DOMAIN d.items /\ d.items[i].kind = "tools" /\ j \in DOMAIN d.items[i].calls /\ d.items[i].calls[j].id = id
    BY <1>0, <1>2 DEF InPlace, HasCard, Card
  <2>2. n = [d EXCEPT !.items = [d.items EXCEPT ![i] = x]]
    BY <1>0, <1>2 DEF patchCall, Screen
  <2> HIDE DEF i, j, n
  <2>3. d.items[i] \in ToolsItem
    <3> HIDE DEF Item
    <3>1. d.items[i] \in Item BY <1>0, <2>1, ScreenFields
    <3>2. QED BY <3>1, <2>1, ItemByKind
  <2>4. d.items[i].calls \in Seq(CallCard) /\ d.items[i].calls[j] \in CallCard
    <3>1. d.items[i].calls \in Seq(CallCard) BY <2>3 DEF ToolsItem
    <3>2. QED BY <3>1, <2>1
  <2>5. y \in CallCard /\ y.id = id /\ y.status = status
    BY <2>1, <2>4 DEF CallCard
  <2> HIDE DEF y
  <2>6. /\ x \in ToolsItem /\ x.kind = "tools"
        /\ x.calls = [d.items[i].calls EXCEPT ![j] = y]
        /\ x.calls \in Seq(CallCard)
    BY <2>1, <2>3, <2>4, <2>5 DEF ToolsItem
  <2>7. /\ DOMAIN x.calls = DOMAIN d.items[i].calls /\ x.calls[j] = y
        /\ \A l \in DOMAIN x.calls : l # j => x.calls[l] = d.items[i].calls[l]
    BY <2>1, <2>6
  <2> HIDE DEF x
  <2>8. AlikeItem(d.items[i], x)
    BY <2>1, <2>5, <2>6, <2>7 DEF AlikeItem
  <2>9. /\ n \in Screen /\ n.index = d.index /\ n.todos = d.todos /\ n.live = d.live
        /\ DOMAIN n.items = DOMAIN d.items
        /\ \A k \in DOMAIN d.items : n.items[k] = IF k = i THEN x ELSE d.items[k]
    <3> HIDE DEF Item
    <3>1. [d.items EXCEPT ![i] = x] \in Seq(Item)
      <4>1. x \in Item BY <2>6, ItemSets
      <4>2. d.items \in Seq(Item) BY <1>0, ScreenFields
      <4>3. QED BY <4>1, <4>2, <2>1
    <3>2. QED BY <1>0, <2>1, <2>2, <3>1, ScreenFields DEF Screen
  <2>10. Alike(d, n)
    BY <1>0, <2>8, <2>9 DEF Alike, AlikeItem
  <2>11. n \in Kept /\ (AllNoted(d) => AllNoted(n))
    BY <2>10, AlikeKept
  <2>12. HasCard(n, id) /\ Card(n, id).status = status
    BY <1>2, <2>1, <2>5, <2>7, <2>9 DEF HasCard, Card, i, j
  <2>13. ASSUME NEW c, HasCard(d, c), c # id PROVE HasCard(n, c) /\ Card(n, c) = Card(d, c)
    <3>1. /\ d.index[c][1] \in DOMAIN d.items /\ d.items[d.index[c][1]].kind = "tools"
          /\ d.index[c][2] \in DOMAIN d.items[d.index[c][1]].calls
          /\ d.items[d.index[c][1]].calls[d.index[c][2]].id = c
      BY <1>0, <2>13 DEF InPlace, HasCard, Card
    <3>2. CASE d.index[c][1] = i
      <4>1. d.index[c][2] # j BY <3>1, <3>2, <2>1, <2>13
      <4>2. QED BY <4>1, <3>1, <3>2, <2>7, <2>9, <2>13 DEF HasCard, Card
    <3>3. CASE d.index[c][1] # i BY <3>1, <3>3, <2>9, <2>13 DEF HasCard, Card
    <3>4. QED BY <3>2, <3>3
  <2>14. QED BY <2>9, <2>11, <2>12, <2>13 DEF n
<1>3. QED BY <1>1, <1>2

\* The least and the greatest of some positions.
LEMMA MinIn ==
    ASSUME NEW S, S \subseteq Nat, S # {}
    PROVE  Min(S) \in S /\ \A y \in S : Min(S) <= y
<1>1. \E x \in S : \A y \in S : x <= y
  BY LeastElement
<1>2. QED BY <1>1 DEF Min

\* The greatest of some of the numbers up to n (Max of the library).
LEMMA MaxIn ==
    ASSUME NEW n \in Nat, NEW S, S \subseteq 1 .. n, S # {}
    PROVE  Max(S) \in S /\ \A y \in S : Max(S) >= y
<1> DEFINE B == {n - x : x \in S}
<1>1. B \subseteq Nat /\ B # {}
  <2>1. ASSUME NEW x \in S PROVE n - x \in Nat
    <3>1. x \in 1 .. n OBVIOUS
    <3>2. QED BY <3>1
  <2>2. QED BY <2>1
<1>2. PICK m \in B : \A y \in B : m <= y
  <2> HIDE DEF B
  <2>1. QED BY <1>1, LeastElement
<1>3. PICK x \in S : m = n - x
  BY <1>2
<1>4. ASSUME NEW y \in S PROVE x >= y
  <2>1. n - y \in B OBVIOUS
  <2>2. m <= n - y BY <2>1, <1>2
  <2>3. x \in 1 .. n /\ y \in 1 .. n OBVIOUS
  <2>4. QED BY <2>2, <2>3, <1>3
<1>5. QED BY <1>4 DEF Max

\* The positions of a kind of item.
LEMMA PositionsIn ==
    ASSUME NEW d \in Screen, NEW kind
    PROVE  /\ Positions(d, kind) \subseteq 1 .. Len(d.items) /\ Positions(d, kind) \subseteq Nat
           /\ \A k \in Positions(d, kind) : k \in DOMAIN d.items /\ d.items[k].kind = kind /\ d.items[k] \in Item
<1> HIDE DEF Item
<1>1. QED BY ScreenFields DEF Positions

\* A sequence, element by element.
LEMMA MappedSeq ==
    ASSUME NEW S, NEW T, NEW s \in Seq(S), NEW f, f = [j \in DOMAIN s |-> f[j]], \A j \in DOMAIN s : f[j] \in T
    PROVE  f \in Seq(T) /\ Len(f) = Len(s) /\ DOMAIN f = DOMAIN s
<1>1. DOMAIN s = 1 .. Len(s) /\ Len(s) \in Nat
  OBVIOUS
<1>2. f \in [1 .. Len(s) -> T] /\ DOMAIN f = 1 .. Len(s)
  BY <1>1
<1>3. QED BY <1>1, <1>2

-----------------------------------------------------------------------------
(* The ends of a turn, and background tasks.                               *)

\* Clearing the flags of a turn moves no item (model.ts, idle).
LEMMA IdleKept == ASSUME NEW d \in Kept PROVE Goes(d, idle(d), {}) /\ idle(d).items = d.items /\ idle(d).index = d.index
<1>1. d \in Screen /\ (d.live.permission = Null <=> d.live.asked = Null)
  BY DEF Kept
<1>2. idle(d) \in Screen /\ idle(d).items = d.items /\ idle(d).index = d.index /\ idle(d).todos = d.todos
      /\ idle(d).live.running = Null /\ idle(d).live.permission = d.live.permission /\ idle(d).live.asked = d.live.asked
  BY <1>1 DEF idle, Screen, Live
<1>3. QED BY <1>1, <1>2, AsideKept

\* What a turn's end makes of an item.
LEMMA SettledAlike ==
    ASSUME NEW x \in Item, NEW status \in Status
    PROVE  SettledItem(x, status) \in Item /\ AlikeItem(x, SettledItem(x, status))
<1> DEFINE y == SettledItem(x, status)
<1>1. CASE x.kind = "tools"
  <2>1. x \in ToolsItem BY <1>1, ItemByKind
  <2> DEFINE calls == [j \in DOMAIN x.calls |->
                          IF Open(x.calls[j]) THEN [x.calls[j] EXCEPT !.status = status] ELSE x.calls[j]]
  <2>2. y = [x EXCEPT !.calls = calls]
    BY <1>1 DEF SettledItem
  <2>3. x.calls \in Seq(CallCard)
    BY <2>1 DEF ToolsItem
  <2>4. ASSUME NEW j \in DOMAIN x.calls PROVE calls[j] \in CallCard /\ calls[j].id = x.calls[j].id
    <3>1. x.calls[j] \in CallCard BY <2>3
    <3>2. QED BY <3>1 DEF CallCard
  <2>5. calls \in Seq(CallCard) /\ DOMAIN calls = DOMAIN x.calls
    <3>1. calls = [j \in DOMAIN x.calls |-> calls[j]] OBVIOUS
    <3> HIDE DEF calls
    <3>2. QED BY <3>1, <2>3, <2>4, MappedSeq
  <2> HIDE DEF calls, y
  <2>7. y \in ToolsItem /\ y.kind = "tools" /\ y.calls = calls
    BY <2>1, <2>2, <2>5 DEF ToolsItem
  <2>8. AlikeItem(x, y)
    BY <1>1, <2>4, <2>5, <2>7 DEF AlikeItem
  <2>9. QED BY <2>7, <2>8, ItemSets DEF y
<1>2. CASE x.kind \in {"prose", "thinking"}
  <2>1. x \in BlockItem BY <1>2, ItemByKind DEF Stream
  <2>2. y = [x EXCEPT !.streaming = FALSE]
    BY <1>2 DEF SettledItem
  <2> HIDE DEF y
  <2>3. y \in BlockItem /\ y.kind = x.kind
    BY <2>1, <2>2 DEF BlockItem
  <2>4. AlikeItem(x, y)
    BY <1>2, <2>3 DEF AlikeItem
  <2>5. QED BY <2>3, <2>4, ItemSets DEF y
<1>3. CASE x.kind \notin {"tools", "prose", "thinking"}
  <2>1. y = x
    BY <1>3 DEF SettledItem
  <2>2. QED BY <2>1 DEF AlikeItem
<1>4. QED BY <1>1, <1>2, <1>3

\* A turn that ends settles its calls where they are (model.ts, endTurn).
LEMMA EndTurnKept ==
    ASSUME NEW d \in Kept, NEW failed \in BOOLEAN
    PROVE  Goes(d, endTurn(d, failed), {}) /\ endTurn(d, failed).live.permission = Null
<1> DEFINE status == IF failed THEN "error" ELSE "ok"
           items == [i \in DOMAIN d.items |-> SettledItem(d.items[i], status)]
           n == endTurn(d, failed)
<1>1. d \in Screen
  BY DEF Kept
<1>2. status \in Status
  BY DEF Status
<1> HIDE DEF status
<1>3. ASSUME NEW i \in DOMAIN d.items PROVE items[i] \in Item /\ AlikeItem(d.items[i], items[i])
  <2> HIDE DEF Item
  <2>1. d.items[i] \in Item BY <1>1, ScreenFields
  <2>2. QED BY <2>1, <1>2, SettledAlike
<1>4. items \in Seq(Item) /\ DOMAIN items = DOMAIN d.items
  <2> HIDE DEF Item
  <2>1. items = [i \in DOMAIN d.items |-> items[i]] OBVIOUS
  <2> HIDE DEF items
  <2>2. d.items \in Seq(Item) BY <1>1, ScreenFields
  <2>3. QED BY <2>1, <2>2, <1>3, MappedSeq
<1>5. /\ n.items = items /\ n.index = d.index /\ n.todos = d.todos /\ n.pendingWeb = d.pendingWeb
      /\ n.live \in Live /\ n.live.running = Null /\ n.live.permission = Null /\ n.live.asked = Null
      /\ n = [items |-> items, index |-> d.index, pendingWeb |-> d.pendingWeb, todos |-> d.todos, live |-> n.live]
  <2> DEFINE m == idle(d)
  <2>1. m \in Screen /\ m.items = d.items /\ m.index = d.index /\ m.todos = d.todos /\ m.pendingWeb = d.pendingWeb
        /\ m.live.running = Null
    BY <1>1 DEF idle, Screen, Live
  <2>2. n = [m EXCEPT !.live.permission = Null, !.live.asked = Null,
                      !.items = [i \in DOMAIN @ |-> SettledItem(@[i], status)]]
    BY DEF endTurn, status
  <2> HIDE DEF m, n
  <2>3. m.live \in Live
    BY <2>1 DEF Screen
  <2>4. n.items = items
    BY <2>1, <2>2 DEF Screen
  <2> HIDE DEF items
  <2>5. n.index = m.index /\ n.todos = m.todos /\ n.pendingWeb = m.pendingWeb
        /\ n.live = [m.live EXCEPT !.permission = Null, !.asked = Null]
        /\ n = [items |-> n.items, index |-> n.index, pendingWeb |-> n.pendingWeb, todos |-> n.todos, live |-> n.live]
    BY <2>1, <2>2 DEF Screen
  <2>6. n.live \in Live /\ n.live.running = Null /\ n.live.permission = Null /\ n.live.asked = Null
    BY <2>1, <2>3, <2>5 DEF Live
  <2>7. QED BY <2>1, <2>4, <2>5, <2>6
<1> HIDE DEF n, items
<1>6. n \in Screen
  BY <1>1, <1>4, <1>5, ScreenFields DEF Screen
<1>7. Alike(d, n)
  BY <1>3, <1>4, <1>5, <1>6 DEF Alike
<1>8. n \in Kept /\ (AllNoted(d) => AllNoted(n)) /\ n.index = d.index
  BY <1>5, <1>7, AlikeKept
<1>9. LineOpen(n)
  BY <1>5 DEF LineOpen
<1>10. QED BY <1>5, <1>8, <1>9 DEF Goes, Exact, n

\* Steps that announce nothing compose.
LEMMA Then == ASSUME NEW d, NEW m, NEW n, Goes(d, m, {}), Goes(m, n, {}) PROVE Goes(d, n, {})
<1>1. {} \cap {} = {} /\ {} \cup {} = {}
  OBVIOUS
<1>2. QED BY <1>1, GoesOn

\* A note pushed at the end of the items moves none.
LEMMA NotePushed ==
    ASSUME NEW d \in Kept, NEW what \in {"error", "reset", "shutdown", "summary", "boundary", "line"}
    PROVE  Goes(d, push(d, Note(what)), {})
<1>1. Note(what) \in NoteItem /\ Note(what).kind = "note"
  BY DEF Note, NoteItem
<1>2. Note(what) \in Item
  BY <1>1, ItemSets
<1>3. FirstCard(d, Note(what))
  BY <1>1 DEF FirstCard
<1>4. QED BY <1>2, <1>3, PushKept

\* The result of a turn settles and adds at most a note (model.ts, result).
LEMMA ResultKept == ASSUME NEW d \in Kept, NEW failed \in BOOLEAN PROVE Goes(d, result(d, failed), {})
<1>1. CASE failed
  <2>1. Goes(d, endTurn(d, TRUE), {}) BY EndTurnKept
  <2>2. endTurn(d, TRUE) \in Kept BY <2>1 DEF Goes
  <2>3. Goes(endTurn(d, TRUE), push(endTurn(d, TRUE), Note("error")), {})
    BY <2>2, NotePushed
  <2>4. QED BY <2>1, <2>3, <1>1, Then DEF result
<1>2. CASE ~failed
  BY <1>2, EndTurnKept DEF result
<1>3. QED BY <1>1, <1>2

\* A conversation that is reset keeps its items (model.ts, conversationReset).
LEMMA ResetKept == ASSUME NEW d \in Kept PROVE Goes(d, conversationReset(d), {})
<1> DEFINE m == endTurn(d, FALSE)
           n == [m EXCEPT !.todos = <<>>]
<1>1. Goes(d, m, {}) /\ m \in Kept
  BY EndTurnKept DEF Goes
<1> HIDE DEF m
<1>2. m \in Screen /\ InPlace(m) /\ OneEach(m) /\ (m.live.permission = Null <=> m.live.asked = Null)
  BY <1>1 DEF Kept
<1>3. n \in Screen /\ n.items = m.items /\ n.index = m.index /\ n.live = m.live /\ n.todos = <<>>
  <2>1. <<>> \in Seq(TodoTask) OBVIOUS
  <2>2. QED BY <1>2, <2>1 DEF Screen
<1>4. conversationReset(d) = push(n, Note("reset"))
  BY DEF conversationReset, m
<1> HIDE DEF n
<1>5. n \in Kept
  <2>1. InPlace(n) BY <1>2, <1>3 DEF InPlace, Card
  <2>2. OneEach(n) BY <1>2, <1>3 DEF OneEach
  <2>3. Fresh(n) BY <1>3 DEF Fresh
  <2>4. QED BY <1>2, <1>3, <2>1, <2>2, <2>3 DEF Kept
<1>6. Exact(m) => Exact(n)
  BY <1>3 DEF Exact, AllNoted, LineOpen, HasCard, Card
<1>7. Goes(m, n, {})
  BY <1>3, <1>5, <1>6 DEF Goes
<1>8. Goes(n, push(n, Note("reset")), {})
  BY <1>5, NotePushed
<1>9. QED BY <1>1, <1>4, <1>7, <1>8, Then

\* The status of a background task is set where its item is.
LEMMA WithStatusKept ==
    ASSUME NEW d \in Kept, NEW task \in TaskNames, NEW status \in TaskStatus
    PROVE  Goes(d, WithStatus(d, task, status), {})
<1>1. CASE TaskCards(d, task) = {}
  BY <1>1, GoesNowhere DEF WithStatus
<1>2. CASE TaskCards(d, task) # {}
  <2> DEFINE k == Min(TaskCards(d, task))
             x == [d.items[k] EXCEPT !.status = status]
  <2>0. d \in Screen
    BY DEF Kept
  <2>1. k \in Positions(d, "bgtask")
    <3>1. TaskCards(d, task) \subseteq Positions(d, "bgtask") /\ TaskCards(d, task) \subseteq Nat
      BY <2>0, PositionsIn DEF TaskCards
    <3>2. QED BY <3>1, <1>2, MinIn
  <2>2. k \in DOMAIN d.items /\ d.items[k].kind = "bgtask" /\ d.items[k] \in TaskItem
    <3> HIDE DEF Item, k
    <3>1. k \in DOMAIN d.items /\ d.items[k].kind = "bgtask" /\ d.items[k] \in Item
      BY <2>0, <2>1, PositionsIn
    <3>2. QED BY <3>1, ItemByKind
  <2>3. WithStatus(d, task, status) = [d EXCEPT !.items[k] = x]
    BY <1>2 DEF WithStatus
  <2> HIDE DEF k
  <2>4. x \in TaskItem /\ x.kind = "bgtask" /\ x.task = d.items[k].task
    BY <2>2 DEF TaskItem
  <2> HIDE DEF x
  <2>5. x \in Item /\ AlikeItem(d.items[k], x) /\ x.kind # "tools"
    BY <2>2, <2>4, ItemSets DEF AlikeItem
  <2>6. QED BY <2>2, <2>3, <2>5, OneChanged
<1>3. QED BY <1>1, <1>2

\* A task without an item gets one at the end.
LEMMA TaskPushed ==
    ASSUME NEW d \in Kept, NEW task \in TaskNames, NEW status \in TaskStatus, TaskCards(d, task) = {}
    PROVE  Goes(d, push(d, Task(task, status)), {})
<1>1. Task(task, status) \in TaskItem /\ Task(task, status).kind = "bgtask" /\ Task(task, status).task = task
  BY DEF Task, TaskItem
<1>2. Task(task, status) \in Item
  BY <1>1, ItemSets
<1>3. \A i \in DOMAIN d.items : d.items[i].kind = "bgtask" => d.items[i].task # task
  BY DEF TaskCards, Positions
<1>4. FirstCard(d, Task(task, status))
  BY <1>1, <1>3 DEF FirstCard
<1>5. QED BY <1>2, <1>4, PushKept

\* Tasks the worker lists no more are marked where they are.
LEMMA DroppedKept ==
    ASSUME NEW d \in Kept, NEW listed, NEW status \in TaskStatus
    PROVE  Goes(d, Dropped(d, listed, status), {})
<1> DEFINE Drops(x) == x.kind = "bgtask" /\ x.status = "running" /\ x.task \notin listed
           items == [i \in DOMAIN d.items |->
                       IF Drops(d.items[i]) THEN [d.items[i] EXCEPT !.status = status] ELSE d.items[i]]
           n == Dropped(d, listed, status)
<1>1. d \in Screen /\ (d.live.permission = Null <=> d.live.asked = Null)
  BY DEF Kept
<1>2. n = [d EXCEPT !.items = items]
  BY DEF Dropped
<1>3. ASSUME NEW i \in DOMAIN d.items
      PROVE  items[i] \in Item /\ AlikeItem(d.items[i], items[i])
             /\ (d.items[i].kind = "tools" => items[i] = d.items[i])
  <2>1. d.items[i] \in Item
    <3> HIDE DEF Item
    <3>1. QED BY <1>1, ScreenFields
  <2>2. CASE Drops(d.items[i])
    <3>1. items[i] = [d.items[i] EXCEPT !.status = status] BY <2>2
    <3>2. d.items[i] \in TaskItem BY <2>1, <2>2, ItemByKind
    <3> HIDE DEF items, Item
    <3>3. items[i] \in TaskItem /\ items[i].kind = "bgtask" /\ items[i].task = d.items[i].task
      BY <3>1, <3>2 DEF TaskItem
    <3>4. QED BY <2>2, <3>3, ItemSets DEF AlikeItem
  <2>3. CASE ~Drops(d.items[i])
    <3>1. items[i] = d.items[i] BY <2>3
    <3>2. QED BY <2>1, <3>1 DEF AlikeItem
  <2>4. QED BY <2>2, <2>3
<1>4. items \in Seq(Item) /\ DOMAIN items = DOMAIN d.items
  <2> HIDE DEF Item
  <2>1. items = [i \in DOMAIN d.items |-> items[i]] OBVIOUS
  <2> HIDE DEF items
  <2>2. d.items \in Seq(Item) BY <1>1, ScreenFields
  <2>3. QED BY <2>1, <2>2, <1>3, MappedSeq
<1> HIDE DEF items
<1>5. n \in Screen /\ n.items = items /\ n.index = d.index /\ n.todos = d.todos /\ n.live = d.live
  BY <1>1, <1>2, <1>4 DEF Screen
<1> HIDE DEF n
<1>6. Alike(d, n)
  BY <1>1, <1>3, <1>4, <1>5 DEF Alike
<1>7. Goes(d, n, {})
  BY <1>3, <1>5, <1>6, SameCards
<1>8. QED BY <1>7 DEF n

\* A task that starts (model.ts, task_started).
LEMMA TaskStartedKept ==
    ASSUME NEW d \in Kept, NEW task \in TaskNames PROVE Goes(d, TaskStarted(d, task), {})
<1>1. CASE TaskCards(d, task) # {} BY <1>1, GoesNowhere DEF TaskStarted
<1>2. CASE TaskCards(d, task) = {} BY <1>2, TaskPushed DEF TaskStarted, TaskStatus
<1>3. QED BY <1>1, <1>2

\* A task that is reported on (model.ts, task_notification and task_updated).
LEMMA TaskNotified ==
    ASSUME NEW d \in Kept, NEW task \in TaskNames, NEW status \in TaskStatus
    PROVE  Goes(d, TaskNotification(d, task, status), {}) /\ Goes(d, TaskUpdated(d, task, status), {})
<1>1. Goes(d, TaskNotification(d, task, status), {})
  BY TaskPushed, WithStatusKept DEF TaskNotification
<1>2. (IF status \in {"failed", "completed"} THEN status ELSE "running") \in TaskStatus
  BY DEF TaskStatus
<1>3. Goes(d, TaskUpdated(d, task, status), {})
  BY <1>2, WithStatusKept DEF TaskUpdated
<1>4. QED BY <1>1, <1>3

\* A worker that goes idles the screen and adds a note (model.ts, worker_shutting_down).
LEMMA ShutdownKept == ASSUME NEW d \in Kept PROVE Goes(d, WorkerShutdown(d), {})
<1> DEFINE m == idle(d)
           n == Dropped(m, {}, "interrupted")
<1>1. Goes(d, m, {}) /\ m \in Kept
  BY IdleKept DEF Goes
<1>2. Goes(m, n, {}) /\ n \in Kept
  BY <1>1, DroppedKept DEF Goes, TaskStatus
<1>3. Goes(n, push(n, Note("shutdown")), {})
  BY <1>2, NotePushed
<1>4. WorkerShutdown(d) = push(n, Note("shutdown"))
  BY DEF WorkerShutdown
<1> HIDE DEF m, n
<1>5. Goes(d, n, {})
  BY <1>1, <1>2, Then
<1>6. QED BY <1>3, <1>4, <1>5, Then

\* The item at the tail.
LEMMA LastIn ==
    ASSUME NEW d \in Screen, LastKind(d) # "none"
    PROVE  /\ Len(d.items) \in DOMAIN d.items /\ Last(d.items) = d.items[Len(d.items)]
           /\ d.items[Len(d.items)] \in Item /\ LastKind(d) = d.items[Len(d.items)].kind
           /\ \A i \in DOMAIN d.items : i <= Len(d.items)
<1> HIDE DEF Item
<1>1. d.items # <<>> /\ LastKind(d) = Last(d.items).kind
  BY DEF LastKind
<1>2. d.items \in Seq(Item)
  BY ScreenFields
<1>3. Len(d.items) \in DOMAIN d.items /\ \A i \in DOMAIN d.items : i <= Len(d.items)
  BY <1>1, <1>2
<1>4. QED BY <1>1, <1>2, <1>3 DEF Last

\* The item at the tail gives way to one like it, and is no card of a call.
LEMMA LastReplaced ==
    ASSUME NEW d \in Kept, NEW x \in Item, LastKind(d) = x.kind, x.kind \notin {"tools", "todo", "bgtask", "question"}
    PROVE  Goes(d, ReplaceLast(d, x), {})
<1>1. d \in Screen
  BY DEF Kept
<1>2. x.kind # "none"
  BY ItemByKind DEF ItemKinds
<1>3. Len(d.items) \in DOMAIN d.items /\ AlikeItem(d.items[Len(d.items)], x)
  BY <1>1, <1>2, LastIn DEF AlikeItem
<1>4. QED BY <1>3, OneChanged DEF ReplaceLast

\* An event of an unknown shape adds or counts up an item (model.ts, markUnknown).
LEMMA UnknownMarked ==
    ASSUME NEW d \in Kept, NEW shape \in {"new", "notice"} PROVE Goes(d, markUnknown(d, shape), {})
<1>1. d \in Screen
  BY DEF Kept
<1>2. CASE LastKind(d) = "unknown" /\ Last(d.items).shape = shape
  <2> DEFINE x == [Last(d.items) EXCEPT !.count = @ + 1]
  <2>1. Last(d.items) \in UnknownItem
    <3> HIDE DEF Item
    <3>1. Last(d.items) \in Item /\ Last(d.items).kind = "unknown" BY <1>1, <1>2, LastIn
    <3>2. QED BY <3>1, ItemByKind
  <2>2. x \in UnknownItem /\ x.kind = "unknown"
    BY <2>1 DEF UnknownItem
  <2>3. markUnknown(d, shape) = ReplaceLast(d, x)
    BY <1>2 DEF markUnknown
  <2> HIDE DEF x
  <2>4. x \in Item BY <2>2, ItemSets
  <2>5. QED BY <1>2, <2>2, <2>3, <2>4, LastReplaced
<1>3. CASE ~(LastKind(d) = "unknown" /\ Last(d.items).shape = shape)
  <2> DEFINE x == [kind |-> "unknown", shape |-> shape, count |-> 1]
  <2>1. x \in UnknownItem /\ x.kind = "unknown" BY DEF UnknownItem
  <2>2. markUnknown(d, shape) = push(d, x) BY <1>3 DEF markUnknown
  <2> HIDE DEF x
  <2>3. x \in Item BY <2>1, ItemSets
  <2>4. FirstCard(d, x) BY <2>1 DEF FirstCard
  <2>5. QED BY <2>2, <2>3, <2>4, PushKept
<1>4. QED BY <1>2, <1>3

-----------------------------------------------------------------------------
(* Events, as the worker emits them.                                       *)

TextBlocks == [type : {"text", "thinking"}, text : Seq(Chunk)]
ToolBlocks == [type : {"tool_use"}, id : Calls, tool : {"plain", "hidden", "question", "create", "update"},
               task : Calls, status : {"pending", "deleted"}]
CallResult == [id : Calls, failed : BOOLEAN]

IsSystem(e) ==
    /\ e.subtype \in {"thinking_tokens", "post_turn_summary", "compacting", "compact_result",
                      "compact_boundary", "notice", "task_started", "task_notification",
                      "task_updated", "tasks_changed", "shutting_down", "line"}
    /\ e.subtype = "post_turn_summary" => e.detail \in BOOLEAN
    /\ e.subtype = "compact_result" => e.failed \in BOOLEAN
    /\ e.subtype \in {"task_started", "task_notification", "task_updated"} => e.task \in TaskNames
    /\ e.subtype \in {"task_notification", "task_updated"} => e.status \in TaskStatus
IsAssistant(e) ==
    /\ e.blocks \in Seq(TextBlocks \cup ToolBlocks)
    /\ \A k, l \in DOMAIN e.blocks :
          e.blocks[k].type = "tool_use" /\ e.blocks[l].type = "tool_use" /\ e.blocks[k].id = e.blocks[l].id => k = l
IsEvent(e) ==
    /\ e.type \in {"system", "assistant", "user", "result", "control_request", "control_cancel_request",
                   "stream_event", "reset", "rate_limit", "unknown", "ignored"}
    /\ e.type = "system" => IsSystem(e)
    /\ e.type = "assistant" => IsAssistant(e)
    /\ e.type = "user" => e.texts \in Seq(Texts) /\ e.results \in Seq(CallResult)
    /\ e.type = "result" => e.failed \in BOOLEAN
    /\ e.type = "control_request" => e.request \in Calls /\ e.id = e.request /\ e.question \in BOOLEAN
    /\ e.type = "control_cancel_request" => e.request \in Calls
    /\ e.type = "stream_event" => e.delta \in BOOLEAN /\ (e.delta => e.block \in Stream /\ e.chunk \in Chunk)
    /\ e.type = "rate_limit" => e.allowed \in BOOLEAN
    /\ e.type = "unknown" => e.shape = "new"

\* The calls an event announces.
Announced(b) == IF b.type = "tool_use" THEN {b.id} ELSE {}
Uses(e) == IF e.type = "assistant" THEN UNION {Announced(e.blocks[k]) : k \in DOMAIN e.blocks} ELSE {}

\* The flags of the screen move no item.
LEMMA CompactedKept ==
    ASSUME NEW d \in Kept, NEW b \in BOOLEAN
    PROVE  Goes(d, [d EXCEPT !.live.compacting = b], {}) /\ Goes(d, [d EXCEPT !.live.thinking = b], {})
           /\ Goes(d, [d EXCEPT !.live.busy = b], {})
           /\ Goes(d, [d EXCEPT !.live.busy = TRUE, !.live.thinking = b], {})
<1>1. d \in Screen /\ (d.live.permission = Null <=> d.live.asked = Null)
  BY DEF Kept
<1> DEFINE Beside(n) == /\ n \in Screen /\ n.items = d.items /\ n.index = d.index /\ n.todos = d.todos
                        /\ n.live.running = d.live.running /\ n.live.permission = d.live.permission
                        /\ n.live.asked = d.live.asked
<1>2. Beside([d EXCEPT !.live.compacting = b]) /\ Beside([d EXCEPT !.live.thinking = b])
  BY <1>1 DEF Screen, Live
<1>3. Beside([d EXCEPT !.live.busy = b]) /\ Beside([d EXCEPT !.live.busy = TRUE, !.live.thinking = b])
  BY <1>1 DEF Screen, Live
<1>4. ASSUME NEW n, Beside(n) PROVE Goes(d, n, {})
  BY <1>1, <1>4, AsideKept
<1> HIDE DEF Beside
<1>5. QED BY <1>2, <1>3, <1>4

\* Every system event keeps the screen (model.ts, system).
LEMMA SystemKept == ASSUME NEW d \in Kept, NEW e, IsSystem(e) PROVE Goes(d, system(d, e), {})
<1> USE DEF IsSystem
<1>1. CASE e.subtype = "thinking_tokens" BY <1>1, CompactedKept DEF system
<1>2. CASE e.subtype = "post_turn_summary"
  <2>1. Goes(d, idle(d), {}) /\ idle(d) \in Kept BY IdleKept DEF Goes
  <2>2. Goes(idle(d), push(idle(d), Note("summary")), {}) BY <2>1, NotePushed
  <2>3. Goes(d, push(idle(d), Note("summary")), {}) BY <2>1, <2>2, Then
  <2>4. QED BY <1>2, <2>1, <2>3 DEF system
<1>3. CASE e.subtype = "compacting" BY <1>3, CompactedKept DEF system
<1> DEFINE m == Compacted(d)
<1>4. Goes(d, m, {}) /\ m \in Kept
  BY CompactedKept DEF Compacted, Goes
<1>5. Goes(d, push(m, Note("error")), {}) /\ Goes(d, push(m, Note("boundary")), {})
  <2> HIDE DEF m
  <2>1. Goes(m, push(m, Note("error")), {}) /\ Goes(m, push(m, Note("boundary")), {})
    BY <1>4, NotePushed
  <2>2. QED BY <1>4, <2>1, Then
<1>6. CASE e.subtype = "compact_result" BY <1>4, <1>5, <1>6 DEF system
<1>7. CASE e.subtype = "compact_boundary" BY <1>5, <1>7 DEF system
<1>8. CASE e.subtype = "notice" BY <1>8, UnknownMarked DEF system
<1>9. CASE e.subtype = "task_started" BY <1>9, TaskStartedKept DEF system
<1>10. CASE e.subtype = "task_notification" BY <1>10, TaskNotified DEF system
<1>11. CASE e.subtype = "task_updated" BY <1>11, TaskNotified DEF system
<1>12. CASE e.subtype = "tasks_changed"
  <2>1. Goes(d, Dropped(d, e.tasks, "completed"), {}) BY DroppedKept DEF TaskStatus
  <2>2. QED BY <1>12, <2>1 DEF system
<1>13. CASE e.subtype = "shutting_down" BY <1>13, ShutdownKept DEF system
<1>14. CASE e.subtype = "line" BY <1>14, NotePushed DEF system
<1>15. QED BY <1>1, <1>2, <1>3, <1>6, <1>7, <1>8, <1>9, <1>10, <1>11, <1>12, <1>13, <1>14

-----------------------------------------------------------------------------
(* Blocks of a message.                                                    *)

\* A block of text or thought is pushed, or replaces one like it at the end.
LEMMA BlockPushed ==
    ASSUME NEW d \in Kept, NEW x \in BlockItem
    PROVE  Goes(d, push(d, x), {}) /\ (LastKind(d) = x.kind => Goes(d, ReplaceLast(d, x), {}))
<1>1. x \in Item /\ x.kind \notin {"tools", "todo", "bgtask", "question"}
  BY ItemSets DEF BlockItem, Stream
<1>2. FirstCard(d, x)
  BY <1>1 DEF FirstCard
<1>3. QED BY <1>1, <1>2, PushKept, LastReplaced

\* The final text takes the place of the streamed one (model.ts, settleStreamed).
LEMMA StreamedSettled ==
    ASSUME NEW d \in Kept, NEW kind \in Stream, NEW text \in Seq(Chunk)
    PROVE  Goes(d, settleStreamed(d, kind, text), {})
<1>1. Block(kind, text) \in BlockItem /\ Block(kind, text).kind = kind
  BY DEF Block, BlockItem
<1>2. QED BY <1>1, BlockPushed DEF settleStreamed, OnDraft

\* A chunk is appended to the block that streams (model.ts, appendStreamed).
LEMMA StreamedAppended ==
    ASSUME NEW d \in Kept, NEW kind \in Stream, NEW chunk \in Chunk
    PROVE  Goes(d, appendStreamed(d, kind, chunk), {})
<1>1. d \in Screen
  BY DEF Kept
<1>2. CASE LastKind(d) = kind /\ Last(d.items).streaming
  <2> DEFINE x == [Last(d.items) EXCEPT !.text = Append(@, chunk)]
  <2>1. Last(d.items) \in BlockItem /\ Last(d.items).kind = kind
    <3> HIDE DEF Item
    <3>1. Last(d.items) \in Item /\ Last(d.items).kind = kind BY <1>1, <1>2, LastIn DEF Stream
    <3>2. QED BY <3>1, ItemByKind
  <2>2. Append(Last(d.items).text, chunk) \in Seq(Chunk)
    <3>1. Last(d.items).text \in Seq(Chunk) BY <2>1 DEF BlockItem
    <3> HIDE DEF Chunk
    <3>2. QED BY <3>1
  <2>3. x \in BlockItem /\ x.kind = kind
    BY <2>1, <2>2 DEF BlockItem
  <2>4. appendStreamed(d, kind, chunk) = ReplaceLast(d, x)
    BY <1>2 DEF appendStreamed
  <2> HIDE DEF x
  <2>5. QED BY <1>2, <2>3, <2>4, BlockPushed
<1>3. CASE ~(LastKind(d) = kind /\ Last(d.items).streaming)
  <2> DEFINE x == [Block(kind, <<chunk>>) EXCEPT !.streaming = TRUE, !.fromStream = TRUE]
  <2>1. <<chunk>> \in Seq(Chunk)
    OBVIOUS
  <2>2. x \in BlockItem
    BY <2>1 DEF Block, BlockItem
  <2>3. appendStreamed(d, kind, chunk) = push(d, x)
    BY <1>3 DEF appendStreamed
  <2> HIDE DEF x
  <2>4. QED BY <2>2, <2>3, BlockPushed
<1>4. QED BY <1>2, <1>3

\* A thought that begins (model.ts, markThinking).
LEMMA ThinkingMarked == ASSUME NEW d \in Kept PROVE Goes(d, markThinking(d), {})
<1>1. Block("thinking", <<>>) \in BlockItem
  <2>1. <<>> \in Seq(Chunk) OBVIOUS
  <2>2. QED BY <2>1 DEF Block, BlockItem, Stream
<1>2. QED BY <1>1, BlockPushed, GoesNowhere DEF markThinking

\* What an item put at the tail leaves as it was.
AtTail(d, m, x, K) ==
    /\ m.items \in Seq(Item) /\ Len(m.items) = K /\ K \in Nat /\ K > 0 /\ DOMAIN m.items = 1 .. K
    /\ m.items[K] = x /\ \A i \in 1 .. Len(d.items) : i # K => m.items[i] = d.items[i]
    /\ 1 .. Len(d.items) \subseteq 1 .. K /\ \A i \in 1 .. K : i # K => i \in 1 .. Len(d.items)
    /\ m.index = d.index /\ m.pendingWeb = d.pendingWeb /\ m.todos = d.todos /\ m.live = d.live /\ m \in Screen

\* An item pushed leaves those before it.
LEMMA PushedAtTail ==
    ASSUME NEW d \in Screen, NEW x \in Item PROVE AtTail(d, push(d, x), x, Len(d.items) + 1)
<1> DEFINE m == push(d, x)
           N == Len(d.items)
<1> HIDE DEF Item
<1>1. N \in Nat /\ d.items \in Seq(Item) /\ DOMAIN d.items = 1 .. N
  BY ScreenFields
<1>2. m = [d EXCEPT !.items = Append(d.items, x)] BY DEF push
<1>3. Append(d.items, x) \in Seq(Item) BY <1>1
<1> HIDE DEF m
<1>4. m.items = Append(d.items, x) /\ m.index = d.index /\ m.pendingWeb = d.pendingWeb
      /\ m.todos = d.todos /\ m.live = d.live /\ m \in Screen
  BY <1>2, <1>3 DEF Screen
<1>5. Len(m.items) = N + 1 /\ m.items[N + 1] = x /\ \A i \in 1 .. N : m.items[i] = d.items[i]
  BY <1>4, <1>1
<1>6. m.items \in Seq(Item) /\ DOMAIN m.items = 1 .. N + 1
  BY <1>3, <1>4, <1>5
<1> HIDE DEF N
<1>7. QED BY <1>1, <1>4, <1>5, <1>6 DEF AtTail, N, m

\* An item replaced at the end leaves those before it.
LEMMA ReplacedAtTail ==
    ASSUME NEW d \in Screen, NEW x \in Item, Len(d.items) \in DOMAIN d.items
    PROVE  AtTail(d, ReplaceLast(d, x), x, Len(d.items))
<1> DEFINE m == ReplaceLast(d, x)
           N == Len(d.items)
<1> HIDE DEF Item
<1>1. N \in Nat /\ d.items \in Seq(Item) /\ DOMAIN d.items = 1 .. N
  BY ScreenFields
<1>2. m = [d EXCEPT !.items = [d.items EXCEPT ![N] = x]] BY DEF ReplaceLast, Screen
<1>3. [d.items EXCEPT ![N] = x] \in Seq(Item) BY <1>1
<1> HIDE DEF m
<1>4. m.items = [d.items EXCEPT ![N] = x] /\ m.index = d.index /\ m.pendingWeb = d.pendingWeb
      /\ m.todos = d.todos /\ m.live = d.live /\ m \in Screen
  BY <1>2, <1>3 DEF Screen
<1>5. Len(m.items) = N /\ m.items[N] = x /\ N > 0 /\ \A i \in 1 .. N : i # N => m.items[i] = d.items[i]
  BY <1>4, <1>1
<1>6. m.items \in Seq(Item) /\ DOMAIN m.items = 1 .. N
  BY <1>3, <1>4, <1>5
<1> HIDE DEF N
<1>7. QED BY <1>1, <1>4, <1>5, <1>6 DEF AtTail, N, m

\* A card for a call (addToolCall): the last of the group at the tail.
LEMMA CallAdded ==
    ASSUME NEW d \in Kept, NEW id \in Calls
    PROVE  LET n == addToolCall(d, id)
           IN  /\ n \in Kept /\ DOMAIN n.index = DOMAIN d.index \cup {id} /\ n.live = d.live
               /\ AllNoted(d) /\ id \notin DOMAIN d.index => AllNoted(n)
               /\ HasCard(n, id) /\ Card(n, id).status = "running"
<1> DEFINE old == IF LastKind(d) = "tools" THEN Last(d.items).calls ELSE <<>>
           item == [kind |-> "tools", calls |-> Append(old, [id |-> id, status |-> "running"])]
           m == IF old = <<>> THEN push(d, item) ELSE ReplaceLast(d, item)
           n == addToolCall(d, id)
           N == Len(d.items)
           K == IF old = <<>> THEN N + 1 ELSE N
           L == Len(old) + 1
<1>0. /\ d \in Screen /\ InPlace(d) /\ OneEach(d) /\ Fresh(d)
      /\ (d.live.permission = Null <=> d.live.asked = Null)
  BY DEF Kept
<1>1. /\ N \in Nat /\ DOMAIN d.items = 1 .. N /\ d.items \in Seq(Item)
      /\ d.index \in Index /\ DOMAIN d.index \subseteq Calls
  BY <1>0, ScreenFields
<1>2. /\ old \in Seq(CallCard)
      /\ old # <<>> => N \in DOMAIN d.items /\ d.items[N].kind = "tools" /\ old = d.items[N].calls
  <2>1. CASE LastKind(d) = "tools"
    <3> HIDE DEF Item
    <3>1. N \in DOMAIN d.items /\ d.items[N].kind = "tools" /\ d.items[N] \in Item /\ Last(d.items) = d.items[N]
      BY <1>0, <2>1, LastIn
    <3>2. d.items[N] \in ToolsItem BY <3>1, ItemByKind
    <3>3. d.items[N].calls \in Seq(CallCard) BY <3>2 DEF ToolsItem
    <3>4. old = d.items[N].calls BY <2>1, <3>1
    <3> HIDE DEF old
    <3>5. QED BY <3>1, <3>3, <3>4
  <2>2. CASE LastKind(d) # "tools"
    <3>1. old = <<>> BY <2>2
    <3> HIDE DEF old
    <3>2. <<>> \in Seq(CallCard) OBVIOUS
    <3>3. QED BY <3>1, <3>2
  <2>3. QED BY <2>1, <2>2
<1>3. n = [m EXCEPT !.index = Placed(m.index, id, <<Len(m.items), Len(item.calls)>>)]
  BY DEF addToolCall
<1> HIDE DEF old, n
<1>4. [id |-> id, status |-> "running"] \in CallCard
  BY DEF CallCard, Status
<1>5. /\ item.kind = "tools" /\ item \in ToolsItem /\ Len(item.calls) = L /\ L \in Nat /\ L > 0
      /\ DOMAIN item.calls = 1 .. L /\ item.calls[L] = [id |-> id, status |-> "running"]
      /\ DOMAIN old = 1 .. L - 1 /\ \A j \in 1 .. L - 1 : item.calls[j] = old[j]
  <2> HIDE DEF CallCard
  <2>1. Append(old, [id |-> id, status |-> "running"]) \in Seq(CallCard)
    BY <1>2, <1>4
  <2>2. item.kind = "tools" /\ item \in ToolsItem
    BY <2>1 DEF ToolsItem
  <2>3. QED BY <1>2, <1>4, <2>2
<1> HIDE DEF item
<1>6. item \in Item
  BY <1>5, ItemSets
<1>7. /\ m.items \in Seq(Item) /\ Len(m.items) = K /\ K \in Nat /\ K > 0 /\ DOMAIN m.items = 1 .. K
      /\ m.items[K] = item /\ \A i \in 1 .. N : i # K => m.items[i] = d.items[i]
      /\ 1 .. N \subseteq 1 .. K /\ \A i \in 1 .. K : i # K => i \in 1 .. N
      /\ m.index = d.index /\ m.pendingWeb = d.pendingWeb /\ m.todos = d.todos /\ m.live = d.live /\ m \in Screen
  <2>1. CASE old = <<>>
    <3>1. m = push(d, item) /\ K = N + 1 BY <2>1
    <3> HIDE DEF m, K
    <3>2. AtTail(d, m, item, K) BY <3>1, <1>0, <1>6, PushedAtTail
    <3>3. QED BY <3>2 DEF AtTail
  <2>2. CASE old # <<>>
    <3>1. m = ReplaceLast(d, item) /\ K = N BY <2>2
    <3> HIDE DEF m, K
    <3>2. AtTail(d, m, item, K) BY <2>2, <3>1, <1>0, <1>2, <1>6, ReplacedAtTail
    <3>3. QED BY <3>2 DEF AtTail
  <2>3. QED BY <2>1, <2>2
<1>8. \A j \in 1 .. L - 1 : K = N /\ K \in DOMAIN d.items /\ d.items[K].kind = "tools"
         /\ old = d.items[K].calls /\ j \in DOMAIN d.items[K].calls /\ item.calls[j] = d.items[K].calls[j]
  BY <1>2, <1>5
<1>9. K \in 1 .. N => d.items[K].kind = "tools" /\ old = d.items[K].calls
  BY <1>1, <1>2
<1> HIDE DEF m, K, L
<1>10. /\ n.items = m.items /\ n.live = d.live /\ n.todos = d.todos /\ n.pendingWeb = d.pendingWeb
       /\ n.index = [c \in DOMAIN d.index \cup {id} |-> IF c = id THEN <<K, L>> ELSE d.index[c]]
       /\ n = [items |-> m.items, index |-> n.index, pendingWeb |-> d.pendingWeb, todos |-> d.todos, live |-> d.live]
  BY <1>3, <1>5, <1>7 DEF Placed, Screen
<1>11. n.index \in Index
  <2>1. \A c \in DOMAIN d.index : d.index[c] \in Nat \X Nat BY <1>0, ScreenFields
  <2>2. <<K, L>> \in Nat \X Nat BY <1>5, <1>7
  <2>3. n.index \in [DOMAIN d.index \cup {id} -> Nat \X Nat] BY <1>10, <2>1, <2>2
  <2>4. DOMAIN d.index \cup {id} \in SUBSET Calls BY <1>1
  <2>5. QED BY <2>3, <2>4 DEF Index
<1>12. n \in Screen
  BY <1>0, <1>7, <1>10, <1>11, ScreenFields DEF Screen
<1>13. InPlace(n)
  <2>1. ASSUME NEW c \in DOMAIN n.index, n.index[c][1] > 0
        PROVE  /\ n.index[c][1] \in DOMAIN n.items /\ n.items[n.index[c][1]].kind = "tools"
               /\ n.index[c][2] \in DOMAIN n.items[n.index[c][1]].calls
               /\ n.items[n.index[c][1]].calls[n.index[c][2]].id = c
    <3>1. CASE c = id
      <4>1. n.index[c] = <<K, L>> BY <3>1, <1>10
      <4>2. K \in DOMAIN n.items /\ n.items[K] = item BY <1>7, <1>10
      <4>3. item.kind = "tools" /\ L \in DOMAIN item.calls /\ item.calls[L].id = id BY <1>5
      <4>4. QED BY <3>1, <4>1, <4>2, <4>3
    <3>2. CASE c # id
      <4> DEFINE i == d.index[c][1]
                 j == d.index[c][2]
      <4>1. c \in DOMAIN d.index /\ n.index[c] = d.index[c] BY <3>2, <1>10
      <4>2. i \in DOMAIN d.items /\ d.items[i].kind = "tools" /\ j \in DOMAIN d.items[i].calls /\ d.items[i].calls[j].id = c
        BY <4>1, <2>1, <1>0 DEF InPlace, Card
      <4>3. n.index[c][1] = i /\ n.index[c][2] = j BY <4>1
      <4> HIDE DEF i, j
      <4>4. CASE i = K
        <5>1. j \in 1 .. L - 1 BY <4>2, <4>4, <1>1, <1>5, <1>9
        <5>2. j \in 1 .. L /\ item.calls[j] = d.items[i].calls[j] BY <5>1, <4>4, <1>5, <1>8
        <5>3. QED BY <4>2, <4>3, <4>4, <5>2, <1>5, <1>7, <1>10
      <4>5. CASE i # K BY <4>2, <4>3, <4>5, <1>1, <1>7, <1>10
      <4>6. QED BY <4>4, <4>5
    <3>3. QED BY <3>1, <3>2
  <2>2. QED BY <2>1 DEF InPlace, Card
<1>14. \A i \in DOMAIN n.items : n.items[i].kind # "tools" => i \in DOMAIN d.items /\ n.items[i] = d.items[i]
  BY <1>1, <1>5, <1>7, <1>10
<1>15. OneEach(n)
  BY <1>0, <1>14 DEF OneEach
<1>16. Fresh(n)
  <2>1. ASSUME NEW k \in DOMAIN d.items, LastTodo(d, k) PROVE LastTodo(n, k) /\ n.items[k] = d.items[k] /\ k \in DOMAIN n.items
    <3>1. k \in 1 .. N /\ k # K BY <2>1, <1>1, <1>9 DEF LastTodo
    <3>2. n.items[k] = d.items[k] /\ k \in DOMAIN n.items BY <3>1, <1>7, <1>10
    <3>3. QED BY <2>1, <3>2, <1>14 DEF LastTodo
  <2>2. QED BY <2>1, <1>0, <1>10 DEF Fresh
<1>17. ASSUME AllNoted(d), id \notin DOMAIN d.index PROVE AllNoted(n)
  <2>1. ASSUME NEW i \in DOMAIN n.items, n.items[i].kind = "tools", NEW j \in DOMAIN n.items[i].calls
        PROVE  n.items[i].calls[j].id \in DOMAIN n.index /\ n.index[n.items[i].calls[j].id] = <<i, j>>
    <3>1. CASE i = K /\ j = L
      <4>1. n.items[K] = item BY <1>7, <1>10
      <4>2. item.calls[L].id = id BY <1>5
      <4>3. id \in DOMAIN n.index /\ n.index[id] = <<K, L>> BY <1>10
      <4>4. n.items[i].calls[j].id = id BY <3>1, <4>1, <4>2
      <4>5. QED BY <3>1, <4>3, <4>4
    <3>2. CASE ~(i = K /\ j = L)
      <4>1. i \in DOMAIN d.items /\ d.items[i].kind = "tools" /\ j \in DOMAIN d.items[i].calls /\ d.items[i].calls[j] = n.items[i].calls[j]
        <5>1. CASE i = K
          <6>1. j \in 1 .. L - 1 BY <5>1, <3>2, <2>1, <1>5, <1>7, <1>10
          <6>2. QED BY <5>1, <6>1, <1>7, <1>8, <1>10
        <5>2. CASE i # K BY <5>2, <2>1, <1>1, <1>7, <1>10
        <5>3. QED BY <5>1, <5>2
      <4>2. d.items[i].calls[j].id \in DOMAIN d.index /\ d.index[d.items[i].calls[j].id] = <<i, j>>
        BY <4>1, <1>17 DEF AllNoted
      <4>3. /\ n.items[i].calls[j].id \in DOMAIN d.index
            /\ d.index[n.items[i].calls[j].id] = <<i, j>>
        BY <4>1, <4>2
      <4>4. \A c \in DOMAIN d.index : c \in DOMAIN n.index /\ n.index[c] = d.index[c]
        BY <1>10, <1>17
      <4>5. QED BY <4>3, <4>4
    <3>3. QED BY <3>1, <3>2
  <2>2. QED BY <2>1 DEF AllNoted
<1>18. HasCard(n, id) /\ Card(n, id).status = "running"
  BY <1>5, <1>7, <1>10 DEF HasCard, Card
<1>19. n \in Kept
  BY <1>0, <1>10, <1>12, <1>13, <1>15, <1>16 DEF Kept
<1>20. DOMAIN n.index = DOMAIN d.index \cup {id}
  BY <1>10
<1>21. QED BY <1>10, <1>17, <1>18, <1>19, <1>20 DEF n

-----------------------------------------------------------------------------
(* The task list.                                                          *)

\* The list of tasks after a create or an update is one (model.ts, applyTodoTool).
LEMMA ListTaskType ==
    ASSUME NEW todos \in Seq(TodoTask), NEW key \in {"call", "number"} \X Calls, NEW status \in {"pending", "deleted"}
    PROVE  ListTask(todos, key, status) \in Seq(TodoTask)
<1> DEFINE place == {i \in DOMAIN todos : todos[i].key = key}
           new == IF place = {} THEN Append(todos, [key |-> key, status |-> status])
                  ELSE [todos EXCEPT ![Min(place)].status = status]
<1>1. new \in Seq(TodoTask)
  <2>1. CASE place = {}
    <3>1. [key |-> key, status |-> status] \in TodoTask BY DEF TodoTask
    <3>2. QED BY <2>1, <3>1
  <2>2. CASE place # {}
    <3> DEFINE k == Min(place)
    <3>1. k \in place
      <4>1. place \subseteq Nat OBVIOUS
      <4> HIDE DEF place
      <4>2. QED BY <4>1, <2>2, MinIn
    <3>2. k \in DOMAIN todos /\ todos[k] \in TodoTask BY <3>1
    <3>3. new = [todos EXCEPT ![k] = [todos[k] EXCEPT !.status = status]] BY <2>2
    <3> HIDE DEF k, new
    <3>4. [todos[k] EXCEPT !.status = status] \in TodoTask BY <3>2 DEF TodoTask
    <3>5. QED BY <3>2, <3>3, <3>4
  <2>3. QED BY <2>1, <2>2
<1>2. ListTask(todos, key, status) = SubseqAt(new, {i \in DOMAIN new : new[i].status # "deleted"})
  BY DEF ListTask
<1> HIDE DEF new
<1>3. QED BY <1>1, <1>2, SubseqAtType

\* Nothing but the lists among the items changes.
LEMMA ListsAside ==
    ASSUME NEW d \in Kept, NEW n \in Screen, n.index = d.index, n.live = d.live, Fresh(n),
           \A i \in DOMAIN n.items : n.items[i].kind # "todo" => i \in DOMAIN d.items /\ n.items[i] = d.items[i],
           \A i \in DOMAIN d.items : d.items[i].kind # "todo" => i \in DOMAIN n.items /\ n.items[i] = d.items[i]
    PROVE  /\ n \in Kept /\ (AllNoted(d) => AllNoted(n))
           /\ \A c : HasCard(d, c) => HasCard(n, c) /\ Card(n, c) = Card(d, c)
<1>0. InPlace(d) /\ OneEach(d) /\ (d.live.permission = Null <=> d.live.asked = Null)
  BY DEF Kept
<1>1. ASSUME NEW c \in DOMAIN d.index, d.index[c][1] > 0
      PROVE  d.index[c][1] \in DOMAIN n.items /\ n.items[d.index[c][1]] = d.items[d.index[c][1]]
  <2>1. d.index[c][1] \in DOMAIN d.items /\ d.items[d.index[c][1]].kind # "todo"
    BY <1>0, <1>1 DEF InPlace
  <2>2. QED BY <2>1
<1>2. \A c : HasCard(d, c) => HasCard(n, c) /\ Card(n, c) = Card(d, c)
  BY <1>1 DEF HasCard, Card
<1>3. InPlace(n)
  <2>1. ASSUME NEW c \in DOMAIN n.index, n.index[c][1] > 0
        PROVE  /\ n.index[c][1] \in DOMAIN n.items /\ n.items[n.index[c][1]].kind = "tools"
               /\ n.index[c][2] \in DOMAIN n.items[n.index[c][1]].calls
               /\ Card(n, c).id = c
    <3>1. c \in DOMAIN d.index /\ d.index[c] = n.index[c] BY <2>1
    <3>2. /\ d.items[d.index[c][1]].kind = "tools"
          /\ d.index[c][2] \in DOMAIN d.items[d.index[c][1]].calls
          /\ Card(d, c).id = c
      BY <1>0, <2>1, <3>1 DEF InPlace
    <3>3. d.index[c][1] \in DOMAIN n.items /\ n.items[d.index[c][1]] = d.items[d.index[c][1]]
      BY <1>1, <2>1, <3>1
    <3>4. Card(n, c) = Card(d, c) BY <3>1, <3>3 DEF Card
    <3>5. QED BY <3>1, <3>2, <3>3, <3>4
  <2>2. QED BY <2>1 DEF InPlace
<1>4. OneEach(n)
  BY <1>0 DEF OneEach
<1>5. ASSUME AllNoted(d) PROVE AllNoted(n)
  <2>1. ASSUME NEW i \in DOMAIN n.items, n.items[i].kind = "tools", NEW j \in DOMAIN n.items[i].calls
        PROVE  n.items[i].calls[j].id \in DOMAIN d.index /\ d.index[n.items[i].calls[j].id] = <<i, j>>
    <3>1. i \in DOMAIN d.items /\ n.items[i] = d.items[i] BY <2>1
    <3>2. d.items[i].kind = "tools" /\ j \in DOMAIN d.items[i].calls BY <2>1, <3>1
    <3>3. d.items[i].calls[j].id \in DOMAIN d.index /\ d.index[d.items[i].calls[j].id] = <<i, j>>
      BY <1>5, <3>1, <3>2 DEF AllNoted
    <3>4. QED BY <3>1, <3>3
  <2>2. QED BY <2>1 DEF AllNoted
<1>6. QED BY <1>0, <1>2, <1>3, <1>4, <1>5 DEF Kept

\* The list becomes todos, and the card at the tail shows it.
LEMMA SnapshotKept ==
    ASSUME NEW d \in Kept, NEW todos \in Seq(TodoTask)
    PROVE  LET n == snapshotTodos([d EXCEPT !.todos = todos])
           IN  /\ n \in Kept /\ n.index = d.index /\ n.live = d.live
               /\ AllNoted(d) => AllNoted(n)
               /\ \A c : HasCard(d, c) => HasCard(n, c) /\ Card(n, c) = Card(d, c)
<1> DEFINE e == [d EXCEPT !.todos = todos]
           x == [kind |-> "todo", tasks |-> todos]
           n == snapshotTodos(e)
           N == Len(d.items)
           K == IF LastKind(e) = "todo" THEN N ELSE N + 1
<1>0. d \in Screen /\ InPlace(d) /\ OneEach(d) /\ (d.live.permission = Null <=> d.live.asked = Null)
  BY DEF Kept
<1>1. e \in Screen /\ e.items = d.items /\ e.index = d.index /\ e.live = d.live /\ e.todos = todos
  BY <1>0 DEF Screen
<1>2. x \in Item /\ x.kind = "todo" /\ x.tasks = todos
  BY ItemSets DEF TodoItem
<1>3. n = IF LastKind(e) = "todo" THEN ReplaceLast(e, x) ELSE push(e, x)
  BY <1>1 DEF snapshotTodos
<1> HIDE DEF e, x, n, N
<1>4. N \in Nat /\ DOMAIN d.items = 1 .. N
  BY <1>0, ScreenFields DEF N
<1>5. AtTail(e, n, x, K) /\ (K \in 1 .. N => d.items[K].kind = "todo")
  <2>1. CASE LastKind(e) = "todo"
    <3>1. Len(e.items) \in DOMAIN e.items /\ e.items[Len(e.items)].kind = "todo" BY <2>1, <1>1, LastIn
    <3>2. n = ReplaceLast(e, x) /\ K = N BY <2>1, <1>3
    <3>3. AtTail(e, ReplaceLast(e, x), x, Len(e.items)) BY <3>1, <1>1, <1>2, ReplacedAtTail
    <3>4. QED BY <3>1, <3>2, <3>3, <1>1 DEF N
  <2>2. CASE LastKind(e) # "todo"
    <3>1. n = push(e, x) /\ K = N + 1 BY <2>2, <1>3
    <3>2. AtTail(e, push(e, x), x, Len(e.items) + 1) BY <1>1, <1>2, PushedAtTail
    <3>3. QED BY <3>1, <3>2, <1>1, <1>4 DEF N
  <2>3. QED BY <2>1, <2>2
<1> HIDE DEF K
<1>6. /\ K \in Nat /\ DOMAIN n.items = 1 .. K /\ n.items[K] = x /\ K > 0
      /\ \A i \in 1 .. N : i # K => n.items[i] = d.items[i]
      /\ 1 .. N \subseteq 1 .. K /\ \A i \in 1 .. K : i # K => i \in 1 .. N
      /\ n.index = d.index /\ n.todos = todos /\ n.live = d.live /\ n \in Screen
  BY <1>1, <1>5 DEF AtTail, N
<1>7. \A i \in DOMAIN n.items : n.items[i].kind # "todo" => i \in DOMAIN d.items /\ n.items[i] = d.items[i]
  BY <1>2, <1>4, <1>6
<1>8. \A i \in DOMAIN d.items : d.items[i].kind # "todo" => i \in DOMAIN n.items /\ n.items[i] = d.items[i]
  BY <1>4, <1>5, <1>6
<1>9. Fresh(n)
  <2>1. LastTodo(n, K) /\ n.items[K].tasks = n.todos /\ K \in DOMAIN n.items
    BY <1>2, <1>6 DEF LastTodo
  <2>2. QED BY <2>1 DEF Fresh
<1>10. QED BY <1>6, <1>7, <1>8, <1>9, ListsAside DEF n, e

\* A todo call is noted at no item and the list shown anew (model.ts, applyTodoTool, snapshotTodos).
LEMMA TodoToolApplied ==
    ASSUME NEW d \in Kept, NEW b \in ToolBlocks, b.tool \in {"create", "update"}
    PROVE  Goes(d, applyTodoTool(d, b), {b.id})
<1> DEFINE key == IF b.tool = "create" THEN ById(b.id) ELSE ByNumber(b.task)
           todos == ListTask(d.todos, key, b.status)
           m == snapshotTodos([d EXCEPT !.todos = todos])
           n == applyTodoTool(d, b)
<1>1. b.id \in Calls /\ key \in {"call", "number"} \X Calls /\ b.status \in {"pending", "deleted"}
  BY DEF ToolBlocks, ById, ByNumber
<1>2. d \in Screen
  BY DEF Kept
<1>3. n = [m EXCEPT !.index = Placed(m.index, b.id, <<0, 0>>)]
  BY DEF applyTodoTool
<1>4. todos \in Seq(TodoTask)
  <2> HIDE DEF key
  <2>1. QED BY <1>1, <1>2, ScreenFields, ListTaskType
<1> HIDE DEF todos, n
<1>5. /\ m \in Kept /\ m.index = d.index /\ m.live = d.live
      /\ AllNoted(d) => AllNoted(m)
      /\ \A c : HasCard(d, c) => HasCard(m, c) /\ Card(m, c) = Card(d, c)
  BY <1>4, SnapshotKept
<1> HIDE DEF m
<1>6. m \in Screen /\ InPlace(m) /\ OneEach(m) /\ Fresh(m) /\ (m.live.permission = Null <=> m.live.asked = Null)
  BY <1>5 DEF Kept
<1>7. /\ n.items = m.items /\ n.live = m.live /\ n.todos = m.todos
      /\ n.index = [c \in DOMAIN m.index \cup {b.id} |-> IF c = b.id THEN <<0, 0>> ELSE m.index[c]]
  BY <1>3, <1>6 DEF Placed, Screen
<1>8. n \in Screen
  <2>1. \A c \in DOMAIN m.index : m.index[c] \in Nat \X Nat BY <1>6, ScreenFields
  <2>2. n.index \in [DOMAIN m.index \cup {b.id} -> Nat \X Nat] BY <1>7, <2>1
  <2>3. DOMAIN m.index \cup {b.id} \in SUBSET Calls BY <1>1, <1>6, ScreenFields
  <2>4. n.index \in Index BY <2>2, <2>3 DEF Index
  <2>5. n = [m EXCEPT !.index = n.index] BY <1>3, <1>6 DEF Screen
  <2>6. QED BY <1>6, <2>4, <2>5 DEF Screen
<1>9. InPlace(n)
  <2>1. ASSUME NEW c \in DOMAIN n.index, n.index[c][1] > 0
        PROVE  /\ n.index[c][1] \in DOMAIN n.items /\ n.items[n.index[c][1]].kind = "tools"
               /\ n.index[c][2] \in DOMAIN n.items[n.index[c][1]].calls
               /\ n.items[n.index[c][1]].calls[n.index[c][2]].id = c
    <3>1. c # b.id BY <2>1, <1>7
    <3>2. c \in DOMAIN m.index /\ n.index[c] = m.index[c] BY <3>1, <1>7
    <3>3. QED BY <2>1, <3>2, <1>6, <1>7 DEF InPlace, Card
  <2>2. QED BY <2>1 DEF InPlace, Card
<1>10. OneEach(n) /\ Fresh(n)
  BY <1>6, <1>7 DEF OneEach, Fresh, LastTodo
<1>11. n \in Kept
  BY <1>6, <1>7, <1>8, <1>9, <1>10 DEF Kept
<1>12. ASSUME Exact(d), b.id \notin DOMAIN d.index PROVE Exact(n)
  <2>1. AllNoted(n)
    <3>1. AllNoted(m) BY <1>12, <1>5 DEF Exact
    <3>2. \A c \in DOMAIN m.index : c \in DOMAIN n.index /\ n.index[c] = m.index[c]
      BY <1>5, <1>7, <1>12
    <3>3. ASSUME NEW i \in DOMAIN n.items, n.items[i].kind = "tools", NEW j \in DOMAIN n.items[i].calls
          PROVE  n.items[i].calls[j].id \in DOMAIN n.index /\ n.index[n.items[i].calls[j].id] = <<i, j>>
      <4>1. m.items[i].calls[j].id \in DOMAIN m.index /\ m.index[m.items[i].calls[j].id] = <<i, j>>
        <5>1. n.items = m.items BY <1>7
        <5>2. i \in DOMAIN m.items /\ m.items[i].kind = "tools" /\ j \in DOMAIN m.items[i].calls BY <3>3, <5>1
        <5>3. QED BY <5>2, <3>1 DEF AllNoted
      <4>2. QED BY <4>1, <3>2, <1>7
    <3>4. QED BY <3>3 DEF AllNoted
  <2>2. ASSUME NEW c, HasCard(d, c) PROVE HasCard(n, c) /\ Card(n, c) = Card(d, c)
    <3>1. HasCard(m, c) /\ Card(m, c) = Card(d, c) BY <2>2, <1>5
    <3>2. c \in DOMAIN m.index BY <3>1 DEF HasCard
    <3>3. c \in DOMAIN n.index /\ n.index[c] = m.index[c] BY <3>2, <1>5, <1>7, <1>12
    <3>4. QED BY <3>1, <3>3, <1>7 DEF HasCard, Card
  <2>3. LineOpen(n)
    BY <2>2, <1>5, <1>7, <1>12 DEF Exact, LineOpen
  <2>4. QED BY <2>1, <2>3 DEF Exact
<1>13. DOMAIN n.index \subseteq DOMAIN d.index \cup {b.id}
  BY <1>5, <1>7
<1>14. QED BY <1>11, <1>12, <1>13 DEF Goes, n

\* A task learns its number, and the newest list shows it.
LEMMA TodoIdLearned ==
    ASSUME NEW d \in Kept, NEW id \in Calls PROVE Goes(d, learnTodoId(d, id), {})
<1> DEFINE todos == [i \in DOMAIN d.todos |->
                       IF d.todos[i].key = ById(id) THEN [d.todos[i] EXCEPT !.key = ByNumber(id)] ELSE d.todos[i]]
           m == learnTodoIdOnly(d, id)
           lists == Positions(d, "todo")
           n == learnTodoId(d, id)
<1>0. d \in Screen /\ Fresh(d)
  BY DEF Kept
<1>1. todos \in Seq(TodoTask) /\ (d.todos = <<>> => todos = <<>>)
  <2>1. d.todos \in Seq(TodoTask) BY <1>0, ScreenFields
  <2>2. ASSUME NEW i \in DOMAIN d.todos PROVE todos[i] \in TodoTask
    <3>1. d.todos[i] \in TodoTask BY <2>1
    <3>2. QED BY <3>1 DEF TodoTask, ByNumber
  <2>3. todos = [i \in DOMAIN d.todos |-> todos[i]] OBVIOUS
  <2> HIDE DEF todos
  <2>4. todos \in Seq(TodoTask) /\ Len(todos) = Len(d.todos) BY <2>1, <2>2, <2>3, MappedSeq
  <2>5. QED BY <2>1, <2>4
<1>2. m = [d EXCEPT !.todos = todos]
  BY DEF learnTodoIdOnly
<1> HIDE DEF todos
<1>3. /\ m \in Screen /\ m.items = d.items /\ m.index = d.index /\ m.live = d.live /\ m.todos = todos
      /\ Positions(m, "todo") = lists
  BY <1>0, <1>1, <1>2 DEF Screen, Positions
<1>4. n = IF m = d \/ lists = {} THEN m ELSE [m EXCEPT !.items[Max(lists)].tasks = m.todos]
  BY DEF learnTodoId
<1> HIDE DEF m, n
<1>5. CASE m = d
  BY <1>4, <1>5, GoesNowhere DEF n
<1>6. CASE m # d /\ lists = {}
  <2>1. ASSUME d.todos # <<>> PROVE FALSE
    <3>1. PICK k \in DOMAIN d.items : LastTodo(d, k) BY <2>1, <1>0 DEF Fresh
    <3>2. k \in lists BY <3>1 DEF LastTodo, Positions
    <3>3. QED BY <3>2, <1>6
  <2>2. n = m /\ m.todos = d.todos BY <2>1, <1>1, <1>3, <1>4, <1>6
  <2>3. d.live.permission = Null <=> d.live.asked = Null BY DEF Kept
  <2>4. Goes(d, m, {}) BY <2>2, <2>3, <1>3, AsideKept
  <2>5. QED BY <2>2, <2>4 DEF n
<1>7. CASE m # d /\ lists # {}
  <2> DEFINE k == Max(lists)
             x == [d.items[k] EXCEPT !.tasks = todos]
  <2>1. k \in lists /\ \A i \in lists : k >= i
    <3>1. lists \subseteq 1 .. Len(d.items) /\ Len(d.items) \in Nat BY <1>0, PositionsIn, ScreenFields
    <3> HIDE DEF lists
    <3>2. QED BY <3>1, <1>7, MaxIn
  <2>2. k \in DOMAIN d.items /\ d.items[k] \in TodoItem
    <3> HIDE DEF Item, k
    <3>1. k \in DOMAIN d.items /\ d.items[k].kind = "todo" /\ d.items[k] \in Item
      BY <2>1, <1>0, PositionsIn
    <3>2. QED BY <3>1, ItemByKind
  <2>3. n = [m EXCEPT !.items = [d.items EXCEPT ![k] = x]]
    BY <1>3, <1>4, <1>7 DEF Screen
  <2>4. \A i \in DOMAIN d.items : d.items[i].kind = "todo" => i <= k
    <3>1. \A i \in DOMAIN d.items : d.items[i].kind = "todo" => i \in lists BY DEF Positions
    <3> HIDE DEF lists, k
    <3>2. lists \subseteq Nat BY <1>0, PositionsIn DEF lists
    <3>3. QED BY <2>1, <3>1, <3>2
  <2> HIDE DEF k
  <2>5. x \in TodoItem /\ x.kind = "todo" /\ x.tasks = todos
    BY <2>2, <1>1 DEF TodoItem
  <2> HIDE DEF x
  <2>6. [d.items EXCEPT ![k] = x] \in Seq(Item)
    <3> HIDE DEF Item
    <3>1. x \in Item /\ d.items \in Seq(Item) BY <2>5, ItemSets, <1>0, ScreenFields
    <3>2. QED BY <3>1, <2>2
  <2>7. /\ n \in Screen /\ n.index = d.index /\ n.live = d.live /\ n.todos = todos
        /\ n.items = [d.items EXCEPT ![k] = x]
    BY <2>3, <2>6, <1>3 DEF Screen
  <2>8. DOMAIN n.items = DOMAIN d.items /\ n.items[k] = x /\ \A i \in DOMAIN d.items : i # k => n.items[i] = d.items[i]
    BY <2>2, <2>7
  <2>9. d.items[k].kind = "todo"
    BY <2>2 DEF TodoItem
  <2>10. Fresh(n)
    <3>1. DOMAIN d.items \subseteq Nat /\ k \in Nat BY <1>0, <2>2, ScreenFields
    <3>2. LastTodo(n, k) BY <2>2, <2>4, <2>5, <2>8, <3>1 DEF LastTodo
    <3>3. QED BY <2>2, <2>5, <2>7, <2>8, <3>2 DEF Fresh
  <2>11. /\ \A i \in DOMAIN n.items : n.items[i].kind # "todo" => i \in DOMAIN d.items /\ n.items[i] = d.items[i]
         /\ \A i \in DOMAIN d.items : d.items[i].kind # "todo" => i \in DOMAIN n.items /\ n.items[i] = d.items[i]
    BY <2>5, <2>8, <2>9
  <2>12. /\ n \in Kept /\ (AllNoted(d) => AllNoted(n))
         /\ \A c : HasCard(d, c) => HasCard(n, c) /\ Card(n, c) = Card(d, c)
    BY <2>7, <2>10, <2>11, ListsAside
  <2>13. LineOpen(d) => LineOpen(n)
    BY <2>7, <2>12 DEF LineOpen
  <2>14. QED BY <2>7, <2>12, <2>13 DEF Goes, Exact, n
<1>8. QED BY <1>5, <1>6, <1>7

\* What a step announces may be stated with calls to spare.
LEMMA Wider == ASSUME NEW d, NEW n, NEW S, NEW T, Goes(d, n, S), S \subseteq T PROVE Goes(d, n, T)
BY DEF Goes

\* Beside the items anything may change.
LEMMA BesideKept ==
    ASSUME NEW d \in Kept, NEW n \in Screen, n.items = d.items, n.index = d.index, n.todos = d.todos,
           n.live.permission = Null <=> n.live.asked = Null
    PROVE  n \in Kept /\ (AllNoted(d) => AllNoted(n))
<1>1. Alike(d, n)
  BY DEF Alike, AlikeItem
<1>2. QED BY <1>1, AlikeKept

\* A plain call gets its card and the line.
LEMMA CallStarted ==
    ASSUME NEW d \in Kept, NEW id \in Calls
    PROVE  Goes(d, [addToolCall(d, id) EXCEPT !.live.running = id], {id})
<1> DEFINE m == addToolCall(d, id)
           n == [m EXCEPT !.live.running = id]
<1>1. /\ m \in Kept /\ DOMAIN m.index = DOMAIN d.index \cup {id}
      /\ AllNoted(d) /\ id \notin DOMAIN d.index => AllNoted(m)
      /\ HasCard(m, id) /\ Card(m, id).status = "running"
  BY CallAdded
<1> HIDE DEF m
<1>2. m \in Screen /\ (m.live.permission = Null <=> m.live.asked = Null)
  BY <1>1 DEF Kept
<1>3. /\ n \in Screen /\ n.items = m.items /\ n.index = m.index /\ n.todos = m.todos
      /\ n.live.running = id /\ n.live.permission = m.live.permission /\ n.live.asked = m.live.asked
  BY <1>2 DEF Screen, Live
<1> HIDE DEF n
<1>4. n \in Kept /\ (AllNoted(m) => AllNoted(n))
  BY <1>1, <1>2, <1>3, BesideKept
<1>5. LineOpen(n)
  BY <1>1, <1>3 DEF LineOpen, HasCard, Card, Open
<1>6. QED BY <1>1, <1>3, <1>4, <1>5 DEF Goes, Exact, n, m

\* A call gets its card and its place, or only its place, and is announced (model.ts, assistant, tool_use).
LEMMA ToolUsed ==
    ASSUME NEW d \in Kept, NEW b \in ToolBlocks, NEW isHistory \in BOOLEAN
    PROVE  Goes(d, ToolUse(d, b, isHistory), {b.id})
<1> DEFINE quiet == IF isHistory THEN d ELSE [d EXCEPT !.live.thinking = FALSE]
           armed == IF isHistory THEN quiet ELSE [quiet EXCEPT !.live.busy = TRUE]
<1>1. b.id \in Calls /\ b.tool \in {"plain", "hidden", "question", "create", "update"}
  BY DEF ToolBlocks
<1>2. Goes(d, quiet, {}) /\ quiet \in Kept
  BY CompactedKept, GoesNowhere DEF Goes
<1>3. Goes(quiet, armed, {})
  <2> HIDE DEF quiet
  <2>1. QED BY <1>2, CompactedKept, GoesNowhere
<1>4. ToolUse(d, b, isHistory) =
        IF b.tool \in {"hidden", "question"} THEN quiet
        ELSE IF b.tool = "plain" THEN [addToolCall(armed, b.id) EXCEPT !.live.running = b.id]
        ELSE applyTodoTool(armed, b)
  <2> HIDE DEF quiet, armed
  <2>1. ToolUse(d, b, isHistory) =
          CASE b.tool \in {"hidden", "question"} -> quiet
            [] b.tool \in {"create", "update"}   -> applyTodoTool(armed, b)
            [] b.tool = "plain" -> [addToolCall(armed, b.id) EXCEPT !.live.running = b.id]
    BY DEF ToolUse, quiet, armed
  <2>2. QED BY <1>1, <2>1
<1> HIDE DEF quiet, armed
<1>5. Goes(d, armed, {}) /\ armed \in Kept
  BY <1>2, <1>3, Then DEF Goes
<1>6. ASSUME NEW n, Goes(armed, n, {b.id}) PROVE Goes(d, n, {b.id})
  <2>1. {} \cap {b.id} = {} /\ {} \cup {b.id} = {b.id} OBVIOUS
  <2>2. QED BY <1>5, <1>6, <2>1, GoesOn
<1>7. CASE b.tool \in {"hidden", "question"}
  BY <1>2, <1>4, <1>7, Wider
<1>8. CASE b.tool = "plain"
  BY <1>1, <1>4, <1>5, <1>6, <1>8, CallStarted
<1>9. CASE b.tool \in {"create", "update"}
  BY <1>4, <1>5, <1>6, <1>9, TodoToolApplied
<1>10. QED BY <1>1, <1>7, <1>8, <1>9

\* Each block of a message announces its call, if it is one (model.ts, assistant).
LEMMA BlockKept ==
    ASSUME NEW d \in Kept, NEW b \in TextBlocks \cup ToolBlocks, NEW isHistory \in BOOLEAN
    PROVE  Goes(d, AssistantBlock(d, b, isHistory), Announced(b))
<1> DEFINE Thinking(t) == IF isHistory THEN d ELSE [d EXCEPT !.live.thinking = t]
<1>1. \A t \in BOOLEAN : Goes(d, Thinking(t), {}) /\ Thinking(t) \in Kept
  BY CompactedKept, GoesNowhere DEF Goes
<1>2. CASE b \in ToolBlocks
  <2>1. b.type = "tool_use" BY <1>2 DEF ToolBlocks
  <2>2. AssistantBlock(d, b, isHistory) = ToolUse(d, b, isHistory) BY <2>1 DEF AssistantBlock
  <2>3. QED BY <1>2, <2>1, <2>2, ToolUsed DEF Announced
<1>3. CASE b \in TextBlocks
  <2>1. b.type \in {"text", "thinking"} /\ b.text \in Seq(Chunk) BY <1>3 DEF TextBlocks
  <2>2. Announced(b) = {} BY <2>1 DEF Announced
  <2>3. /\ b.type = "text" => AssistantBlock(d, b, isHistory) = settleStreamed(Thinking(FALSE), "prose", b.text)
        /\ b.type = "thinking" /\ b.text # <<>> =>
              AssistantBlock(d, b, isHistory) = settleStreamed(Thinking(TRUE), "thinking", b.text)
        /\ b.type = "thinking" /\ b.text = <<>> => AssistantBlock(d, b, isHistory) = markThinking(Thinking(TRUE))
    BY <2>1 DEF AssistantBlock
  <2> HIDE DEF Thinking
  <2>4. Goes(Thinking(FALSE), settleStreamed(Thinking(FALSE), "prose", b.text), {})
    BY <1>1, <2>1, StreamedSettled DEF Stream
  <2>5. Goes(Thinking(TRUE), settleStreamed(Thinking(TRUE), "thinking", b.text), {})
    BY <1>1, <2>1, StreamedSettled DEF Stream
  <2>6. Goes(Thinking(TRUE), markThinking(Thinking(TRUE)), {})
    BY <1>1, ThinkingMarked
  <2>7. Goes(d, Thinking(FALSE), {}) /\ Goes(d, Thinking(TRUE), {})
    BY <1>1
  <2>8. CASE b.type = "text"
    <3>1. AssistantBlock(d, b, isHistory) = settleStreamed(Thinking(FALSE), "prose", b.text) BY <2>3, <2>8
    <3>2. QED BY <2>2, <2>4, <2>7, <3>1, Then
  <2>9. CASE b.type = "thinking" /\ b.text # <<>>
    <3>1. AssistantBlock(d, b, isHistory) = settleStreamed(Thinking(TRUE), "thinking", b.text) BY <2>3, <2>9
    <3>2. QED BY <2>2, <2>5, <2>7, <3>1, Then
  <2>10. CASE b.type = "thinking" /\ b.text = <<>>
    <3>1. AssistantBlock(d, b, isHistory) = markThinking(Thinking(TRUE)) BY <2>3, <2>10
    <3>2. QED BY <2>2, <2>6, <2>7, <3>1, Then
  <2>11. QED BY <2>1, <2>8, <2>9, <2>10
<1>4. QED BY <1>2, <1>3

\* A fold of such steps, each announcing its part of the calls.
GoesBy(a, U, n) ==
    /\ \A i \in 1 .. n : Goes(a[i - 1], a[i], U[i])
    /\ \A i, j \in 1 .. n : U[i] \cap U[j] # {} => i = j
AllOf(U, n) == UNION {U[i] : i \in 1 .. n}

\* A fold of such steps announces the calls of all, when no two announce the same.
LEMMA FoldGoes ==
    ASSUME NEW d \in Kept, NEW E, NEW s \in Seq(E), NEW g, NEW a, Results(a, Kept, s, d, g),
           NEW U, GoesBy(a, U, Len(s))
    PROVE  Goes(d, a[Len(s)], AllOf(U, Len(s)))
<1> USE DEF GoesBy, AllOf
<1> DEFINE n == Len(s)
           Before(i) == UNION {U[j] : j \in 1 .. i}
           Good == {i \in 0 .. n : Goes(d, a[i], Before(i))}
<1>1. n \in Nat
  OBVIOUS
<1>2. 0 \in Good
  <2>1. a[0] = d BY DEF Results
  <2>2. Goes(d, a[0], {}) BY <2>1, GoesNowhere
  <2>3. QED BY <1>1, <2>2, Wider
<1>3. ASSUME NEW i \in 1 .. n, i - 1 \in Good PROVE i \in Good
  <2>1. Goes(d, a[i - 1], Before(i - 1)) /\ Goes(a[i - 1], a[i], U[i])
    BY <1>3
  <2>2. Before(i - 1) \cap U[i] = {}
    <3>1. ASSUME NEW x \in Before(i - 1), x \in U[i] PROVE FALSE
      <4>1. PICK j \in 1 .. i - 1 : x \in U[j] OBVIOUS
      <4>2. U[i] \cap U[j] # {} /\ j \in 1 .. n BY <4>1, <3>1, <1>1
      <4>3. i = j BY <4>2, <4>1
      <4>4. QED BY <4>1, <4>3
    <3>2. QED BY <3>1
  <2>3. Before(i - 1) \cup U[i] \subseteq Before(i)
    BY <1>1
  <2> HIDE DEF Before
  <2>4. Goes(d, a[i], Before(i - 1) \cup U[i]) BY <2>1, <2>2, GoesOn
  <2>5. Goes(d, a[i], Before(i)) BY <2>3, <2>4, Wider
  <2>6. QED BY <2>5
<1>4. 0 .. n \subseteq Good
  <2> HIDE DEF Good, n
  <2>1. QED BY <1>1, <1>2, <1>3, UpTo
<1>5. n \in Good
  <2> HIDE DEF Good
  <2>1. n \in 0 .. n BY <1>1
  <2>2. QED BY <1>4, <2>1
<1>6. QED BY <1>5

-----------------------------------------------------------------------------
(* Texts and results.                                                      *)

\* RemoveFirst takes out one element, and it is that one.
LEMMA RemovedOne ==
    ASSUME NEW S, NEW s \in Seq(S), NEW e, Contains(s, e)
    PROVE  \E k \in 1 .. Len(s) :
              /\ s[k] = e /\ RemoveFirst(s, e) \in Seq(S) /\ Len(RemoveFirst(s, e)) = Len(s) - 1
              /\ \A i \in 1 .. Len(s) - 1 : RemoveFirst(s, e)[i] = IF i < k THEN s[i] ELSE s[i + 1]
<1> DEFINE I == {i \in 1 .. Len(s) : s[i] = e}
           k == Min(I)
           n == Len(s)
           p == SubSeq(s, 1, k - 1)
           q == SubSeq(s, k + 1, n)
<1>1. I # {} /\ I \subseteq Nat
  BY DEF Contains
<1>2. k \in I
  <2> HIDE DEF I
  <2>1. QED BY <1>1, MinIn
<1>3. SelectInSeq(s, LAMBDA v : v = e) = k
  BY <1>1 DEF SelectInSeq
<1>4. RemoveFirst(s, e) = p \o q
  BY <1>3 DEF RemoveFirst, RemoveAt, Contains
<1>5. k \in 1 .. n /\ s[k] = e /\ n \in Nat
  BY <1>2
<1> HIDE DEF k, n
<1>6. /\ p \in Seq(S) /\ Len(p) = k - 1 /\ \A i \in 1 .. k - 1 : p[i] = s[i]
      /\ q \in Seq(S) /\ Len(q) = n - k /\ \A i \in 1 .. n - k : q[i] = s[k + i]
  BY <1>5 DEF n
<1> HIDE DEF p, q
<1>7. p \o q \in Seq(S) /\ Len(p \o q) = n - 1
  <2>1. p \in Seq(S) /\ q \in Seq(S) /\ Len(p) + Len(q) = n - 1 BY <1>5, <1>6
  <2>2. p \o q \in Seq(S) /\ Len(p \o q) = Len(p) + Len(q) BY <2>1
  <2>3. QED BY <2>1, <2>2
<1>8. ASSUME NEW i \in 1 .. n - 1 PROVE (p \o q)[i] = IF i < k THEN s[i] ELSE s[i + 1]
  <2>1. CASE i < k
    <3>1. (p \o q)[i] = p[i] /\ i \in 1 .. k - 1 BY <2>1, <1>5, <1>6
    <3>2. QED BY <2>1, <3>1, <1>6
  <2>2. CASE i >= k
    <3>1. i - (k - 1) \in 1 .. n - k /\ k + (i - (k - 1)) = i + 1 BY <2>2, <1>5
    <3>0. p \in Seq(S) /\ q \in Seq(S) /\ Len(p) = k - 1 /\ i \in Len(p) + 1 .. Len(p) + Len(q) BY <2>2, <1>5, <1>6
    <3>2. (p \o q)[i] = q[i - (k - 1)] BY <3>0
    <3>3. ~(i < k) BY <2>2, <1>5
    <3>4. q[i - (k - 1)] = s[i + 1] BY <3>1, <1>6
    <3>5. QED BY <3>2, <3>3, <3>4
  <2>3. i < k \/ i >= k BY <1>5
  <2>4. QED BY <2>1, <2>2, <2>3
<1>9. QED BY <1>4, <1>5, <1>7, <1>8 DEF n

\* A bubble that waited for its echo is marked as sent where it is (model.ts, settleQueued).
LEMMA QueuedSettled ==
    ASSUME NEW d \in Kept, NEW text PROVE Goes(d, settleQueued(d, text), {})
<1> DEFINE queued == {i \in Positions(d, "user") : d.items[i].state = "queued" /\ d.items[i].text = text}
           k == Min(queued)
           x == [d.items[k] EXCEPT !.state = "sent"]
<1>0. d \in Screen
  BY DEF Kept
<1>1. CASE queued = {}
  BY <1>1, GoesNowhere DEF settleQueued
<1>2. CASE queued # {}
  <2>1. k \in Positions(d, "user")
    <3>1. queued \subseteq Positions(d, "user") /\ queued \subseteq Nat BY <1>0, PositionsIn
    <3> HIDE DEF queued
    <3>2. QED BY <3>1, <1>2, MinIn
  <2>2. settleQueued(d, text) = [d EXCEPT !.items[k] = x]
    BY <1>2 DEF settleQueued
  <2> HIDE DEF k
  <2>3. k \in DOMAIN d.items /\ d.items[k] \in UserItem
    <3> HIDE DEF Item
    <3>1. k \in DOMAIN d.items /\ d.items[k].kind = "user" /\ d.items[k] \in Item BY <1>0, <2>1, PositionsIn
    <3>2. QED BY <3>1, ItemByKind
  <2>4. x \in UserItem /\ x.kind = "user" /\ d.items[k].kind = "user"
    BY <2>3 DEF UserItem
  <2> HIDE DEF x
  <2>5. x \in Item /\ AlikeItem(d.items[k], x) /\ x.kind # "tools"
    BY <2>4, ItemSets DEF AlikeItem
  <2>6. QED BY <2>2, <2>3, <2>5, OneChanged
<1>3. QED BY <1>1, <1>2

\* Only the texts waiting for their echo change.
LEMMA PendingKept ==
    ASSUME NEW d \in Kept, NEW p \in Seq(Texts) PROVE Goes(d, [d EXCEPT !.pendingWeb = p], {})
<1> DEFINE n == [d EXCEPT !.pendingWeb = p]
<1>1. d \in Screen /\ (d.live.permission = Null <=> d.live.asked = Null)
  BY DEF Kept
<1>2. n \in Screen /\ n.items = d.items /\ n.index = d.index /\ n.todos = d.todos /\ n.live = d.live
  BY <1>1 DEF Screen
<1>3. QED BY <1>1, <1>2, AsideKept

\* A bubble pushed moves no item.
LEMMA BubblePushed ==
    ASSUME NEW d \in Kept, NEW text \in Texts, NEW state \in {"queued", "sent"}
    PROVE  Goes(d, push(d, Bubble(text, state)), {})
<1>1. Bubble(text, state) \in UserItem /\ Bubble(text, state).kind = "user"
  BY DEF Bubble, UserItem
<1>2. Bubble(text, state) \in Item /\ FirstCard(d, Bubble(text, state))
  BY <1>1, ItemSets DEF FirstCard
<1>3. QED BY <1>2, PushKept

\* A line of the user settles its bubble or adds one (model.ts, user).
LEMMA UserTextKept ==
    ASSUME NEW d \in Kept, NEW text \in Texts, NEW isHistory \in BOOLEAN
    PROVE  Goes(d, UserText(d, text, isHistory), {})
<1>1. CASE EchoOfOwn(d, text, isHistory)
  <2> DEFINE p == RemoveFirst(d.pendingWeb, text)
             m == [d EXCEPT !.pendingWeb = p]
  <2>1. Contains(d.pendingWeb, text) /\ d.pendingWeb \in Seq(Texts)
    BY <1>1, ScreenFields DEF EchoOfOwn, Kept
  <2>2. p \in Seq(Texts) BY <2>1, RemovedOne
  <2>3. UserText(d, text, isHistory) = settleQueued(m, text) BY <1>1 DEF UserText
  <2> HIDE DEF p
  <2>4. Goes(d, m, {}) /\ m \in Kept BY <2>2, PendingKept DEF Goes
  <2> HIDE DEF m
  <2>5. QED BY <2>3, <2>4, QueuedSettled, Then
<1>2. CASE ~EchoOfOwn(d, text, isHistory)
  <2> DEFINE n == push(d, Bubble(text, "sent"))
  <2>1. Goes(d, n, {}) /\ n \in Kept BY BubblePushed DEF Goes
  <2>2. UserText(d, text, isHistory) =
          IF isHistory THEN n ELSE [n EXCEPT !.live.busy = TRUE, !.live.thinking = FALSE]
    BY <1>2 DEF UserText
  <2> HIDE DEF n
  <2>3. Goes(n, [n EXCEPT !.live.busy = TRUE, !.live.thinking = FALSE], {}) BY <2>1, CompactedKept
  <2>4. QED BY <2>1, <2>2, <2>3, Then
<1>3. QED BY <1>1, <1>2

\* A question's card is marked answered.
LEMMA AnsweredKept ==
    ASSUME NEW d \in Kept, NEW k \in Positions(d, "question")
    PROVE  Goes(d, [d EXCEPT !.items[k].answered = TRUE], {})
<1> DEFINE x == [d.items[k] EXCEPT !.answered = TRUE]
<1>1. k \in DOMAIN d.items /\ d.items[k] \in QuestionItem
  <2> HIDE DEF Item
  <2>1. k \in DOMAIN d.items /\ d.items[k].kind = "question" /\ d.items[k] \in Item BY PositionsIn DEF Kept
  <2>2. QED BY <2>1, ItemByKind
<1>2. x \in QuestionItem /\ x.kind = "question" /\ d.items[k].kind = "question" /\ x.request = d.items[k].request
  BY <1>1 DEF QuestionItem
<1>3. [d EXCEPT !.items[k].answered = TRUE] = [d EXCEPT !.items[k] = x]
  OBVIOUS
<1> HIDE DEF x
<1>4. x \in Item /\ AlikeItem(d.items[k], x) /\ x.kind # "tools"
  BY <1>2, ItemSets DEF AlikeItem
<1>5. QED BY <1>1, <1>3, <1>4, OneChanged

\* The call that takes the line is open and has its place noted.
LEMMA NextOpenIs ==
    ASSUME NEW d \in Kept, NEW id \in Calls, HasCard(d, id)
    PROVE  /\ NextOpen(d, id) \in Calls \cup {Null}
           /\ AllNoted(d) /\ NextOpen(d, id) # Null => HasCard(d, NextOpen(d, id)) /\ Open(Card(d, NextOpen(d, id)))
<1> DEFINE i == d.index[id][1]
           calls == d.items[i].calls
           open == {j \in DOMAIN calls : Open(calls[j])}
           j == Max(open)
<1>1. d \in Screen /\ InPlace(d)
  BY DEF Kept
<1>2. i \in DOMAIN d.items /\ d.items[i].kind = "tools" /\ i > 0
  BY <1>1 DEF InPlace, HasCard
<1>3. calls \in Seq(CallCard)
  <2> HIDE DEF Item, i
  <2>1. d.items[i] \in Item BY <1>1, <1>2, ScreenFields
  <2>2. d.items[i] \in ToolsItem BY <2>1, <1>2, ItemByKind
  <2>3. QED BY <2>2 DEF ToolsItem
<1>4. NextOpen(d, id) = IF open = {} THEN Null ELSE calls[j].id
  BY DEF NextOpen
<1>5. CASE open = {}
  <2> HIDE DEF open
  <2>1. QED BY <1>4, <1>5
<1>6. CASE open # {}
  <2>1. j \in open
    <3>0. open \subseteq DOMAIN calls OBVIOUS
    <3> HIDE DEF open, calls
    <3>1. DOMAIN calls = 1 .. Len(calls) /\ Len(calls) \in Nat BY <1>3
    <3>2. QED BY <3>0, <3>1, <1>6, MaxIn
  <2>2. j \in DOMAIN calls /\ Open(calls[j]) BY <2>1
  <2>3. calls[j].id \in Calls /\ NextOpen(d, id) = calls[j].id
    <3> HIDE DEF open, j, calls
    <3>1. calls[j] \in CallCard BY <2>2, <1>3
    <3>2. QED BY <3>1, <1>4, <1>6 DEF CallCard
  <2> HIDE DEF j, open, i
  <2>4. ASSUME AllNoted(d) PROVE HasCard(d, calls[j].id) /\ Card(d, calls[j].id) = calls[j]
    <3>1. calls[j].id \in DOMAIN d.index /\ d.index[calls[j].id] = <<i, j>> BY <2>2, <2>4, <1>2 DEF AllNoted
    <3>2. i > 0 BY <1>2
    <3> HIDE DEF calls
    <3>3. d.index[calls[j].id][1] = i /\ d.index[calls[j].id][2] = j BY <3>1
    <3>4. HasCard(d, calls[j].id) BY <3>1, <3>2, <3>3 DEF HasCard
    <3>5. Card(d, calls[j].id) = d.items[i].calls[j] BY <3>3 DEF Card
    <3>6. QED BY <3>4, <3>5 DEF calls
  <2>5. QED BY <2>2, <2>3, <2>4
<1>7. QED BY <1>5, <1>6

\* The result of a call patches the card the index finds (model.ts, user, tool_result).
LEMMA ToolResultKept ==
    ASSUME NEW d \in Kept, NEW id \in Calls, NEW failed \in BOOLEAN
    PROVE  Goes(d, ToolResult(d, id, failed), {})
<1> DEFINE n == IF d.live.permission # Null /\ d.live.asked = id
                THEN [d EXCEPT !.live.permission = Null, !.live.asked = Null] ELSE d
           status == IF failed THEN "error" ELSE "ok"
           p == patchCall(n, id, status)
           q == [p EXCEPT !.live.running = NextOpen(p, id)]
           r == ToolResult(d, id, failed)
<1>0. d \in Screen /\ (d.live.permission = Null <=> d.live.asked = Null)
  BY DEF Kept
<1>1. /\ n \in Screen /\ n.items = d.items /\ n.index = d.index /\ n.todos = d.todos
      /\ n.live.running = d.live.running /\ (n.live.permission = Null <=> n.live.asked = Null)
  <2> DEFINE m == [d EXCEPT !.live.permission = Null, !.live.asked = Null]
  <2>1. /\ m \in Screen /\ m.items = d.items /\ m.index = d.index /\ m.todos = d.todos
        /\ m.live.running = d.live.running /\ m.live.permission = Null /\ m.live.asked = Null
    BY <1>0 DEF Screen, Live
  <2> HIDE DEF m
  <2>2. n = m \/ n = d BY DEF m
  <2> HIDE DEF n
  <2>3. QED BY <1>0, <2>1, <2>2
<1>2. r = CASE Questions(d, id) # {} -> [n EXCEPT !.items[Min(Questions(d, id))].answered = TRUE]
            [] Questions(d, id) = {} /\ id \in DOMAIN d.index /\ ~HasCard(d, id) ->
                 IF failed THEN n ELSE learnTodoId(n, id)
            [] Questions(d, id) = {} /\ HasCard(d, id) -> IF d.live.running # id THEN p ELSE q
            [] OTHER -> n
  BY DEF ToolResult
<1> HIDE DEF n, p, q, r
<1>3. Goes(d, n, {}) /\ n \in Kept
  BY <1>1, AsideKept DEF Goes
<1>4. CASE Questions(d, id) # {}
  <2> DEFINE k == Min(Questions(d, id))
  <2>1. r = [n EXCEPT !.items[k].answered = TRUE] BY <1>2, <1>4
  <2>2. k \in Positions(n, "question")
    <3>1. Questions(d, id) \subseteq Positions(d, "question") /\ Questions(d, id) \subseteq Nat
      BY <1>0, PositionsIn DEF Questions
    <3>2. k \in Positions(d, "question") BY <3>1, <1>4, MinIn
    <3>3. Positions(n, "question") = Positions(d, "question") BY <1>1 DEF Positions
    <3>4. QED BY <3>2, <3>3
  <2> HIDE DEF k
  <2>3. QED BY <2>1, <2>2, <1>3, AnsweredKept, Then DEF r
<1>5. CASE Questions(d, id) = {} /\ id \in DOMAIN d.index /\ ~HasCard(d, id)
  <2>1. r = IF failed THEN n ELSE learnTodoId(n, id) BY <1>2, <1>5
  <2>2. Goes(n, learnTodoId(n, id), {}) BY <1>3, TodoIdLearned
  <2>3. QED BY <2>1, <2>2, <1>3, Then DEF r
<1>6. CASE Questions(d, id) = {} /\ HasCard(d, id)
  <2>1. r = IF d.live.running # id THEN p ELSE q BY <1>2, <1>6
  <2>2. HasCard(n, id) /\ status \in Status BY <1>1, <1>6 DEF HasCard, Status
  <2> HIDE DEF status
  <2>3. /\ p \in Kept /\ p.index = n.index /\ p.live = n.live
        /\ AllNoted(n) => AllNoted(p)
        /\ \A c : HasCard(n, c) => HasCard(p, c) /\ (c # id => Card(p, c) = Card(n, c))
    BY <1>3, <2>2, PatchKept DEF p
  <2>4. CASE d.live.running # id
    <3>1. LineOpen(n) => LineOpen(p) BY <1>1, <2>3, <2>4 DEF LineOpen
    <3>2. Goes(n, p, {}) BY <2>3, <3>1 DEF Goes, Exact
    <3>3. QED BY <3>2, <2>1, <2>4, <1>3, Then DEF r
  <2>5. CASE d.live.running = id
    <3>1. HasCard(p, id) BY <2>2, <2>3
    <3>2. /\ NextOpen(p, id) \in Calls \cup {Null}
          /\ AllNoted(p) /\ NextOpen(p, id) # Null => HasCard(p, NextOpen(p, id)) /\ Open(Card(p, NextOpen(p, id)))
      BY <2>3, <3>1, NextOpenIs
    <3>3. p \in Screen /\ (p.live.permission = Null <=> p.live.asked = Null) BY <2>3 DEF Kept
    <3>4. /\ q \in Screen /\ q.items = p.items /\ q.index = p.index /\ q.todos = p.todos
          /\ q.live.running = NextOpen(p, id) /\ q.live.permission = p.live.permission /\ q.live.asked = p.live.asked
      BY <3>2, <3>3 DEF q, Screen, Live
    <3>5. q \in Kept /\ (AllNoted(p) => AllNoted(q)) BY <2>3, <3>3, <3>4, BesideKept
    <3>6. AllNoted(p) => LineOpen(q) BY <3>2, <3>4 DEF LineOpen, HasCard, Card
    <3>7. Goes(n, q, {}) BY <2>3, <3>4, <3>5, <3>6 DEF Goes, Exact
    <3>8. QED BY <3>7, <2>1, <2>5, <1>3, Then DEF r
  <2>6. QED BY <2>4, <2>5
<1>7. CASE Questions(d, id) = {} /\ ~HasCard(d, id) /\ id \notin DOMAIN d.index
  <2>1. r = n BY <1>2, <1>7
  <2>2. QED BY <2>1, <1>3 DEF r
<1>8. QED BY <1>4, <1>5, <1>6, <1>7

-----------------------------------------------------------------------------
(* Requests, streams, and what a user does.                                *)

\* A patch leaves everything but a group of calls.
LEMMA PatchAside ==
    ASSUME NEW d \in Kept, NEW id, NEW status
    PROVE  LET n == patchCall(d, id, status)
           IN  /\ n.pendingWeb = d.pendingWeb /\ DOMAIN n.items = DOMAIN d.items
               /\ \A i \in DOMAIN d.items :
                     /\ n.items[i].kind = d.items[i].kind
                     /\ d.items[i].kind # "tools" => n.items[i] = d.items[i]
<1> DEFINE n == patchCall(d, id, status)
           i == d.index[id][1]
           j == d.index[id][2]
           y == [d.items[i].calls[j] EXCEPT !.status = status]
           x == [d.items[i] EXCEPT !.calls = [d.items[i].calls EXCEPT ![j] = y]]
<1>1. CASE ~HasCard(d, id)
  <2>1. n = d BY <1>1 DEF patchCall
  <2>2. QED BY <2>1
<1>2. CASE HasCard(d, id)
  <2>1. d \in Screen /\ i \in DOMAIN d.items /\ d.items[i].kind = "tools"
    BY <1>2 DEF Kept, InPlace, HasCard
  <2>2. n = [d EXCEPT !.items = [d.items EXCEPT ![i] = x]]
    BY <1>2, <2>1 DEF patchCall, Screen
  <2>3. d.items[i] \in ToolsItem
    <3> HIDE DEF Item, i
    <3>1. d.items[i] \in Item BY <2>1, ScreenFields
    <3>2. QED BY <2>1, <3>1, ItemByKind
  <2> HIDE DEF i, n, y
  <2>4. x.kind = "tools"
    BY <2>3 DEF ToolsItem
  <2> HIDE DEF x
  <2>5. n.items = [d.items EXCEPT ![i] = x] /\ n.pendingWeb = d.pendingWeb
    BY <2>1, <2>2 DEF Screen
  <2>6. QED BY <2>1, <2>4, <2>5 DEF n
<1>3. QED BY <1>1, <1>2

\* The request that waits is noted beside the items, or no longer.
LEMMA AskedKept ==
    ASSUME NEW d \in Kept, NEW request \in Calls \cup {Null}, NEW id \in Calls \cup {Null},
           request = Null <=> id = Null
    PROVE  Goes(d, [d EXCEPT !.live.permission = request, !.live.asked = id], {})
<1> DEFINE n == [d EXCEPT !.live.permission = request, !.live.asked = id]
<1>1. d \in Screen
  BY DEF Kept
<1>2. /\ n \in Screen /\ n.items = d.items /\ n.index = d.index /\ n.todos = d.todos
      /\ n.live.running = d.live.running /\ n.live.permission = request /\ n.live.asked = id
  BY <1>1 DEF Screen, Live
<1> HIDE DEF n
<1>3. Goes(d, n, {})
  BY <1>2, AsideKept
<1>4. QED BY <1>3 DEF n

\* A call keeps the line if its card stays open.
LEMMA PatchedOpen ==
    ASSUME NEW d \in Kept, NEW id \in Calls, NEW status \in {"running", "awaiting"}
    PROVE  Goes(d, patchCall(d, id, status), {})
<1> DEFINE n == patchCall(d, id, status)
<1>1. /\ n \in Kept /\ n.index = d.index /\ n.live = d.live
      /\ AllNoted(d) => AllNoted(n)
      /\ \A c : HasCard(d, c) => HasCard(n, c) /\ (c # id => Card(n, c) = Card(d, c))
      /\ HasCard(d, id) => Card(n, id).status = status
  <2>1. status \in Status BY DEF Status
  <2>2. QED BY <2>1, PatchKept
<1> HIDE DEF n
<1>2. LineOpen(d) => LineOpen(n)
  BY <1>1 DEF LineOpen, Open
<1>3. QED BY <1>1, <1>2 DEF Goes, Exact, n

\* A permission request marks the card the index finds, or shows a question (model.ts, controlRequest).
LEMMA RequestKept ==
    ASSUME NEW d \in Kept, NEW e, e.request \in Calls, e.id = e.request, e.question \in BOOLEAN
    PROVE  Goes(d, controlRequest(d, e), {})
<1>1. CASE e.question
  <2> DEFINE x == [kind |-> "question", request |-> e.request, id |-> e.id, answered |-> FALSE]
  <2>1. CASE \E i \in Positions(d, "question") : d.items[i].request = e.request
    BY <1>1, <2>1, GoesNowhere DEF controlRequest
  <2>2. CASE ~\E i \in Positions(d, "question") : d.items[i].request = e.request
    <3>1. x \in QuestionItem /\ x.kind = "question" /\ x.request = e.request BY DEF QuestionItem
    <3>2. controlRequest(d, e) = push(d, x) BY <1>1, <2>2 DEF controlRequest
    <3> HIDE DEF x
    <3>3. x \in Item BY <3>1, ItemSets
    <3>4. FirstCard(d, x) BY <2>2, <3>1 DEF FirstCard, Positions
    <3>5. QED BY <3>2, <3>3, <3>4, PushKept
  <2>3. QED BY <2>1, <2>2
<1>2. CASE ~e.question
  <2> DEFINE m == patchCall(d, e.id, "awaiting")
  <2>1. Goes(d, m, {}) /\ m \in Kept BY PatchedOpen DEF Goes
  <2>2. controlRequest(d, e) = [m EXCEPT !.live.permission = e.request, !.live.asked = e.id]
    BY <1>2 DEF controlRequest
  <2> HIDE DEF m
  <2>3. e.request = Null <=> e.id = Null OBVIOUS
  <2>4. Goes(m, [m EXCEPT !.live.permission = e.request, !.live.asked = e.id], {}) BY <2>1, <2>3, AskedKept
  <2>5. QED BY <2>1, <2>2, <2>4, Then
<1>3. QED BY <1>1, <1>2

\* A permission that is cleared patches its card (model.ts, clearPermission).
LEMMA PermissionCleared == ASSUME NEW d \in Kept PROVE Goes(d, clearPermission(d), {})
<1> DEFINE n == [d EXCEPT !.live.permission = Null, !.live.asked = Null]
<1>1. Goes(d, n, {}) /\ n \in Kept
  BY AskedKept DEF Goes
<1>2. clearPermission(d) = IF d.live.permission = Null THEN n ELSE patchCall(n, d.live.asked, "running")
  BY DEF clearPermission
<1>3. d.live.permission # Null => d.live.asked \in Calls
  BY DEF Kept, Screen, Live
<1> HIDE DEF n
<1>4. d.live.permission # Null => Goes(n, patchCall(n, d.live.asked, "running"), {})
  BY <1>1, <1>3, PatchedOpen
<1>5. QED BY <1>1, <1>2, <1>4, Then

\* Questions stay where they are as it does.
LEMMA QuestionsStay ==
    ASSUME NEW d \in Kept PROVE Positions(clearPermission(d), "question") = Positions(d, "question")
<1> DEFINE n == [d EXCEPT !.live.permission = Null, !.live.asked = Null]
<1>1. n \in Kept
  BY AskedKept DEF Goes
<1>2. n.items = d.items
  BY DEF Kept, Screen
<1>3. clearPermission(d) = n \/ clearPermission(d) = patchCall(n, d.live.asked, "running")
  BY DEF clearPermission
<1> HIDE DEF n
<1>4. Positions(patchCall(n, d.live.asked, "running"), "question") = Positions(n, "question")
  BY <1>1, PatchAside DEF Positions
<1>5. Positions(n, "question") = Positions(d, "question")
  BY <1>2 DEF Positions
<1>6. QED BY <1>3, <1>4, <1>5

\* A request that is withdrawn (model.ts, controlCancel).
LEMMA CancelKept ==
    ASSUME NEW d \in Kept, NEW request PROVE Goes(d, controlCancel(d, request), {})
<1> DEFINE n == IF d.live.permission = request THEN clearPermission(d) ELSE d
           open == Unanswered(d, request)
           k == Min(open)
<1>1. Goes(d, n, {}) /\ n \in Kept
  BY PermissionCleared, GoesNowhere DEF Goes
<1>2. controlCancel(d, request) = IF open = {} THEN n ELSE [n EXCEPT !.items[k].answered = TRUE]
  BY DEF controlCancel
<1>3. Positions(n, "question") = Positions(d, "question")
  <2>1. CASE d.live.permission # request BY <2>1
  <2>2. CASE d.live.permission = request BY <2>2, QuestionsStay
  <2>3. QED BY <2>1, <2>2
<1> HIDE DEF n
<1>4. CASE open = {}
  BY <1>1, <1>2, <1>4
<1>5. CASE open # {}
  <2>1. open \subseteq Positions(d, "question") /\ open \subseteq Nat BY PositionsIn DEF Unanswered, Kept
  <2> HIDE DEF open
  <2>2. k \in Positions(n, "question") BY <2>1, <1>3, <1>5, MinIn
  <2> HIDE DEF k
  <2>3. Goes(n, [n EXCEPT !.items[k].answered = TRUE], {}) BY <1>1, <2>2, AnsweredKept
  <2>4. QED BY <1>1, <1>2, <1>5, <2>3, Then
<1>6. QED BY <1>4, <1>5

\* A streamed event (model.ts, streamEvent).
LEMMA StreamKept ==
    ASSUME NEW d \in Kept, NEW e, IsEvent(e), e.type = "stream_event", NEW isHistory \in BOOLEAN
    PROVE  Goes(d, streamEvent(d, e, isHistory), {})
<1>1. e.delta \in BOOLEAN /\ (e.delta => e.block \in Stream /\ e.chunk \in Chunk)
  BY DEF IsEvent
<1>2. CASE e.delta
  <2> DEFINE n == appendStreamed(d, e.block, e.chunk)
             t == e.block = "thinking"
  <2>1. Goes(d, n, {}) /\ n \in Kept BY <1>1, <1>2, StreamedAppended DEF Goes
  <2>2. streamEvent(d, e, isHistory) =
          IF isHistory THEN n ELSE [n EXCEPT !.live.busy = TRUE, !.live.thinking = t]
    BY <1>2 DEF streamEvent
  <2>3. t \in BOOLEAN OBVIOUS
  <2> HIDE DEF n, t
  <2>4. Goes(n, [n EXCEPT !.live.busy = TRUE, !.live.thinking = t], {}) BY <2>1, <2>3, CompactedKept
  <2>5. QED BY <2>1, <2>2, <2>4, Then
<1>3. CASE ~e.delta
  <2> DEFINE streaming == {i \in Positions(d, "prose") \cup Positions(d, "thinking") : d.items[i].streaming}
             k == Max(streaming)
             x == [d.items[k] EXCEPT !.streaming = FALSE]
  <2>0. d \in Screen BY DEF Kept
  <2>1. streamEvent(d, e, isHistory) = IF streaming = {} THEN d ELSE [d EXCEPT !.items[k] = x]
    BY <1>3 DEF streamEvent
  <2>2. CASE streaming = {}
    <3>1. streamEvent(d, e, isHistory) = d BY <2>1, <2>2
    <3>2. QED BY <3>1, GoesNowhere
  <2>3. CASE streaming # {}
    <3>1. k \in Positions(d, "prose") \cup Positions(d, "thinking")
      <4>1. /\ streaming \subseteq Positions(d, "prose") \cup Positions(d, "thinking")
            /\ Positions(d, "prose") \subseteq 1 .. Len(d.items) /\ Positions(d, "thinking") \subseteq 1 .. Len(d.items)
            /\ Len(d.items) \in Nat
        BY <2>0, PositionsIn, ScreenFields
      <4> HIDE DEF streaming
      <4>2. streaming \subseteq 1 .. Len(d.items) BY <4>1
      <4>3. k \in streaming BY <4>1, <4>2, <2>3, MaxIn
      <4>4. QED BY <4>1, <4>3
    <3> HIDE DEF k, streaming
    <3>2. k \in DOMAIN d.items /\ d.items[k] \in BlockItem
      <4> HIDE DEF Item
      <4>1. k \in DOMAIN d.items /\ d.items[k].kind \in Stream /\ d.items[k] \in Item
        BY <2>0, <3>1, PositionsIn DEF Stream
      <4>2. QED BY <4>1, ItemByKind
    <3>3. x \in BlockItem /\ x.kind = d.items[k].kind /\ x.kind \in Stream BY <3>2 DEF BlockItem
    <3> HIDE DEF x
    <3>4. x \in Item /\ AlikeItem(d.items[k], x) /\ x.kind # "tools" BY <3>3, ItemSets DEF AlikeItem, Stream
    <3>5. QED BY <2>1, <2>3, <3>2, <3>4, OneChanged
  <2>4. QED BY <2>2, <2>3
<1>4. QED BY <1>1, <1>2, <1>3

\* A text the phone sends gets a queued bubble (model.ts, localSend).
LEMMA SendKept == ASSUME NEW d \in Kept, NEW text \in Texts PROVE Goes(d, localSend(d, text), {})
<1> DEFINE state == IF d.live.busy THEN "queued" ELSE "sent"
           p == Append(d.pendingWeb, text)
           m == [d EXCEPT !.pendingWeb = p]
           n == push(m, Bubble(text, state))
<1>1. p \in Seq(Texts)
  BY ScreenFields DEF Kept
<1>2. state \in {"queued", "sent"}
  OBVIOUS
<1>3. localSend(d, text) = [n EXCEPT !.live.busy = TRUE, !.live.thinking = FALSE]
  BY DEF localSend
<1> HIDE DEF p, state
<1>4. Goes(d, m, {}) /\ m \in Kept
  BY <1>1, PendingKept DEF Goes
<1> HIDE DEF m
<1>5. Goes(m, n, {}) /\ n \in Kept
  BY <1>2, <1>4, BubblePushed DEF Goes
<1> HIDE DEF n
<1>6. Goes(n, [n EXCEPT !.live.busy = TRUE, !.live.thinking = FALSE], {})
  BY <1>5, CompactedKept
<1>7. QED BY <1>3, <1>4, <1>5, <1>6, Then

\* A question that is answered is marked where it is (model.ts, markQuestionAnswered).
LEMMA MarkedKept == ASSUME NEW d \in Kept, NEW request PROVE Goes(d, markQuestionAnswered(d, request), {})
<1> DEFINE asked == {i \in Positions(d, "question") : d.items[i].request = request}
<1>1. markQuestionAnswered(d, request) =
        IF asked = {} THEN d ELSE [d EXCEPT !.items[Min(asked)].answered = TRUE]
  BY DEF markQuestionAnswered
<1>2. asked \subseteq Positions(d, "question") /\ asked \subseteq Nat
  BY PositionsIn DEF Kept
<1> HIDE DEF asked
<1>3. CASE asked = {}
  BY <1>1, <1>3, GoesNowhere
<1>4. CASE asked # {}
  <2>1. Min(asked) \in Positions(d, "question") BY <1>2, <1>4, MinIn
  <2>2. QED BY <1>1, <1>4, <2>1, AnsweredKept
<1>5. QED BY <1>3, <1>4

\* Stop settles the turn on the phone (model.ts, stop).
LEMMA StopKept == ASSUME NEW d \in Kept PROVE Goes(d, stop(d), {})
<1>1. d \in Screen /\ (d.live.permission = Null <=> d.live.asked = Null)
  BY DEF Kept
<1>2. /\ stop(d) \in Screen /\ stop(d).items = d.items /\ stop(d).index = d.index /\ stop(d).todos = d.todos
      /\ stop(d).live.running = Null /\ stop(d).live.permission = d.live.permission
      /\ stop(d).live.asked = d.live.asked
  BY <1>1 DEF stop, Screen, Live
<1>3. QED BY <1>1, <1>2, AsideKept

-----------------------------------------------------------------------------
(* Messages, block by block and text by text.                              *)

Blocks == TextBlocks \cup ToolBlocks
BlockStep(isHistory) == [x \in Kept \X Blocks |-> AssistantBlock(x[1], x[2], isHistory)]
TextStep(isHistory) == [x \in Kept \X Texts |-> UserText(x[1], x[2], isHistory)]
ResultStep == [x \in Kept \X CallResult |-> ToolResult(x[1], x[2].id, x[2].failed)]

\* The blocks of a message, one after the other.
LEMMA AssistantSteps ==
    ASSUME NEW d \in Kept, NEW blocks \in Seq(Blocks), NEW isHistory \in BOOLEAN
    PROVE  \E a : Results(a, Kept, blocks, d, BlockStep(isHistory)) /\ FoldLeft(LAMBDA s, b : AssistantBlock(s, b, isHistory), d, blocks) = a[Len(blocks)]
<1> DEFINE T == Kept
           E == Blocks
           g == BlockStep(isHistory)
           IsIter(f) == f = [S \in SUBSET DOMAIN blocks |->
                               IF S = {} THEN d ELSE AssistantBlock(f[S \ {Max(S)}], blocks[Max(S)], isHistory)]
           iter == CHOOSE f : IsIter(f)
<1>0. blocks \in Seq(E) /\ StepOn(g, T, E) /\ \A v \in T, k \in E : g[<<v, k>>] = AssistantBlock(v, k, isHistory)
  <2>1. ASSUME NEW v \in T, NEW k \in E PROVE AssistantBlock(v, k, isHistory) \in T
    BY BlockKept DEF Goes, Blocks
  <2> HIDE DEF T, E
  <2>2. \A x \in T \X E : x[1] \in T /\ x[2] \in E OBVIOUS
  <2>3. QED BY <2>1, <2>2 DEF StepOn, BlockStep, T, E
<1>1. FoldLeft(LAMBDA s, b : AssistantBlock(s, b, isHistory), d, blocks) = iter[DOMAIN blocks]
  BY DEF FoldLeft, MapThenFoldSet
<1>2. d \in T
  OBVIOUS
<1> HIDE DEF T, E, g
<1>3. \E f : IsIter(f)
  <2>1. PICK f : Unfolds(f, T, E, blocks, d, g) /\ Typed(f, T, E, blocks)
    BY <1>0, <1>2, FoldExists
  <2>2. ASSUME NEW S \in SUBSET DOMAIN blocks
        PROVE  f[S] = IF S = {} THEN d ELSE AssistantBlock(f[S \ {Max(S)}], blocks[Max(S)], isHistory)
    BY <2>1, <1>0 DEF Unfolds, Typed
  <2>3. IsIter(f)
    BY <2>1, <2>2 DEF Typed
  <2>4. QED BY <2>3
<1>4. IsIter(iter)
  <2> HIDE DEF IsIter
  <2>1. QED BY <1>3
<1>5. iter[{}] = d
  BY <1>4
<1>6. ASSUME NEW S \in SUBSET DOMAIN blocks, S # {}, iter[S \ {Max(S)}] \in T, blocks[Max(S)] \in E
      PROVE  iter[S] = g[<<iter[S \ {Max(S)}], blocks[Max(S)]>>]
  <2>1. iter[S] = AssistantBlock(iter[S \ {Max(S)}], blocks[Max(S)], isHistory)
    <3> HIDE DEF iter
    <3>1. QED BY <1>4, <1>6
  <2>2. QED BY <2>1, <1>6, <1>0
<1> HIDE DEF iter, IsIter
<1>7. Unfolds(iter, T, E, blocks, d, g)
  BY <1>5, <1>6 DEF Unfolds
<1>8. PICK a : Results(a, T, blocks, d, g) /\ iter[DOMAIN blocks] = a[Len(blocks)]
  BY <1>0, <1>2, <1>7, FoldSteps
<1>9. QED BY <1>1, <1>8 DEF T, g

\* The texts of a message.
LEMMA TextSteps ==
    ASSUME NEW d \in Kept, NEW texts \in Seq(Texts), NEW isHistory \in BOOLEAN
    PROVE  \E a : Results(a, Kept, texts, d, TextStep(isHistory)) /\ FoldLeft(LAMBDA s, t : UserText(s, t, isHistory), d, texts) = a[Len(texts)]
<1> DEFINE T == Kept
           E == Texts
           g == TextStep(isHistory)
           IsIter(f) == f = [S \in SUBSET DOMAIN texts |->
                               IF S = {} THEN d ELSE UserText(f[S \ {Max(S)}], texts[Max(S)], isHistory)]
           iter == CHOOSE f : IsIter(f)
<1>0. texts \in Seq(E) /\ StepOn(g, T, E) /\ \A v \in T, k \in E : g[<<v, k>>] = UserText(v, k, isHistory)
  <2>1. ASSUME NEW v \in T, NEW k \in E PROVE UserText(v, k, isHistory) \in T
    BY UserTextKept DEF Goes
  <2> HIDE DEF T, E
  <2>2. \A x \in T \X E : x[1] \in T /\ x[2] \in E OBVIOUS
  <2>3. QED BY <2>1, <2>2 DEF StepOn, TextStep, T, E
<1>1. FoldLeft(LAMBDA s, t : UserText(s, t, isHistory), d, texts) = iter[DOMAIN texts]
  BY DEF FoldLeft, MapThenFoldSet
<1>2. d \in T
  OBVIOUS
<1> HIDE DEF T, E, g
<1>3. \E f : IsIter(f)
  <2>1. PICK f : Unfolds(f, T, E, texts, d, g) /\ Typed(f, T, E, texts)
    BY <1>0, <1>2, FoldExists
  <2>2. ASSUME NEW S \in SUBSET DOMAIN texts
        PROVE  f[S] = IF S = {} THEN d ELSE UserText(f[S \ {Max(S)}], texts[Max(S)], isHistory)
    BY <2>1, <1>0 DEF Unfolds, Typed
  <2>3. IsIter(f)
    BY <2>1, <2>2 DEF Typed
  <2>4. QED BY <2>3
<1>4. IsIter(iter)
  <2> HIDE DEF IsIter
  <2>1. QED BY <1>3
<1>5. iter[{}] = d
  BY <1>4
<1>6. ASSUME NEW S \in SUBSET DOMAIN texts, S # {}, iter[S \ {Max(S)}] \in T, texts[Max(S)] \in E
      PROVE  iter[S] = g[<<iter[S \ {Max(S)}], texts[Max(S)]>>]
  <2>1. iter[S] = UserText(iter[S \ {Max(S)}], texts[Max(S)], isHistory)
    <3> HIDE DEF iter
    <3>1. QED BY <1>4, <1>6
  <2>2. QED BY <2>1, <1>6, <1>0
<1> HIDE DEF iter, IsIter
<1>7. Unfolds(iter, T, E, texts, d, g)
  BY <1>5, <1>6 DEF Unfolds
<1>8. PICK a : Results(a, T, texts, d, g) /\ iter[DOMAIN texts] = a[Len(texts)]
  BY <1>0, <1>2, <1>7, FoldSteps
<1>9. QED BY <1>1, <1>8 DEF T, g

\* The results of a message.
LEMMA ResultSteps ==
    ASSUME NEW d \in Kept, NEW results \in Seq(CallResult)
    PROVE  \E a : Results(a, Kept, results, d, ResultStep) /\ FoldLeft(LAMBDA s, r : ToolResult(s, r.id, r.failed), d, results) = a[Len(results)]
<1> DEFINE T == Kept
           E == CallResult
           g == ResultStep
           IsIter(f) == f = [S \in SUBSET DOMAIN results |->
                               IF S = {} THEN d ELSE ToolResult(f[S \ {Max(S)}], results[Max(S)].id, results[Max(S)].failed)]
           iter == CHOOSE f : IsIter(f)
<1>0. results \in Seq(E) /\ StepOn(g, T, E) /\ \A v \in T, k \in E : g[<<v, k>>] = ToolResult(v, k.id, k.failed)
  <2>1. ASSUME NEW v \in T, NEW k \in E PROVE ToolResult(v, k.id, k.failed) \in T
    BY ToolResultKept DEF Goes, CallResult
  <2> HIDE DEF T, E
  <2>2. \A x \in T \X E : x[1] \in T /\ x[2] \in E OBVIOUS
  <2>3. QED BY <2>1, <2>2 DEF StepOn, ResultStep, T, E
<1>1. FoldLeft(LAMBDA s, r : ToolResult(s, r.id, r.failed), d, results) = iter[DOMAIN results]
  BY DEF FoldLeft, MapThenFoldSet
<1>2. d \in T
  OBVIOUS
<1> HIDE DEF T, E, g
<1>3. \E f : IsIter(f)
  <2>1. PICK f : Unfolds(f, T, E, results, d, g) /\ Typed(f, T, E, results)
    BY <1>0, <1>2, FoldExists
  <2>2. ASSUME NEW S \in SUBSET DOMAIN results
        PROVE  f[S] = IF S = {} THEN d ELSE ToolResult(f[S \ {Max(S)}], results[Max(S)].id, results[Max(S)].failed)
    BY <2>1, <1>0 DEF Unfolds, Typed
  <2>3. IsIter(f)
    BY <2>1, <2>2 DEF Typed
  <2>4. QED BY <2>3
<1>4. IsIter(iter)
  <2> HIDE DEF IsIter
  <2>1. QED BY <1>3
<1>5. iter[{}] = d
  BY <1>4
<1>6. ASSUME NEW S \in SUBSET DOMAIN results, S # {}, iter[S \ {Max(S)}] \in T, results[Max(S)] \in E
      PROVE  iter[S] = g[<<iter[S \ {Max(S)}], results[Max(S)]>>]
  <2>1. iter[S] = ToolResult(iter[S \ {Max(S)}], results[Max(S)].id, results[Max(S)].failed)
    <3> HIDE DEF iter
    <3>1. QED BY <1>4, <1>6
  <2>2. QED BY <2>1, <1>6, <1>0
<1> HIDE DEF iter, IsIter
<1>7. Unfolds(iter, T, E, results, d, g)
  BY <1>5, <1>6 DEF Unfolds
<1>8. PICK a : Results(a, T, results, d, g) /\ iter[DOMAIN results] = a[Len(results)]
  BY <1>0, <1>2, <1>7, FoldSteps
<1>9. QED BY <1>1, <1>8 DEF T, g

\* A message of the assistant announces the calls of its blocks (model.ts, assistant).
LEMMA MessageKept ==
    ASSUME NEW d \in Kept, NEW e, e.type = "assistant", IsAssistant(e), NEW isHistory \in BOOLEAN
    PROVE  Goes(d, assistant(d, e, isHistory), Uses(e))
<1> DEFINE m == FoldLeft(LAMBDA s, b : AssistantBlock(s, b, isHistory), d, e.blocks)
<1>a. assistant(d, e, isHistory) = m
  BY DEF assistant
<1>b. e.blocks \in Seq(Blocks)
  BY DEF IsAssistant, Blocks
<1>c. PICK a : Results(a, Kept, e.blocks, d, BlockStep(isHistory)) /\ m = a[Len(e.blocks)]
  BY <1>b, AssistantSteps
<1> HIDE DEF m
<1> DEFINE s == e.blocks
           U == [i \in DOMAIN s |-> Announced(s[i])]
<1>1. s \in Seq(Blocks)
  BY <1>b
<1>3. Results(a, Kept, s, d, BlockStep(isHistory)) /\ assistant(d, e, isHistory) = a[Len(s)]
  BY <1>a, <1>c
<1>4. Uses(e) = UNION {Announced(s[k]) : k \in DOMAIN s}
  BY DEF Uses
<1>5. \A i, j \in DOMAIN s : Announced(s[i]) \cap Announced(s[j]) # {} => i = j
  BY DEF IsAssistant, Announced
<1> HIDE DEF s
<1>6. DOMAIN s = 1 .. Len(s) /\ \A i \in 1 .. Len(s) : s[i] \in Blocks
  BY <1>1
<1>7. ASSUME NEW i \in 1 .. Len(s) PROVE Goes(a[i - 1], a[i], U[i])
  <2>1. a[i] = BlockStep(isHistory)[<<a[i - 1], s[i]>>] /\ a[i - 1] \in Kept
    <3>1. i - 1 \in 0 .. Len(s) BY <1>1
    <3>2. QED BY <1>3, <3>1 DEF Results
  <2>2. s[i] \in Blocks BY <1>6
  <2>3. a[i] = AssistantBlock(a[i - 1], s[i], isHistory) BY <2>1, <2>2 DEF BlockStep
  <2>4. Goes(a[i - 1], AssistantBlock(a[i - 1], s[i], isHistory), Announced(s[i]))
    BY <2>1, <2>2, BlockKept DEF Blocks
  <2>5. U[i] = Announced(s[i]) BY <1>6
  <2>6. QED BY <2>3, <2>4, <2>5
<1>8. \A i, j \in 1 .. Len(s) : U[i] \cap U[j] # {} => i = j
  BY <1>5, <1>6
<1>9. AllOf(U, Len(s)) = Uses(e)
  BY <1>4, <1>6 DEF AllOf
<1> HIDE DEF U
<1>10. Goes(d, a[Len(s)], AllOf(U, Len(s)))
  <2>1. GoesBy(a, U, Len(s)) BY <1>7, <1>8 DEF GoesBy
  <2>2. QED BY <2>1, <1>1, <1>3, FoldGoes
<1>11. QED BY <1>3, <1>9, <1>10

\* A fold of steps that announce nothing.
LEMMA FoldGoesOn ==
    ASSUME NEW d \in Kept, NEW E, NEW s \in Seq(E), NEW g, NEW a, Results(a, Kept, s, d, g),
           \A v \in Kept, k \in E : Goes(v, g[<<v, k>>], {})
    PROVE  Goes(d, a[Len(s)], {})
<1> DEFINE U == [i \in 1 .. Len(s) |-> {}]
<1>1. ASSUME NEW i \in 1 .. Len(s) PROVE Goes(a[i - 1], a[i], U[i])
  <2>1. i - 1 \in 0 .. Len(s) /\ s[i] \in E OBVIOUS
  <2>2. a[i] = g[<<a[i - 1], s[i]>>] /\ a[i - 1] \in Kept BY <2>1 DEF Results
  <2>3. QED BY <2>1, <2>2
<1>2. (\A i, j \in 1 .. Len(s) : U[i] \cap U[j] # {} => i = j) /\ AllOf(U, Len(s)) = {}
  BY DEF AllOf
<1> HIDE DEF U
<1>3. GoesBy(a, U, Len(s))
  BY <1>1, <1>2 DEF GoesBy
<1>4. QED BY <1>2, <1>3, FoldGoes

\* An event of the user announces none (model.ts, user).
LEMMA UserKept ==
    ASSUME NEW d \in Kept, NEW e, e.texts \in Seq(Texts), e.results \in Seq(CallResult), NEW isHistory \in BOOLEAN
    PROVE  Goes(d, user(d, e, isHistory), {})
<1> DEFINE m == FoldLeft(LAMBDA s, t : UserText(s, t, isHistory), d, e.texts)
<1>1. user(d, e, isHistory) = FoldLeft(LAMBDA s, r : ToolResult(s, r.id, r.failed), m, e.results)
  BY DEF user
<1>2. Goes(d, m, {}) /\ m \in Kept
  <2>1. PICK a : Results(a, Kept, e.texts, d, TextStep(isHistory)) /\ m = a[Len(e.texts)]
    BY TextSteps
  <2>2. \A v \in Kept, k \in Texts : Goes(v, TextStep(isHistory)[<<v, k>>], {})
    <3>1. ASSUME NEW v \in Kept, NEW k \in Texts PROVE TextStep(isHistory)[<<v, k>>] = UserText(v, k, isHistory)
      BY DEF TextStep
    <3>2. QED BY <3>1, UserTextKept
  <2> HIDE DEF m
  <2>3. Goes(d, m, {}) BY <2>1, <2>2, FoldGoesOn
  <2>4. QED BY <2>3 DEF Goes
<1> HIDE DEF m
<1>3. Goes(m, user(d, e, isHistory), {})
  <2>1. PICK a : /\ Results(a, Kept, e.results, m, ResultStep)
                 /\ FoldLeft(LAMBDA s, r : ToolResult(s, r.id, r.failed), m, e.results) = a[Len(e.results)]
    BY <1>2, ResultSteps
  <2>2. \A v \in Kept, k \in CallResult : Goes(v, ResultStep[<<v, k>>], {})
    <3>1. ASSUME NEW v \in Kept, NEW k \in CallResult PROVE ResultStep[<<v, k>>] = ToolResult(v, k.id, k.failed)
      BY DEF ResultStep
    <3>2. QED BY <3>1, ToolResultKept DEF CallResult
  <2>3. user(d, e, isHistory) = a[Len(e.results)] BY <1>1, <2>1
  <2>4. QED BY <1>2, <2>1, <2>2, <2>3, FoldGoesOn
<1>4. QED BY <1>2, <1>3, Then

\* An event is reduced.
LEMMA Reduced ==
    ASSUME NEW d \in Kept, NEW e, IsEvent(e), NEW isHistory \in BOOLEAN
    PROVE  Goes(d, reduce(d, e, isHistory), Uses(e))
<1>1. e.type # "assistant" => Uses(e) = {}
  BY DEF Uses
<1>2. CASE e.type = "system"
  <2>1. reduce(d, e, isHistory) = system(d, e) BY <1>2 DEF reduce
  <2>2. QED BY <1>1, <1>2, <2>1, SystemKept DEF IsEvent
<1>3. CASE e.type = "assistant"
  <2>1. reduce(d, e, isHistory) = assistant(d, e, isHistory) BY <1>3 DEF reduce
  <2>2. QED BY <1>3, <2>1, MessageKept DEF IsEvent
<1>4. CASE e.type = "user"
  <2>1. reduce(d, e, isHistory) = user(d, e, isHistory) BY <1>4 DEF reduce
  <2>2. QED BY <1>1, <1>4, <2>1, UserKept DEF IsEvent
<1>5. CASE e.type = "result"
  <2>1. reduce(d, e, isHistory) = result(d, e.failed) BY <1>5 DEF reduce
  <2>2. QED BY <1>1, <1>5, <2>1, ResultKept DEF IsEvent
<1>6. CASE e.type = "control_request"
  <2>1. reduce(d, e, isHistory) = controlRequest(d, e) BY <1>6 DEF reduce
  <2>2. QED BY <1>1, <1>6, <2>1, RequestKept DEF IsEvent
<1>7. CASE e.type = "control_cancel_request"
  <2>1. reduce(d, e, isHistory) = controlCancel(d, e.request) BY <1>7 DEF reduce
  <2>2. QED BY <1>1, <1>7, <2>1, CancelKept
<1>8. CASE e.type = "stream_event"
  <2>1. reduce(d, e, isHistory) = streamEvent(d, e, isHistory) BY <1>8 DEF reduce
  <2>2. QED BY <1>1, <1>8, <2>1, StreamKept
<1>9. CASE e.type = "reset"
  <2>1. reduce(d, e, isHistory) = conversationReset(d) BY <1>9 DEF reduce
  <2>2. QED BY <1>1, <1>9, <2>1, ResetKept
<1>10. CASE e.type = "rate_limit"
  <2>1. reduce(d, e, isHistory) = IF e.allowed THEN d ELSE push(d, Note("line")) BY <1>10 DEF reduce
  <2>2. QED BY <1>1, <1>10, <2>1, NotePushed, GoesNowhere
<1>11. CASE e.type = "unknown"
  <2>1. reduce(d, e, isHistory) = markUnknown(d, e.shape) BY <1>11 DEF reduce
  <2>2. QED BY <1>1, <1>11, <2>1, UnknownMarked DEF IsEvent
<1>12. CASE e.type = "ignored"
  <2>1. reduce(d, e, isHistory) = d BY <1>12 DEF reduce
  <2>2. QED BY <1>1, <1>12, <2>1, GoesNowhere
<1>13. QED BY <1>2, <1>3, <1>4, <1>5, <1>6, <1>7, <1>8, <1>9, <1>10, <1>11, <1>12 DEF IsEvent

-----------------------------------------------------------------------------
(* A history replayed.                                                     *)

\* The screen a session opens with shows no call (model.ts, initialState).
LEMMA InitiallyKept == initialState \in Kept /\ Exact(initialState) /\ DOMAIN initialState.index = {}
<1> DEFINE d == initialState
<1>1. /\ d.items = <<>> /\ d.index = <<>> /\ d.pendingWeb = <<>> /\ d.todos = <<>>
      /\ d.live.running = Null /\ d.live.permission = Null /\ d.live.asked = Null /\ d.live \in Live
      /\ d = [items |-> d.items, index |-> d.index, pendingWeb |-> d.pendingWeb, todos |-> d.todos, live |-> d.live]
  BY DEF initialState, Live
<1>2. /\ <<>> \in Seq(Item) /\ <<>> \in Seq(Texts) /\ <<>> \in Seq(TodoTask)
      /\ <<>> \in [{} -> Nat \X Nat] /\ DOMAIN <<>> = {}
  <2> HIDE DEF Item
  <2>1. QED OBVIOUS
<1>3. <<>> \in Index
  <2>1. {} \in SUBSET Calls OBVIOUS
  <2>2. QED BY <1>2, <2>1 DEF Index
<1> HIDE DEF d
<1>4. DOMAIN d.items = {} /\ DOMAIN d.index = {}
  BY <1>1, <1>2
<1>5. d \in Screen
  BY <1>1, <1>2, <1>3 DEF Screen
<1>6. d \in Kept
  BY <1>1, <1>4, <1>5 DEF Kept, InPlace, OneEach, Fresh
<1>7. Exact(d)
  BY <1>1, <1>4 DEF Exact, AllNoted, LineOpen
<1>8. QED BY <1>4, <1>6, <1>7 DEF d

ReplayStep(E) == [x \in Kept \X E |-> reduce(x[1], x[2], TRUE)]

\* The events of a history, one after the other.
LEMMA ReplaySteps ==
    ASSUME NEW E, NEW events \in Seq(E), \A e \in E : IsEvent(e)
    PROVE  \E a : Results(a, Kept, events, initialState, ReplayStep(E)) /\ FoldLeft(LAMBDA d, e : reduce(d, e, TRUE), initialState, events) = a[Len(events)]
<1> DEFINE T == Kept
           g == ReplayStep(E)
           IsIter(f) == f = [S \in SUBSET DOMAIN events |->
                               IF S = {} THEN initialState ELSE reduce(f[S \ {Max(S)}], events[Max(S)], TRUE)]
           iter == CHOOSE f : IsIter(f)
<1>0. events \in Seq(E) /\ StepOn(g, T, E) /\ \A v \in T, k \in E : g[<<v, k>>] = reduce(v, k, TRUE)
  <2>1. ASSUME NEW v \in T, NEW k \in E PROVE reduce(v, k, TRUE) \in T
    BY Reduced DEF Goes
  <2> HIDE DEF T
  <2>2. \A x \in T \X E : x[1] \in T /\ x[2] \in E OBVIOUS
  <2>3. QED BY <2>1, <2>2 DEF StepOn, ReplayStep, T
<1>1. FoldLeft(LAMBDA d, e : reduce(d, e, TRUE), initialState, events) = iter[DOMAIN events]
  BY DEF FoldLeft, MapThenFoldSet
<1>2. initialState \in T
  BY InitiallyKept DEF T
<1> HIDE DEF T, g
<1>3. \E f : IsIter(f)
  <2>1. PICK f : Unfolds(f, T, E, events, initialState, g) /\ Typed(f, T, E, events)
    BY <1>0, <1>2, FoldExists
  <2>2. ASSUME NEW S \in SUBSET DOMAIN events
        PROVE  f[S] = IF S = {} THEN initialState ELSE reduce(f[S \ {Max(S)}], events[Max(S)], TRUE)
    BY <2>1, <1>0 DEF Unfolds, Typed
  <2>3. IsIter(f)
    BY <2>1, <2>2 DEF Typed
  <2>4. QED BY <2>3
<1>4. IsIter(iter)
  <2> HIDE DEF IsIter
  <2>1. QED BY <1>3
<1>5. iter[{}] = initialState
  BY <1>4
<1>6. ASSUME NEW S \in SUBSET DOMAIN events, S # {}, iter[S \ {Max(S)}] \in T, events[Max(S)] \in E
      PROVE  iter[S] = g[<<iter[S \ {Max(S)}], events[Max(S)]>>]
  <2>1. iter[S] = reduce(iter[S \ {Max(S)}], events[Max(S)], TRUE)
    <3> HIDE DEF iter
    <3>1. QED BY <1>4, <1>6
  <2>2. QED BY <2>1, <1>6, <1>0
<1> HIDE DEF iter, IsIter
<1>7. Unfolds(iter, T, E, events, initialState, g)
  BY <1>5, <1>6 DEF Unfolds
<1>8. PICK a : Results(a, T, events, initialState, g) /\ iter[DOMAIN events] = a[Len(events)]
  BY <1>0, <1>2, <1>7, FoldSteps
<1>9. QED BY <1>1, <1>8 DEF T, g

\* Events, no two of which announce the same call.
Events(s) == \E E : s \in Seq(E) /\ \A e \in E : IsEvent(e)
UsedBy(s) == UNION {Uses(s[i]) : i \in DOMAIN s}
Apart(s) == \A i, j \in DOMAIN s : Uses(s[i]) \cap Uses(s[j]) # {} => i = j

\* A log replayed shows the calls it announces, each at its place (model.ts, replay).
LEMMA ReplayedKept ==
    ASSUME NEW events, Events(events), Apart(events), NEW active \in BOOLEAN
    PROVE  LET n == Replayed(events, active)
           IN  n \in Kept /\ Exact(n) /\ DOMAIN n.index \subseteq UsedBy(events)
<1> DEFINE m == FoldLeft(LAMBDA d, e : reduce(d, e, TRUE), initialState, events)
           b == active /\ turnActiveIn(events)
           U == [i \in DOMAIN events |-> Uses(events[i])]
<1>1. PICK E : events \in Seq(E) /\ \A e \in E : IsEvent(e)
  BY DEF Events
<1>2. PICK a : Results(a, Kept, events, initialState, ReplayStep(E)) /\ m = a[Len(events)]
  BY <1>1, ReplaySteps
<1>3. Replayed(events, active) = [m EXCEPT !.live.busy = b]
  BY DEF Replayed
<1>4. b \in BOOLEAN
  BY DEF turnActiveIn
<1> HIDE DEF m, b
<1>5. DOMAIN events = 1 .. Len(events) /\ \A i \in 1 .. Len(events) : events[i] \in E
  BY <1>1
<1>6. GoesBy(a, U, Len(events))
  <2>1. ASSUME NEW i \in 1 .. Len(events) PROVE Goes(a[i - 1], a[i], U[i])
    <3>1. i - 1 \in 0 .. Len(events) BY <1>1
    <3>2. a[i] = ReplayStep(E)[<<a[i - 1], events[i]>>] /\ a[i - 1] \in Kept BY <1>2, <3>1 DEF Results
    <3>3. a[i] = reduce(a[i - 1], events[i], TRUE) BY <1>5, <3>2 DEF ReplayStep
    <3>4. Goes(a[i - 1], reduce(a[i - 1], events[i], TRUE), Uses(events[i])) BY <1>1, <1>5, <3>2, Reduced
    <3>5. U[i] = Uses(events[i]) BY <1>5
    <3>6. QED BY <3>3, <3>4, <3>5
  <2>2. \A i, j \in 1 .. Len(events) : U[i] \cap U[j] # {} => i = j BY <1>5 DEF Apart
  <2>3. QED BY <2>1, <2>2 DEF GoesBy
<1>7. AllOf(U, Len(events)) = UsedBy(events)
  BY <1>5 DEF AllOf, UsedBy
<1> HIDE DEF U
<1>8. Goes(initialState, m, UsedBy(events))
  BY <1>1, <1>2, <1>6, <1>7, InitiallyKept, FoldGoes
<1>9. m \in Kept /\ Exact(m) /\ DOMAIN m.index \subseteq UsedBy(events)
  BY <1>8, InitiallyKept DEF Goes
<1>10. Goes(m, [m EXCEPT !.live.busy = b], {})
  BY <1>4, <1>9, CompactedKept
<1>11. QED BY <1>3, <1>9, <1>10 DEF Goes

-----------------------------------------------------------------------------
(* The blocks a draft comes to.                                            *)

DraftChunk == [block : Stream, chunk : Chunk]
Joined(blocks, c) ==
    LET b == TextBlock(c.block, <<c.chunk>>)
    IN  IF blocks # <<>> /\ Last(blocks).type = b.type
        THEN [blocks EXCEPT ![Len(blocks)].text = @ \o b.text]
        ELSE Append(blocks, b)
WholeStep == [x \in Seq(TextBlocks) \X DraftChunk |-> Joined(x[1], x[2])]

\* A chunk more.
LEMMA ChunkJoined ==
    ASSUME NEW blocks \in Seq(TextBlocks), NEW c \in DraftChunk
    PROVE  Joined(blocks, c) \in Seq(TextBlocks)
<1> DEFINE b == TextBlock(c.block, <<c.chunk>>)
           k == Len(blocks)
           x == [blocks[k] EXCEPT !.text = @ \o b.text]
<1>1. c.block \in Stream /\ c.chunk \in Chunk
  BY DEF DraftChunk
<1>2. <<c.chunk>> \in Seq(Chunk)
  <2> HIDE DEF Chunk
  <2>1. QED BY <1>1
<1>3. b \in TextBlocks /\ b.text \in Seq(Chunk)
  BY <1>2 DEF TextBlock, TextBlocks
<1> HIDE DEF b
<1>4. Append(blocks, b) \in Seq(TextBlocks)
  <2> HIDE DEF TextBlocks
  <2>1. QED BY <1>3
<1>5. CASE blocks # <<>>
  <2>1. k \in DOMAIN blocks /\ blocks[k] \in TextBlocks
    <3> HIDE DEF TextBlocks
    <3>1. QED BY <1>5
  <2>2. blocks[k].text \o b.text \in Seq(Chunk)
    <3>1. blocks[k].text \in Seq(Chunk) BY <2>1 DEF TextBlocks
    <3> HIDE DEF Chunk
    <3>2. QED BY <3>1, <1>3
  <2>3. x \in TextBlocks BY <2>1, <2>2 DEF TextBlocks
  <2>4. [blocks EXCEPT ![Len(blocks)].text = @ \o b.text] = [blocks EXCEPT ![k] = x]
    OBVIOUS
  <2> HIDE DEF x, k, TextBlocks
  <2>5. [blocks EXCEPT ![k] = x] \in Seq(TextBlocks) BY <2>1, <2>3
  <2>6. QED BY <1>4, <2>4, <2>5 DEF Joined, b
<1>6. CASE blocks = <<>>
  BY <1>4, <1>6 DEF Joined, b
<1>7. QED BY <1>5, <1>6

\* The chunks of a draft.
LEMMA WholeSteps ==
    ASSUME NEW draft, NEW front \in Seq(DraftChunk), front = Front(draft)
    PROVE  \E a : Results(a, Seq(TextBlocks), front, <<>>, WholeStep) /\ Whole(draft) = a[Len(front)]
<1> DEFINE T == Seq(TextBlocks)
           E == DraftChunk
           g == WholeStep
           IsIter(f) == f = [S \in SUBSET DOMAIN front |->
                               IF S = {} THEN <<>> ELSE Joined(f[S \ {Max(S)}], front[Max(S)])]
           iter == CHOOSE f : IsIter(f)
<1>0. front \in Seq(E) /\ StepOn(g, T, E) /\ \A v \in T, k \in E : g[<<v, k>>] = Joined(v, k)
  <2>1. ASSUME NEW v \in T, NEW k \in E PROVE Joined(v, k) \in T
    BY ChunkJoined
  <2> HIDE DEF T, E
  <2>2. \A x \in T \X E : x[1] \in T /\ x[2] \in E OBVIOUS
  <2>3. QED BY <2>1, <2>2 DEF StepOn, WholeStep, T, E
<1>1. Whole(draft) = iter[DOMAIN front]
  BY DEF Whole, Joined, FoldLeft, MapThenFoldSet
<1>2. <<>> \in T
  OBVIOUS
<1> HIDE DEF T, E, g
<1>3. \E f : IsIter(f)
  <2>1. PICK f : Unfolds(f, T, E, front, <<>>, g) /\ Typed(f, T, E, front)
    BY <1>0, <1>2, FoldExists
  <2>2. ASSUME NEW S \in SUBSET DOMAIN front
        PROVE  f[S] = IF S = {} THEN <<>> ELSE Joined(f[S \ {Max(S)}], front[Max(S)])
    BY <2>1, <1>0 DEF Unfolds, Typed
  <2>3. IsIter(f)
    BY <2>1, <2>2 DEF Typed
  <2>4. QED BY <2>3
<1>4. IsIter(iter)
  <2> HIDE DEF IsIter
  <2>1. QED BY <1>3
<1>5. iter[{}] = <<>>
  BY <1>4
<1>6. ASSUME NEW S \in SUBSET DOMAIN front, S # {}, iter[S \ {Max(S)}] \in T, front[Max(S)] \in E
      PROVE  iter[S] = g[<<iter[S \ {Max(S)}], front[Max(S)]>>]
  <2>1. iter[S] = Joined(iter[S \ {Max(S)}], front[Max(S)])
    <3> HIDE DEF iter
    <3>1. QED BY <1>4, <1>6
  <2>2. QED BY <2>1, <1>6, <1>0
<1> HIDE DEF iter, IsIter
<1>7. Unfolds(iter, T, E, front, <<>>, g)
  BY <1>5, <1>6 DEF Unfolds
<1>8. PICK a : Results(a, T, front, <<>>, g) /\ iter[DOMAIN front] = a[Len(front)]
  BY <1>0, <1>2, <1>7, FoldSteps
<1>9. QED BY <1>1, <1>8 DEF T, g

\* The blocks of a message are those its draft streamed.
LEMMA WholeType ==
    ASSUME NEW draft, Front(draft) \in Seq(DraftChunk) PROVE Whole(draft) \in Seq(TextBlocks)
<1> DEFINE s == Front(draft)
<1>1. PICK a : Results(a, Seq(TextBlocks), s, <<>>, WholeStep) /\ Whole(draft) = a[Len(s)]
  BY WholeSteps
<1>2. Len(s) \in 0 .. Len(s)
  <2> HIDE DEF s
  <2>1. Len(s) \in Nat BY DEF s
  <2>2. QED BY <2>1
<1>3. QED BY <1>1, <1>2 DEF Results

-----------------------------------------------------------------------------
(* The invariant: what the worker is, what it has announced, and where the *)
(* announcements are.                                                      *)

\* A draft: chunks, and at the end possibly the stop.
Stopped == [block |-> "stopped"]
Drafts == {draft \in Seq(DraftChunk \cup {Stopped}) :
               \A i \in DOMAIN draft : i < Len(draft) => draft[i] \in DraftChunk}
Workers == [turn : BOOLEAN, gone : BOOLEAN, draft : Drafts, messages : Nat,
            calls : [Calls -> {"new", "open", "asking", "over"}],
            kind : [Calls -> {"none", "plain", "hidden", "question", "create", "update"}],
            tasks : SUBSET TaskNames]
WorkerOK == worker \in Workers /\ inbox \in Seq(Texts)

Begun == {c \in Calls : worker.calls[c] # "new"}
Announcements ==
    /\ Events(log) /\ Apart(log) /\ UsedBy(log) \subseteq Begun
    /\ Events(wire) /\ Apart(wire) /\ UsedBy(wire) \subseteq Begun
ScreenOK ==
    /\ screen \in Kept /\ Exact(screen) /\ DOMAIN screen.index \subseteq Begun
    /\ DOMAIN screen.index \cap UsedBy(wire) = {}
ChatInv == WorkerOK /\ Announcements /\ ScreenOK

\* An event appended to a log announces its own calls.
LEMMA EventsAppend ==
    ASSUME NEW s, Events(s), NEW e, IsEvent(e)
    PROVE  /\ Events(Append(s, e)) /\ UsedBy(Append(s, e)) = UsedBy(s) \cup Uses(e)
           /\ Apart(s) /\ Uses(e) \cap UsedBy(s) = {} => Apart(Append(s, e))
<1>1. PICK E : s \in Seq(E) /\ \A x \in E : IsEvent(x)
  BY DEF Events
<1> DEFINE t == Append(s, e)
           n == Len(s)
<1>2. /\ n \in Nat /\ DOMAIN s = 1 .. n /\ DOMAIN t = 1 .. n + 1 /\ t[n + 1] = e
      /\ \A i \in 1 .. n : t[i] = s[i]
  BY <1>1
<1>3. Events(t)
  <2>1. t \in Seq(E \cup {e}) BY <1>1
  <2>2. \A x \in E \cup {e} : IsEvent(x) BY <1>1
  <2>3. QED BY <2>1, <2>2 DEF Events
<1> HIDE DEF t, n
<1>4. UsedBy(t) = UsedBy(s) \cup Uses(e)
  <2>1. ASSUME NEW x \in UsedBy(t) PROVE x \in UsedBy(s) \cup Uses(e)
    <3>1. PICK i \in DOMAIN t : x \in Uses(t[i]) BY DEF UsedBy
    <3>2. CASE i = n + 1 BY <3>1, <3>2, <1>2
    <3>3. CASE i \in 1 .. n BY <3>1, <3>3, <1>2 DEF UsedBy
    <3>4. QED BY <3>1, <3>2, <3>3, <1>2
  <2>2. ASSUME NEW x \in UsedBy(s) PROVE x \in UsedBy(t)
    <3>1. PICK i \in DOMAIN s : x \in Uses(s[i]) BY DEF UsedBy
    <3>2. i \in DOMAIN t /\ t[i] = s[i] BY <3>1, <1>2
    <3>3. QED BY <3>1, <3>2 DEF UsedBy
  <2>3. ASSUME NEW x \in Uses(e) PROVE x \in UsedBy(t)
    <3>1. n + 1 \in DOMAIN t BY <1>2
    <3>2. QED BY <3>1, <1>2, <2>3 DEF UsedBy
  <2>4. QED BY <2>1, <2>2, <2>3
<1>5. ASSUME Apart(s), Uses(e) \cap UsedBy(s) = {} PROVE Apart(t)
  <2>1. ASSUME NEW i \in 1 .. n PROVE Uses(s[i]) \cap Uses(e) = {}
    BY <1>2, <1>5 DEF UsedBy
  <2>2. ASSUME NEW i \in DOMAIN t, NEW j \in DOMAIN t, Uses(t[i]) \cap Uses(t[j]) # {} PROVE i = j
    <3>1. (i \in 1 .. n \/ i = n + 1) /\ (j \in 1 .. n \/ j = n + 1) BY <1>2
    <3>2. CASE i \in 1 .. n /\ j \in 1 .. n BY <3>2, <2>2, <1>2, <1>5 DEF Apart
    <3>3. CASE i = n + 1 /\ j \in 1 .. n
      <4>1. t[i] = e /\ t[j] = s[j] BY <3>3, <1>2
      <4>2. QED BY <4>1, <3>3, <2>1, <2>2
    <3>4. CASE i \in 1 .. n /\ j = n + 1
      <4>1. t[j] = e /\ t[i] = s[i] BY <3>4, <1>2
      <4>2. QED BY <4>1, <3>4, <2>1, <2>2
    <3>5. QED BY <3>1, <3>2, <3>3, <3>4
  <2>3. QED BY <2>2 DEF Apart
<1>6. QED BY <1>3, <1>4, <1>5 DEF t

\* The event at the head of a queue is one, and announces calls the rest does not.
LEMMA EventsTail ==
    ASSUME NEW s, Events(s), Apart(s), s # <<>>
    PROVE  /\ IsEvent(Head(s)) /\ Events(Tail(s)) /\ Apart(Tail(s))
           /\ UsedBy(s) = Uses(Head(s)) \cup UsedBy(Tail(s)) /\ Uses(Head(s)) \cap UsedBy(Tail(s)) = {}
<1>1. PICK E : s \in Seq(E) /\ \A x \in E : IsEvent(x)
  BY DEF Events
<1> DEFINE t == Tail(s)
           n == Len(t)
<1>2. /\ Head(s) = s[1] /\ s[1] \in E /\ t \in Seq(E) /\ n \in Nat /\ DOMAIN s = 1 .. n + 1 /\ DOMAIN t = 1 .. n
      /\ \A i \in 1 .. n : t[i] = s[i + 1]
  BY <1>1
<1>3. Events(t) /\ IsEvent(Head(s))
  BY <1>1, <1>2 DEF Events
<1> HIDE DEF t, n
<1>4. UsedBy(s) = Uses(Head(s)) \cup UsedBy(t)
  <2>1. ASSUME NEW x \in UsedBy(s) PROVE x \in Uses(Head(s)) \cup UsedBy(t)
    <3>1. PICK i \in DOMAIN s : x \in Uses(s[i]) BY DEF UsedBy
    <3>2. CASE i = 1 BY <3>1, <3>2, <1>2
    <3>3. CASE i # 1
      <4>1. i - 1 \in 1 .. n /\ (i - 1) + 1 = i BY <3>1, <3>3, <1>2
      <4>2. t[i - 1] = s[i] BY <4>1, <1>2
      <4>3. QED BY <4>1, <4>2, <3>1, <1>2 DEF UsedBy
    <3>4. QED BY <3>2, <3>3
  <2>2. ASSUME NEW x \in UsedBy(t) PROVE x \in UsedBy(s)
    <3>1. PICK i \in DOMAIN t : x \in Uses(t[i]) BY DEF UsedBy
    <3>2. i + 1 \in DOMAIN s /\ t[i] = s[i + 1] BY <3>1, <1>2
    <3>3. QED BY <3>1, <3>2 DEF UsedBy
  <2>3. ASSUME NEW x \in Uses(Head(s)) PROVE x \in UsedBy(s)
    <3>1. 1 \in DOMAIN s BY <1>2
    <3>2. QED BY <3>1, <1>2, <2>3 DEF UsedBy
  <2>4. QED BY <2>1, <2>2, <2>3
<1>5. Uses(Head(s)) \cap UsedBy(t) = {}
  <2>1. ASSUME NEW x \in Uses(Head(s)), x \in UsedBy(t) PROVE FALSE
    <3>1. PICK i \in DOMAIN t : x \in Uses(t[i]) BY <2>1 DEF UsedBy
    <3>2. i + 1 \in DOMAIN s /\ 1 \in DOMAIN s /\ t[i] = s[i + 1] /\ i + 1 # 1 BY <3>1, <1>2
    <3>3. Uses(s[1]) \cap Uses(s[i + 1]) # {} BY <3>1, <3>2, <2>1, <1>2
    <3>4. 1 = i + 1 BY <3>2, <3>3 DEF Apart
    <3>5. QED BY <3>2, <3>4
  <2>2. QED BY <2>1
<1>6. Apart(t)
  <2>1. ASSUME NEW i \in DOMAIN t, NEW j \in DOMAIN t, Uses(t[i]) \cap Uses(t[j]) # {} PROVE i = j
    <3>1. i + 1 \in DOMAIN s /\ j + 1 \in DOMAIN s /\ t[i] = s[i + 1] /\ t[j] = s[j + 1] BY <1>2
    <3>2. i + 1 = j + 1 BY <3>1, <2>1 DEF Apart
    <3>3. QED BY <3>2, <1>2
  <2>2. QED BY <2>1 DEF Apart
<1>7. QED BY <1>3, <1>4, <1>5, <1>6 DEF t

\* No event announces no call.
LEMMA NoEvents == Events(<<>>) /\ Apart(<<>>) /\ UsedBy(<<>>) = {}
<1>1. <<>> \in Seq({}) /\ DOMAIN <<>> = {}
  OBVIOUS
<1>2. QED BY <1>1 DEF Events, Apart, UsedBy

\* An event is emitted. begun are the calls begun once it is.
LEMMA Emitted ==
    ASSUME ChatInv, NEW e, Emit(e), IsEvent(e), Uses(e) \cap Begun = {},
           Begun \subseteq Begun', Uses(e) \subseteq Begun'
    PROVE  Announcements' /\ ScreenOK'
<1>1. wire' = Append(wire, e) /\ (log' = log \/ log' = Append(log, e)) /\ screen' = screen
  BY DEF Emit
<1>2. /\ Events(wire') /\ UsedBy(wire') = UsedBy(wire) \cup Uses(e) /\ Apart(wire')
      /\ Events(log') /\ UsedBy(log') \subseteq UsedBy(log) \cup Uses(e) /\ Apart(log')
  <2>1. Uses(e) \cap UsedBy(wire) = {} /\ Uses(e) \cap UsedBy(log) = {}
    BY DEF ChatInv, Announcements
  <2>2. /\ Events(Append(wire, e)) /\ UsedBy(Append(wire, e)) = UsedBy(wire) \cup Uses(e) /\ Apart(Append(wire, e))
    BY <2>1, EventsAppend DEF ChatInv, Announcements
  <2>3. /\ Events(Append(log, e)) /\ UsedBy(Append(log, e)) = UsedBy(log) \cup Uses(e) /\ Apart(Append(log, e))
    BY <2>1, EventsAppend DEF ChatInv, Announcements
  <2>4. QED BY <1>1, <2>2, <2>3 DEF ChatInv, Announcements
<1>3. Announcements'
  BY <1>2 DEF ChatInv, Announcements
<1>4. ScreenOK'
  BY <1>1, <1>2 DEF ChatInv, ScreenOK
<1>5. QED BY <1>3, <1>4

\* An event that announces nothing.
LEMMA EmittedPlain ==
    ASSUME ChatInv, NEW e, Emit(e), IsEvent(e), Uses(e) = {}, Begun \subseteq Begun'
    PROVE  Announcements' /\ ScreenOK'
BY Emitted

-----------------------------------------------------------------------------
(* The worker's steps.                                                     *)

\* The user's events announce no call.
LEMMA UserEvent ==
    ASSUME NEW texts \in Seq(Texts), NEW results \in Seq(CallResult)
    PROVE  IsEvent(User(texts, results)) /\ Uses(User(texts, results)) = {}
<1> DEFINE e == User(texts, results)
<1>1. e.type = "user" /\ e.texts = texts /\ e.results = results
  BY DEF User
<1> HIDE DEF e
<1>2. IsEvent(e) /\ Uses(e) = {}
  BY <1>1 DEF IsEvent, Uses
<1>3. QED BY <1>2 DEF e

\* A message of text announces none.
LEMMA TextEvent ==
    ASSUME NEW blocks \in Seq(TextBlocks)
    PROVE  IsEvent(Assistant(blocks)) /\ Uses(Assistant(blocks)) = {}
<1> DEFINE e == Assistant(blocks)
<1>1. e.type = "assistant" /\ e.blocks = blocks
  BY DEF Assistant
<1> HIDE DEF e
<1>2. \A k \in DOMAIN blocks : blocks[k].type \in {"text", "thinking"}
  <2>1. \A k \in DOMAIN blocks : blocks[k] \in TextBlocks
    <3> HIDE DEF TextBlocks
    <3>1. QED OBVIOUS
  <2>2. QED BY <2>1 DEF TextBlocks
<1>3. blocks \in Seq(TextBlocks \cup ToolBlocks)
  <2> HIDE DEF TextBlocks, ToolBlocks
  <2>1. QED OBVIOUS
<1>4. IsEvent(e)
  BY <1>1, <1>2, <1>3 DEF IsEvent, IsAssistant
<1>5. Uses(e) = {}
  BY <1>1, <1>2 DEF Uses, Announced
<1>6. QED BY <1>4, <1>5 DEF e

\* The message of a call announces it.
LEMMA CallEvent ==
    ASSUME NEW c \in Calls, NEW tool \in {"plain", "hidden", "question", "create", "update"}
    PROVE  IsEvent(Assistant(<<ToolUseBlock(c, tool)>>)) /\ Uses(Assistant(<<ToolUseBlock(c, tool)>>)) = {c}
<1> DEFINE b == ToolUseBlock(c, tool)
           e == Assistant(<<b>>)
<1>1. b \in ToolBlocks /\ b.type = "tool_use" /\ b.id = c
  BY DEF ToolUseBlock, ToolBlocks, Calls
<1> HIDE DEF b
<1>2. e.type = "assistant" /\ e.blocks = <<b>>
  BY DEF Assistant
<1> HIDE DEF e
<1>3. <<b>> \in Seq(TextBlocks \cup ToolBlocks) /\ DOMAIN <<b>> = {1} /\ <<b>>[1] = b
  <2> HIDE DEF TextBlocks, ToolBlocks
  <2>1. QED BY <1>1
<1>4. IsEvent(e)
  BY <1>2, <1>3 DEF IsEvent, IsAssistant
<1>5. Uses(e) = {c}
  BY <1>1, <1>2, <1>3 DEF Uses, Announced
<1>6. QED BY <1>4, <1>5 DEF e, b

\* No other event announces one.
LEMMA OtherEvent ==
    ASSUME NEW e, e.type \notin {"assistant", "user"},
           \/ e.type = "system" /\ IsSystem(e)
           \/ e.type = "result" /\ e.failed \in BOOLEAN
           \/ e.type = "control_request" /\ e.request \in Calls /\ e.id = e.request /\ e.question \in BOOLEAN
           \/ e.type = "control_cancel_request" /\ e.request \in Calls
           \/ e.type = "stream_event" /\ e.delta = TRUE /\ e.block \in Stream /\ e.chunk \in Chunk
           \/ e.type = "stream_event" /\ e.delta = FALSE
           \/ e.type = "reset"
           \/ e.type = "rate_limit" /\ e.allowed \in BOOLEAN
           \/ e.type = "unknown" /\ e.shape = "new"
           \/ e.type = "ignored"
    PROVE  IsEvent(e) /\ Uses(e) = {}
BY DEF IsEvent, Uses

\* The worker is as before but for the turn, the draft or its messages.
LEMMA WorkerTurn ==
    ASSUME NEW w \in Workers, NEW turn \in BOOLEAN, NEW draft \in Drafts, NEW messages \in Nat
    PROVE  LET v == [w EXCEPT !.turn = turn, !.draft = draft, !.messages = messages]
           IN  v \in Workers /\ v.calls = w.calls
BY DEF Workers

\* The fields of a worker.
LEMMA WorkerFields ==
    ASSUME NEW w \in Workers
    PROVE  w.turn \in BOOLEAN /\ w.draft \in Drafts /\ w.messages \in Nat
           /\ w = [w EXCEPT !.turn = w.turn, !.draft = w.draft, !.messages = w.messages]
BY DEF Workers

\* A draft may be empty.
LEMMA NoDraft == <<>> \in Drafts
<1>1. <<>> \in Seq(DraftChunk \cup {Stopped}) /\ DOMAIN <<>> = {}
  OBVIOUS
<1>2. QED BY <1>1 DEF Drafts

\* A draft that has not stopped takes a chunk or the stop.
LEMMA DraftGrows ==
    ASSUME NEW draft \in Drafts, draft # <<>> => Last(draft).block # "stopped", NEW x \in DraftChunk \cup {Stopped}
    PROVE  Append(draft, x) \in Drafts
<1> DEFINE n == Len(draft)
<1>1. /\ draft \in Seq(DraftChunk \cup {Stopped}) /\ \A i \in DOMAIN draft : i < n => draft[i] \in DraftChunk
  BY DEF Drafts
<1>2. n \in Nat /\ DOMAIN draft = 1 .. n /\ \A i \in 1 .. n : draft[i] \in DraftChunk \cup {Stopped}
  BY <1>1
<1>3. \A i \in 1 .. n : draft[i] \in DraftChunk
  <2>1. n > 0 => draft[n].block # "stopped" BY <1>1, <1>2 DEF Last
  <2>2. n > 0 => draft[n] \in DraftChunk BY <1>2, <2>1 DEF Stopped
  <2>3. QED BY <1>1, <1>2, <2>2
<1>4. /\ Append(draft, x) \in Seq(DraftChunk \cup {Stopped}) /\ DOMAIN Append(draft, x) = 1 .. n + 1
      /\ Len(Append(draft, x)) = n + 1 /\ \A i \in 1 .. n : Append(draft, x)[i] = draft[i]
  BY <1>1, <1>2
<1> HIDE DEF n
<1>5. \A i \in 1 .. n + 1 : i < n + 1 => i \in 1 .. n
  BY <1>2
<1>6. QED BY <1>3, <1>4, <1>5 DEF Drafts

\* What a draft holds but for its last chunk is a sequence of chunks.
LEMMA FrontOfDraft ==
    ASSUME NEW draft \in Drafts, draft # <<>> PROVE Front(draft) \in Seq(DraftChunk)
<1> DEFINE n == Len(draft)
           f == [i \in 1 .. n - 1 |-> draft[i]]
<1>1. draft \in Seq(DraftChunk \cup {Stopped}) /\ \A i \in DOMAIN draft : i < n => draft[i] \in DraftChunk
  BY DEF Drafts
<1>2. n \in Nat /\ n > 0 /\ DOMAIN draft = 1 .. n
  BY <1>1
<1>3. Front(draft) = f
  BY <1>1, <1>2 DEF Front
<1> HIDE DEF n
<1>4. \A i \in 1 .. n - 1 : draft[i] \in DraftChunk
  BY <1>1, <1>2
<1>5. n - 1 \in Nat /\ f \in [1 .. n - 1 -> DraftChunk]
  BY <1>2, <1>4
<1>6. QED BY <1>3, <1>5

\* The calls of a worker go on from where they are.
CallsGoOn(v, w) == v \in Workers /\ \A c \in Calls : w.calls[c] # "new" => v.calls[c] # "new"

\* A step of the worker that announces no call.
LEMMA QuietStep ==
    ASSUME ChatInv, NEW e, Emit(e), IsEvent(e), Uses(e) = {}, CallsGoOn(worker', worker), inbox' \in Seq(Texts)
    PROVE  ChatInv'
<1>1. Begun \subseteq Begun' /\ WorkerOK'
  BY DEF CallsGoOn, Begun, WorkerOK
<1>2. QED BY <1>1, EmittedPlain DEF ChatInv

\* A worker that stays keeps its calls.
LEMMA SameWorker == ASSUME ChatInv, worker' = worker PROVE CallsGoOn(worker', worker)
BY DEF ChatInv, WorkerOK, CallsGoOn

\* A call moved on is not one it has yet to make.
LEMMA OneCall ==
    ASSUME NEW w \in Workers, NEW c \in Calls, NEW state \in {"open", "asking", "over"}
    PROVE  CallsGoOn([w EXCEPT !.calls[c] = state], w)
<1> DEFINE calls == [w.calls EXCEPT ![c] = state]
           v == [w EXCEPT !.calls = calls]
<1>1. w.calls \in [Calls -> {"new", "open", "asking", "over"}]
  BY DEF Workers
<1>2. calls \in [Calls -> {"new", "open", "asking", "over"}] /\ \A x \in Calls : w.calls[x] # "new" => calls[x] # "new"
  BY <1>1
<1> HIDE DEF calls
<1>3. v \in Workers /\ v.calls = calls
  BY <1>2 DEF Workers
<1>4. [w EXCEPT !.calls[c] = state] = v
  BY DEF calls, Workers
<1>5. QED BY <1>2, <1>3, <1>4 DEF CallsGoOn

\* A worker whose turn is over has made no call since.
LEMMA OverWorker == ASSUME NEW w \in Workers PROVE CallsGoOn(Over(w), w) /\ Over(w) \in Workers
<1> DEFINE calls == [c \in Calls |-> IF w.calls[c] \in {"open", "asking"} THEN "over" ELSE w.calls[c]]
           m == [w EXCEPT !.turn = FALSE, !.draft = <<>>, !.messages = w.messages]
           v == [m EXCEPT !.calls = calls]
<1>1. w.calls \in [Calls -> {"new", "open", "asking", "over"}] /\ w.messages \in Nat
  BY DEF Workers
<1>2. m \in Workers
  BY <1>1, NoDraft, WorkerTurn
<1>3. calls \in [Calls -> {"new", "open", "asking", "over"}] /\ \A c \in Calls : w.calls[c] # "new" => calls[c] # "new"
  BY <1>1
<1>4. Over(w) = v
  BY DEF Over, Workers
<1> HIDE DEF calls, m
<1>5. v \in Workers /\ v.calls = calls
  BY <1>2, <1>3 DEF Workers
<1>6. QED BY <1>3, <1>4, <1>5 DEF CallsGoOn

\* A line of the user that the worker echoes.
LEMMA TextEmitted ==
    ASSUME ChatInv, NEW text \in Texts, Emit(User(<<text>>, <<>>)),
           worker' = [worker EXCEPT !.turn = TRUE], inbox' \in Seq(Texts)
    PROVE  ChatInv'
<1>1. worker \in Workers
  BY DEF ChatInv, WorkerOK
<1>2. CallsGoOn(worker', worker)
  <2>1. worker' = [worker EXCEPT !.turn = TRUE, !.draft = worker.draft, !.messages = worker.messages]
    BY <1>1 DEF Workers
  <2>2. worker.draft \in Drafts /\ worker.messages \in Nat BY <1>1, WorkerFields
  <2>3. worker' \in Workers /\ worker'.calls = worker.calls BY <1>1, <2>1, <2>2 DEF Workers
  <2>4. QED BY <2>3 DEF CallsGoOn
<1>3. <<text>> \in Seq(Texts) /\ <<>> \in Seq(CallResult)
  OBVIOUS
<1>4. IsEvent(User(<<text>>, <<>>)) /\ Uses(User(<<text>>, <<>>)) = {}
  BY <1>3, UserEvent
<1>5. QED BY <1>2, <1>4, QuietStep

\* Typing in the terminal keeps the invariant.
LEMMA TypeKept == ASSUME ChatInv, NEW text \in Texts, Type(text) PROVE ChatInv'
<1>1. inbox' \in Seq(Texts)
  BY DEF Type, ChatInv, WorkerOK
<1>2. QED BY <1>1, TextEmitted DEF Type

\* So does a text taken from the inbox.
LEMMA TakeKept == ASSUME ChatInv, Take PROVE ChatInv'
<1>1. inbox \in Seq(Texts) /\ inbox # <<>>
  BY DEF Take, ChatInv, WorkerOK
<1>2. Head(inbox) \in Texts /\ Tail(inbox) \in Seq(Texts)
  BY <1>1
<1>3. QED BY <1>2, TextEmitted DEF Take

\* So does a local command.
LEMMA CommandKept == ASSUME ChatInv, LocalCommand PROVE ChatInv'
<1>1. Emit(User(<<>>, <<>>)) /\ worker' = worker /\ inbox' = inbox
  BY DEF LocalCommand
<1>2. IsEvent(User(<<>>, <<>>)) /\ Uses(User(<<>>, <<>>)) = {}
  <2>1. <<>> \in Seq(Texts) /\ <<>> \in Seq(CallResult) OBVIOUS
  <2>2. QED BY <2>1, UserEvent
<1>3. QED BY <1>1, <1>2, SameWorker, QuietStep DEF ChatInv, WorkerOK

\* The draft, or the messages, change.
LEMMA DraftStep ==
    ASSUME ChatInv, NEW draft \in Drafts, NEW messages \in Nat,
           worker' = [worker EXCEPT !.turn = worker.turn, !.draft = draft, !.messages = messages]
    PROVE  CallsGoOn(worker', worker)
<1>1. worker \in Workers
  BY DEF ChatInv, WorkerOK
<1>2. worker' \in Workers /\ worker'.calls = worker.calls
  BY <1>1 DEF Workers
<1>3. QED BY <1>2 DEF CallsGoOn

\* So does a streamed chunk.
LEMMA DeltaKept == ASSUME ChatInv, NEW b \in Stream, Delta(b) PROVE ChatInv'
<1> DEFINE chunk == <<worker.messages, Len(worker.draft)>>
           e == [type |-> "stream_event", delta |-> TRUE, block |-> b, chunk |-> chunk]
           x == [block |-> b, chunk |-> chunk]
           draft == Append(worker.draft, x)
<1>1. worker \in Workers /\ inbox \in Seq(Texts)
  BY DEF ChatInv, WorkerOK
<1>2. worker.draft \in Drafts /\ worker.messages \in Nat
  BY <1>1, WorkerFields
<1>3. chunk \in Chunk
  <2>1. Len(worker.draft) \in Nat BY <1>2 DEF Drafts
  <2>2. QED BY <1>2, <2>1 DEF Chunk
<1>4. Emit(e) /\ inbox' = inbox /\ worker' = [worker EXCEPT !.draft = draft]
      /\ (worker.draft # <<>> => Last(worker.draft).block # "stopped")
  BY DEF Delta
<1> HIDE DEF chunk
<1>5. x \in DraftChunk
  BY <1>3 DEF DraftChunk
<1>6. e.type = "stream_event" /\ e.delta = TRUE /\ e.block \in Stream /\ e.chunk \in Chunk
  BY <1>3
<1> HIDE DEF e, x
<1>7. draft \in Drafts
  BY <1>2, <1>4, <1>5, DraftGrows
<1> HIDE DEF draft
<1>8. worker' = [worker EXCEPT !.turn = worker.turn, !.draft = draft, !.messages = worker.messages]
  BY <1>1, <1>4 DEF Workers
<1>9. IsEvent(e) /\ Uses(e) = {}
  BY <1>6, OtherEvent
<1>10. CallsGoOn(worker', worker)
  BY <1>2, <1>7, <1>8, DraftStep
<1>11. QED BY <1>1, <1>4, <1>9, <1>10, QuietStep

\* So does the end of a stream.
LEMMA MessageStopKept == ASSUME ChatInv, MessageStop PROVE ChatInv'
<1> DEFINE e == [type |-> "stream_event", delta |-> FALSE]
           draft == Append(worker.draft, Stopped)
<1>1. worker \in Workers /\ inbox \in Seq(Texts)
  BY DEF ChatInv, WorkerOK
<1>2. worker.draft \in Drafts /\ worker.messages \in Nat
  BY <1>1, WorkerFields
<1>4. Emit(e) /\ inbox' = inbox /\ worker' = [worker EXCEPT !.draft = draft]
      /\ (worker.draft # <<>> => Last(worker.draft).block # "stopped")
  BY DEF MessageStop, Stopped
<1>6. e.type = "stream_event" /\ e.delta = FALSE
  OBVIOUS
<1> HIDE DEF e
<1>7. draft \in Drafts
  BY <1>2, <1>4, DraftGrows
<1> HIDE DEF draft
<1>8. worker' = [worker EXCEPT !.turn = worker.turn, !.draft = draft, !.messages = worker.messages]
  BY <1>1, <1>4 DEF Workers
<1>9. IsEvent(e) /\ Uses(e) = {}
  BY <1>6, OtherEvent
<1>10. CallsGoOn(worker', worker)
  BY <1>2, <1>7, <1>8, DraftStep
<1>11. QED BY <1>1, <1>4, <1>9, <1>10, QuietStep

\* So does the final message, on time or late.
LEMMA MessagesKept == ASSUME ChatInv, Message \/ Trailing PROVE ChatInv'
<1> DEFINE prose == TextBlock("prose", <<<<worker.messages, 0>>>>)
           dots == TextBlock("thinking", <<>>)
<1>1. worker \in Workers /\ inbox \in Seq(Texts)
  BY DEF ChatInv, WorkerOK
<1>2. worker.draft \in Drafts /\ worker.messages \in Nat
  BY <1>1, WorkerFields
<1>3. prose \in TextBlocks /\ dots \in TextBlocks
  <2>1. <<worker.messages, 0>> \in Chunk BY <1>2 DEF Chunk
  <2>2. <<<<worker.messages, 0>>>> \in Seq(Chunk) /\ <<>> \in Seq(Chunk)
    <3> HIDE DEF Chunk
    <3>1. QED BY <2>1
  <2>3. QED BY <2>2 DEF TextBlock, TextBlocks
<1>4. PICK blocks \in Seq(TextBlocks) : Emit(Assistant(blocks))
  <2>1. CASE Emit(Assistant(<<prose>>))
    <3> HIDE DEF prose, TextBlocks
    <3>1. <<prose>> \in Seq(TextBlocks) BY <1>3
    <3>2. QED BY <2>1, <3>1
  <2>2. CASE Emit(Assistant(<<dots, prose>>))
    <3> HIDE DEF prose, dots, TextBlocks
    <3>1. <<dots, prose>> \in Seq(TextBlocks) BY <1>3
    <3>2. QED BY <2>2, <3>1
  <2>3. CASE ~Quiet /\ Emit(Assistant(Whole(worker.draft)))
    <3>1. Front(worker.draft) \in Seq(DraftChunk) BY <1>2, <2>3, FrontOfDraft DEF Quiet
    <3>2. Whole(worker.draft) \in Seq(TextBlocks) BY <3>1, WholeType
    <3>3. QED BY <2>3, <3>2
  <2>4. QED BY <2>1, <2>2, <2>3 DEF Message, Trailing
<1>5. IsEvent(Assistant(blocks)) /\ Uses(Assistant(blocks)) = {}
  BY TextEvent
<1>6. inbox' = inbox
  BY DEF Message, Trailing
<1>7. CallsGoOn(worker', worker)
  <2>1. CASE worker' = [worker EXCEPT !.draft = <<>>, !.messages = @ + 1]
    <3>1. worker' = [worker EXCEPT !.turn = worker.turn, !.draft = <<>>, !.messages = worker.messages + 1]
      BY <1>1, <2>1 DEF Workers
    <3>2. worker.messages + 1 \in Nat BY <1>2
    <3>3. QED BY <3>1, <3>2, NoDraft, DraftStep
  <2>2. CASE worker' = [worker EXCEPT !.messages = @ + 1]
    <3>1. worker' = [worker EXCEPT !.turn = worker.turn, !.draft = worker.draft, !.messages = worker.messages + 1]
      BY <1>1, <2>2 DEF Workers
    <3>2. worker.messages + 1 \in Nat BY <1>2
    <3>3. QED BY <1>2, <3>1, <3>2, DraftStep
  <2>3. QED BY <2>1, <2>2 DEF Message, Trailing
<1>8. QED BY <1>1, <1>4, <1>5, <1>6, <1>7, QuietStep

\* So does a call: it was not made, and so no event announced it yet.
LEMMA CallKept ==
    ASSUME ChatInv, NEW c \in Calls, NEW tool \in {"plain", "hidden", "question", "create", "update"}, Call(c, tool)
    PROVE  ChatInv'
<1> DEFINE e == Assistant(<<ToolUseBlock(c, tool)>>)
           calls == [worker.calls EXCEPT ![c] = "open"]
           kind == [worker.kind EXCEPT ![c] = tool]
<1>1. worker \in Workers /\ inbox \in Seq(Texts)
  BY DEF ChatInv, WorkerOK
<1>2. Emit(e) /\ worker.calls[c] = "new" /\ inbox' = inbox /\ worker' = [worker EXCEPT !.calls[c] = "open", !.kind[c] = tool]
  BY DEF Call
<1>3. IsEvent(e) /\ Uses(e) = {c}
  BY CallEvent
<1> HIDE DEF e
<1>4. /\ worker.calls \in [Calls -> {"new", "open", "asking", "over"}]
      /\ worker.kind \in [Calls -> {"none", "plain", "hidden", "question", "create", "update"}]
  BY <1>1 DEF Workers
<1>5. /\ calls \in [Calls -> {"new", "open", "asking", "over"}] /\ calls[c] = "open"
      /\ \A b \in Calls : b # c => calls[b] = worker.calls[b]
      /\ kind \in [Calls -> {"none", "plain", "hidden", "question", "create", "update"}]
  BY <1>4
<1>6. worker' = [worker EXCEPT !.calls = calls, !.kind = kind]
  BY <1>1, <1>2 DEF Workers
<1> HIDE DEF calls, kind
<1>7. worker' \in Workers /\ worker'.calls = calls
  BY <1>1, <1>5, <1>6 DEF Workers
<1>8. Begun' = Begun \cup {c} /\ c \notin Begun
  BY <1>2, <1>5, <1>7 DEF Begun
<1>9. Uses(e) \cap Begun = {} /\ Begun \subseteq Begun' /\ Uses(e) \subseteq Begun'
  BY <1>3, <1>8
<1>10. Announcements' /\ ScreenOK'
  BY <1>2, <1>3, <1>9, Emitted
<1>11. QED BY <1>1, <1>2, <1>7, <1>10 DEF ChatInv, WorkerOK

\* A call goes on, and the event says so.
LEMMA CallStep ==
    ASSUME ChatInv, NEW c \in Calls, NEW state \in {"open", "asking", "over"}, NEW e, Emit(e), IsEvent(e), Uses(e) = {},
           worker' = [worker EXCEPT !.calls[c] = state], inbox' = inbox
    PROVE  ChatInv'
<1>1. worker \in Workers /\ inbox \in Seq(Texts)
  BY DEF ChatInv, WorkerOK
<1>2. CallsGoOn(worker', worker)
  BY <1>1, OneCall
<1>3. QED BY <1>1, <1>2, QuietStep

\* So does a request, a repeated one, and an answer in the terminal.
LEMMA AsksKept ==
    ASSUME ChatInv, NEW c \in Calls, Ask(c) \/ AskAgain(c) \/ AnsweredInTerminal(c)
    PROVE  ChatInv'
<1> DEFINE q == worker.kind[c] = "question"
           e == [type |-> "control_request", request |-> c, id |-> c, question |-> q]
           f == [type |-> "control_cancel_request", request |-> c]
<1>1. q \in BOOLEAN
  OBVIOUS
<1>2. /\ Ask(c) => Emit(e) /\ worker' = [worker EXCEPT !.calls[c] = "asking"] /\ inbox' = inbox
      /\ AskAgain(c) => Emit(e) /\ worker' = worker /\ inbox' = inbox
      /\ AnsweredInTerminal(c) => Emit(f) /\ worker' = [worker EXCEPT !.calls[c] = "open"] /\ inbox' = inbox
  BY DEF Ask, AskAgain, AnsweredInTerminal
<1> HIDE DEF q
<1>3. /\ e.type = "control_request" /\ e.request \in Calls /\ e.id = e.request /\ e.question \in BOOLEAN
      /\ f.type = "control_cancel_request" /\ f.request \in Calls
  BY <1>1
<1> HIDE DEF e, f
<1>4. IsEvent(e) /\ Uses(e) = {} /\ IsEvent(f) /\ Uses(f) = {}
  BY <1>3, OtherEvent
<1>5. CASE Ask(c) BY <1>2, <1>4, <1>5, CallStep
<1>6. CASE AskAgain(c) BY <1>2, <1>4, <1>6, SameWorker, QuietStep DEF ChatInv, WorkerOK
<1>7. CASE AnsweredInTerminal(c) BY <1>2, <1>4, <1>7, CallStep
<1>8. QED BY <1>5, <1>6, <1>7

\* So does the end of a call.
LEMMA FinishKept ==
    ASSUME ChatInv, NEW c \in Calls, NEW failed \in BOOLEAN, Finish(c, failed) PROVE ChatInv'
<1> DEFINE r == [id |-> c, failed |-> failed]
           e == User(<<>>, <<r>>)
<1>1. Emit(e) /\ worker' = [worker EXCEPT !.calls[c] = "over"] /\ inbox' = inbox
  BY DEF Finish
<1>2. r \in CallResult
  BY DEF CallResult
<1> HIDE DEF r
<1>3. <<r>> \in Seq(CallResult) /\ <<>> \in Seq(Texts)
  <2> HIDE DEF CallResult
  <2>1. QED BY <1>2
<1>4. IsEvent(e) /\ Uses(e) = {}
  BY <1>3, UserEvent
<1> HIDE DEF e
<1>5. QED BY <1>1, <1>4, CallStep

\* The worker stays or its turn is over, and the event is one of these.
LEMMA OtherStep ==
    ASSUME ChatInv, NEW e, Emit(e), e.type \notin {"assistant", "user"},
           \/ e.type = "system" /\ IsSystem(e)
           \/ e.type = "result" /\ e.failed \in BOOLEAN
           \/ e.type = "reset"
           \/ e.type = "rate_limit" /\ e.allowed \in BOOLEAN
           \/ e.type = "unknown" /\ e.shape = "new"
           \/ e.type = "ignored",
           CallsGoOn(worker', worker), inbox' = inbox
    PROVE  ChatInv'
<1>1. IsEvent(e) /\ Uses(e) = {}
  BY OtherEvent
<1>2. QED BY <1>1, QuietStep DEF ChatInv, WorkerOK

\* So does the end of a turn.
LEMMA EndTurnStepKept == ASSUME ChatInv, EndTurn PROVE ChatInv'
<1>1. CallsGoOn(worker', worker) /\ inbox' = inbox
  BY OverWorker DEF EndTurn, ChatInv, WorkerOK
<1> DEFINE r(b) == [type |-> "result", failed |-> b]
           s(b) == [type |-> "system", subtype |-> "post_turn_summary", detail |-> b]
           t == [type |-> "reset"]
<1>2. Emit(r(FALSE)) \/ Emit(r(TRUE)) \/ Emit(s(TRUE)) \/ Emit(s(FALSE)) \/ Emit(t)
  BY DEF EndTurn
<1>3. \A b \in BOOLEAN : r(b).type = "result" /\ r(b).failed \in BOOLEAN
  OBVIOUS
<1>4. \A b \in BOOLEAN : s(b).type = "system" /\ IsSystem(s(b))
  BY DEF IsSystem
<1>5. t.type = "reset"
  OBVIOUS
<1> HIDE DEF r, s, t
<1>6. ASSUME NEW b \in BOOLEAN, Emit(r(b)) PROVE ChatInv'
  BY <1>1, <1>3, <1>6, OtherStep
<1>7. ASSUME NEW b \in BOOLEAN, Emit(s(b)) PROVE ChatInv'
  BY <1>1, <1>4, <1>7, OtherStep
<1>8. CASE Emit(t)
  BY <1>1, <1>5, <1>8, OtherStep
<1>9. TRUE \in BOOLEAN /\ FALSE \in BOOLEAN
  OBVIOUS
<1>10. QED BY <1>2, <1>6, <1>7, <1>8, <1>9

\* The tasks of a worker are not its calls.
LEMMA TasksStep ==
    ASSUME ChatInv, NEW tasks \in SUBSET TaskNames, worker' = [worker EXCEPT !.tasks = tasks]
    PROVE  CallsGoOn(worker', worker)
BY DEF ChatInv, WorkerOK, Workers, CallsGoOn

\* So does the start of a background task.
LEMMA StartTaskKept == ASSUME ChatInv, NEW t \in TaskNames, StartTask(t) PROVE ChatInv'
<1> DEFINE e == [type |-> "system", subtype |-> "task_started", task |-> t]
<1>1. Emit(e) /\ worker' = [worker EXCEPT !.tasks = worker.tasks \cup {t}] /\ inbox' = inbox
  BY DEF StartTask
<1>2. e.type = "system" /\ IsSystem(e)
  BY DEF IsSystem
<1> HIDE DEF e
<1>3. worker.tasks \cup {t} \in SUBSET TaskNames
  BY DEF ChatInv, WorkerOK, Workers
<1>4. CallsGoOn(worker', worker)
  BY <1>1, <1>3, TasksStep
<1>5. QED BY <1>1, <1>2, <1>4, OtherStep

\* So does a report on one.
LEMMA ReportTaskKept == ASSUME ChatInv, NEW t \in TaskNames, ReportTask(t) PROVE ChatInv'
<1>1. inbox' = inbox /\ (worker' = worker \/ worker' = [worker EXCEPT !.tasks = worker.tasks \ {t}])
  BY DEF ReportTask
<1>2. CallsGoOn(worker', worker)
  <2>1. worker.tasks \ {t} \in SUBSET TaskNames BY DEF ChatInv, WorkerOK, Workers
  <2>2. QED BY <1>1, <2>1, TasksStep, SameWorker
<1> DEFINE n(s) == [type |-> "system", subtype |-> "task_notification", task |-> t, status |-> s]
           c == [type |-> "system", subtype |-> "tasks_changed", tasks |-> worker.tasks \ {t}]
           u == [type |-> "system", subtype |-> "task_updated", task |-> t, status |-> "paused"]
           a == [type |-> "system", subtype |-> "task_started", task |-> t]
<1>3. Emit(n("completed")) \/ Emit(n("failed")) \/ Emit(c) \/ Emit(u) \/ Emit(a)
  BY DEF ReportTask
<1>4. \A s \in {"completed", "failed"} : n(s).type = "system" /\ IsSystem(n(s))
  BY DEF IsSystem, TaskStatus
<1>5. c.type = "system" /\ IsSystem(c)
  BY DEF IsSystem
<1>6. u.type = "system" /\ IsSystem(u)
  BY DEF IsSystem, TaskStatus
<1>7. a.type = "system" /\ IsSystem(a)
  BY DEF IsSystem
<1> HIDE DEF n, c, u, a
<1>8. ASSUME NEW s \in {"completed", "failed"}, Emit(n(s)) PROVE ChatInv'
  BY <1>1, <1>2, <1>4, <1>8, OtherStep
<1>9. CASE Emit(c) BY <1>1, <1>2, <1>5, <1>9, OtherStep
<1>10. CASE Emit(u) BY <1>1, <1>2, <1>6, <1>10, OtherStep
<1>11. CASE Emit(a) BY <1>1, <1>2, <1>7, <1>11, OtherStep
<1>12. QED BY <1>3, <1>8, <1>9, <1>10, <1>11

\* So does a notice of the worker.
LEMMA NoticeKept == ASSUME ChatInv, Notice PROVE ChatInv'
<1>1. worker' = worker /\ inbox' = inbox
  BY DEF Notice
<1>2. CallsGoOn(worker', worker)
  BY <1>1, SameWorker
<1> DEFINE c(b) == [type |-> "system", subtype |-> "compact_result", failed |-> b]
           r(b) == [type |-> "rate_limit", allowed |-> b]
           u == [type |-> "unknown", shape |-> "new"]
           g == [type |-> "ignored"]
           Subtypes == {"thinking_tokens", "compacting", "compact_boundary", "notice", "line"}
<1>3. \/ \E s \in Subtypes : Emit(System(s))
      \/ \E b \in BOOLEAN : Emit(c(b))
      \/ \E b \in BOOLEAN : Emit(r(b))
      \/ Emit(u) \/ Emit(g)
  BY DEF Notice
<1>4. \A s \in Subtypes : System(s).type = "system" /\ IsSystem(System(s))
  BY DEF System, IsSystem
<1>5. \A b \in BOOLEAN : c(b).type = "system" /\ IsSystem(c(b))
  BY DEF IsSystem
<1>6. \A b \in BOOLEAN : r(b).type = "rate_limit" /\ r(b).allowed \in BOOLEAN
  OBVIOUS
<1>7. u.type = "unknown" /\ u.shape = "new" /\ g.type = "ignored"
  OBVIOUS
<1> HIDE DEF c, r, u, g, Subtypes
<1>8. ASSUME NEW s \in Subtypes, Emit(System(s)) PROVE ChatInv'
  BY <1>1, <1>2, <1>4, <1>8, OtherStep
<1>9. ASSUME NEW b \in BOOLEAN, Emit(c(b)) PROVE ChatInv'
  BY <1>1, <1>2, <1>5, <1>9, OtherStep
<1>10. ASSUME NEW b \in BOOLEAN, Emit(r(b)) PROVE ChatInv'
  BY <1>1, <1>2, <1>6, <1>10, OtherStep
<1>11. CASE Emit(u) BY <1>1, <1>2, <1>7, <1>11, OtherStep
<1>12. CASE Emit(g) BY <1>1, <1>2, <1>7, <1>12, OtherStep
<1>13. QED BY <1>3, <1>8, <1>9, <1>10, <1>11, <1>12

\* So does its shutdown.
LEMMA ShutDownKept == ASSUME ChatInv, ShutDown PROVE ChatInv'
<1> DEFINE e == System("shutting_down")
<1>1. Emit(e) /\ worker' = [Over(worker) EXCEPT !.gone = TRUE, !.tasks = {}] /\ inbox' = inbox
  BY DEF ShutDown
<1>2. e.type = "system" /\ IsSystem(e)
  BY DEF System, IsSystem
<1> HIDE DEF e
<1>3. CallsGoOn(Over(worker), worker) /\ Over(worker) \in Workers
  BY OverWorker DEF ChatInv, WorkerOK
<1>4. worker' \in Workers /\ worker'.calls = Over(worker).calls
  BY <1>1, <1>3 DEF Workers
<1>5. CallsGoOn(worker', worker)
  BY <1>3, <1>4 DEF CallsGoOn
<1>6. QED BY <1>1, <1>2, <1>5, OtherStep

\* Every step of the worker keeps the invariant.
LEMMA WorkerStepKept == ASSUME ChatInv, WorkerStep PROVE ChatInv'
<1>1. ASSUME NEW t \in Texts, Type(t) PROVE ChatInv'
  BY <1>1, TypeKept
<1>2. CASE LocalCommand BY <1>2, CommandKept
<1>3. CASE Take BY <1>3, TakeKept
<1>4. CASE MessageStop BY <1>4, MessageStopKept
<1>5. CASE Message \/ Trailing BY <1>5, MessagesKept
<1>6. CASE EndTurn BY <1>6, EndTurnStepKept
<1>7. CASE Notice BY <1>7, NoticeKept
<1>8. CASE ShutDown BY <1>8, ShutDownKept
<1>9. ASSUME NEW b \in Stream, Delta(b) PROVE ChatInv'
  BY <1>9, DeltaKept
<1>10. ASSUME NEW c \in Calls, NEW tool \in {"plain", "hidden", "question", "create", "update"}, Call(c, tool)
       PROVE  ChatInv'
  BY <1>10, CallKept
<1>11. ASSUME NEW c \in Calls, Ask(c) \/ AskAgain(c) \/ AnsweredInTerminal(c) PROVE ChatInv'
  BY <1>11, AsksKept
<1>12. ASSUME NEW c \in Calls, NEW failed \in BOOLEAN, Finish(c, failed) PROVE ChatInv'
  BY <1>12, FinishKept
<1>13. ASSUME NEW t \in TaskNames, StartTask(t) \/ ReportTask(t) PROVE ChatInv'
  BY <1>13, StartTaskKept, ReportTaskKept
<1>14. QED
  BY <1>1, <1>2, <1>3, <1>4, <1>5, <1>6, <1>7, <1>8, <1>9, <1>10, <1>11, <1>12, <1>13 DEF WorkerStep, TaskNames

-----------------------------------------------------------------------------
(* The screen's steps.                                                     *)

\* An event the phone receives, lost or not, keeps it: the screen notes its calls if it comes.
LEMMA ReceiveKept == ASSUME ChatInv, Receive PROVE ChatInv'
<1> DEFINE e == Head(wire)
           n == reduce(screen, e, FALSE)
<1>1. wire # <<>> /\ screen' = n /\ wire' = Tail(wire) /\ worker' = worker /\ log' = log /\ inbox' = inbox
  BY DEF Receive
<1>2. /\ IsEvent(e) /\ Events(Tail(wire)) /\ Apart(Tail(wire))
      /\ UsedBy(wire) = Uses(e) \cup UsedBy(Tail(wire)) /\ Uses(e) \cap UsedBy(Tail(wire)) = {}
  BY <1>1, EventsTail DEF ChatInv, Announcements
<1> HIDE DEF e
<1>3. Goes(screen, n, Uses(e))
  BY <1>2, Reduced DEF ChatInv, ScreenOK
<1> HIDE DEF n
<1>4. Uses(e) \cap DOMAIN screen.index = {} /\ Exact(screen)
  BY <1>2 DEF ChatInv, ScreenOK
<1>5. n \in Kept /\ Exact(n) /\ DOMAIN n.index \subseteq DOMAIN screen.index \cup Uses(e)
  BY <1>3, <1>4 DEF Goes
<1>6. Begun' = Begun
  BY <1>1 DEF Begun
<1>7. ScreenOK'
  BY <1>1, <1>2, <1>5, <1>6 DEF ChatInv, ScreenOK, Announcements
<1>8. Announcements' /\ WorkerOK'
  BY <1>1, <1>2, <1>6 DEF ChatInv, Announcements, WorkerOK
<1>9. QED BY <1>7, <1>8 DEF ChatInv

\* What the user does announces no call.
LEMMA ScreenStep ==
    ASSUME ChatInv, Goes(screen, screen', {}), wire' = wire, log' = log,
           CallsGoOn(worker', worker), inbox' \in Seq(Texts)
    PROVE  ChatInv'
<1>1. Begun \subseteq Begun' /\ WorkerOK'
  BY DEF CallsGoOn, Begun, WorkerOK
<1>2. screen' \in Kept /\ Exact(screen') /\ DOMAIN screen'.index \subseteq DOMAIN screen.index
  BY DEF Goes, ChatInv, ScreenOK
<1>3. QED BY <1>1, <1>2 DEF ChatInv, ScreenOK, Announcements

\* A text the phone sends keeps it.
LEMMA SendStepKept == ASSUME ChatInv, NEW text \in Texts, Send(text) PROVE ChatInv'
<1>1. screen' = localSend(screen, text) /\ wire' = wire /\ log' = log /\ worker' = worker
      /\ (inbox' = inbox \/ inbox' = Append(inbox, text))
  BY DEF Send
<1>2. inbox' \in Seq(Texts)
  <2>1. inbox \in Seq(Texts) BY DEF ChatInv, WorkerOK
  <2>2. QED BY <1>1, <2>1
<1>3. Goes(screen, screen', {})
  BY <1>1, SendKept DEF ChatInv, ScreenOK
<1>4. QED BY <1>1, <1>2, <1>3, SameWorker, ScreenStep

\* An answer makes no call unmade.
LEMMA AnswerGoesOn == ASSUME ChatInv, NEW c, Answered(c) PROVE CallsGoOn(worker', worker)
<1> DEFINE calls == [worker.calls EXCEPT ![c] = IF worker.calls[c] = "asking" THEN "open" ELSE worker.calls[c]]
<1>1. worker \in Workers
  BY DEF ChatInv, WorkerOK
<1>2. worker' = [worker EXCEPT !.calls = calls]
  BY <1>1 DEF Answered, Workers
<1>3. worker.calls \in [Calls -> {"new", "open", "asking", "over"}]
  BY <1>1 DEF Workers
<1>4. calls \in [Calls -> {"new", "open", "asking", "over"}] /\ \A x \in Calls : worker.calls[x] # "new" => calls[x] # "new"
  BY <1>3
<1> HIDE DEF calls
<1>5. worker' \in Workers /\ worker'.calls = calls
  BY <1>1, <1>2, <1>4 DEF Workers
<1>6. QED BY <1>4, <1>5 DEF CallsGoOn

\* Answers, Stop and questions keep it.
LEMMA UserStepKept ==
    ASSUME ChatInv, answerPermission \/ Stop \/ \E i \in DOMAIN screen.items : onAnswerQuestion(i)
    PROVE  ChatInv'
<1>1. wire' = wire /\ log' = log /\ inbox' = inbox
  BY DEF answerPermission, Stop, onAnswerQuestion
<1>2. inbox' \in Seq(Texts)
  BY <1>1 DEF ChatInv, WorkerOK
<1>3. CASE answerPermission
  <2>1. CallsGoOn(worker', worker) BY <1>3, AnswerGoesOn DEF answerPermission
  <2>2. Goes(screen, screen', {}) BY <1>3, PermissionCleared DEF answerPermission, ChatInv, ScreenOK
  <2>3. QED BY <1>1, <1>2, <2>1, <2>2, ScreenStep
<1>4. CASE Stop
  <2>1. CallsGoOn(worker', worker) BY <1>4, SameWorker DEF Stop
  <2>2. Goes(screen, screen', {}) BY <1>4, StopKept DEF Stop, ChatInv, ScreenOK
  <2>3. QED BY <1>1, <1>2, <2>1, <2>2, ScreenStep
<1>5. ASSUME NEW i \in DOMAIN screen.items, onAnswerQuestion(i) PROVE ChatInv'
  <2>1. CallsGoOn(worker', worker) BY <1>5, AnswerGoesOn DEF onAnswerQuestion
  <2>2. Goes(screen, screen', {}) BY <1>5, MarkedKept DEF onAnswerQuestion, ChatInv, ScreenOK
  <2>3. QED BY <1>1, <1>2, <2>1, <2>2, ScreenStep
<1>6. QED BY <1>3, <1>4, <1>5

\* A reopened session replays the whole log, which announces what is left to come and no more.
LEMMA ReopenKept == ASSUME ChatInv, Reopen PROVE ChatInv'
<1> DEFINE active == ~worker.gone
           n == Replayed(log, active)
<1>1. screen' = n /\ wire' = <<>> /\ worker' = worker /\ log' = log /\ inbox' = inbox
  BY DEF Reopen
<1>2. active \in BOOLEAN
  OBVIOUS
<1> HIDE DEF active
<1>3. n \in Kept /\ Exact(n) /\ DOMAIN n.index \subseteq UsedBy(log)
  BY <1>2, ReplayedKept DEF ChatInv, Announcements
<1> HIDE DEF n
<1>4. Begun' = Begun
  BY <1>1 DEF Begun
<1>5. Announcements'
  BY <1>1, <1>4, NoEvents DEF ChatInv, Announcements
<1>6. ScreenOK'
  BY <1>1, <1>3, <1>4, NoEvents DEF ChatInv, Announcements, ScreenOK
<1>7. WorkerOK'
  BY <1>1 DEF ChatInv, WorkerOK
<1>8. QED BY <1>5, <1>6, <1>7 DEF ChatInv

\* Every step of the chat keeps it.
LEMMA ChatStep == ASSUME ChatInv, Next PROVE ChatInv'
<1>1. CASE WorkerStep BY <1>1, WorkerStepKept
<1>2. CASE Receive BY <1>2, ReceiveKept
<1>3. CASE answerPermission \/ Stop \/ \E i \in DOMAIN screen.items : onAnswerQuestion(i)
  BY <1>3, UserStepKept
<1>4. CASE Reopen BY <1>4, ReopenKept
<1>5. ASSUME NEW t \in Texts, Send(t) PROVE ChatInv'
  BY <1>5, SendStepKept
<1>6. QED BY <1>1, <1>2, <1>3, <1>4, <1>5 DEF Next

\* A session starts with it.
LEMMA ChatInit == Init => ChatInv
<1> SUFFICES ASSUME Init PROVE ChatInv
  OBVIOUS
<1>1. /\ worker = [turn |-> FALSE, gone |-> FALSE, draft |-> <<>>, messages |-> 0,
                   calls |-> [c \in Calls |-> "new"], kind |-> [c \in Calls |-> "none"], tasks |-> {}]
      /\ log = <<>> /\ wire = <<>> /\ inbox = <<>> /\ screen = initialState
  BY DEF Init
<1>2. WorkerOK
  <2>1. worker \in Workers
    <3>1. /\ [c \in Calls |-> "new"] \in [Calls -> {"new", "open", "asking", "over"}]
          /\ [c \in Calls |-> "none"] \in [Calls -> {"none", "plain", "hidden", "question", "create", "update"}]
      OBVIOUS
    <3>2. QED BY <1>1, <3>1, NoDraft DEF Workers
  <2>2. <<>> \in Seq(Texts) OBVIOUS
  <2>3. QED BY <1>1, <2>1, <2>2 DEF WorkerOK
<1>3. Announcements
  BY <1>1, NoEvents DEF Announcements
<1>4. ScreenOK
  BY <1>1, InitiallyKept, NoEvents DEF ScreenOK
<1>5. QED BY <1>2, <1>3, <1>4 DEF ChatInv

\* The invariant gives what the screen promises.
LEMMA ChatInvShows ==
    ASSUME ChatInv PROVE TypeOK /\ IndexFindsCard /\ LineIsOpen /\ OneCardEach /\ TodoCardFresh
<1>1. screen \in Screen /\ OneEach(screen) /\ Fresh(screen) /\ (screen.live.permission = Null <=> screen.live.asked = Null)
      /\ AllNoted(screen) /\ LineOpen(screen)
  BY DEF ChatInv, ScreenOK, Kept, Exact
<1>2. TypeOK
  <2>1. \A i \in DOMAIN screen.items : screen.items[i].kind \in ItemKinds
    <3> HIDE DEF Item
    <3>1. QED BY <1>1, ScreenFields, ItemByKind
  <2>2. DOMAIN screen.index \subseteq Calls /\ screen.pendingWeb \in Seq(Texts)
    BY <1>1, ScreenFields
  <2>3. screen.live \in [busy : BOOLEAN, thinking : BOOLEAN, compacting : BOOLEAN,
                         running : Calls \cup {Null}, permission : Calls \cup {Null}, asked : Calls \cup {Null}]
    BY <1>1, ScreenFields DEF Live
  <2>4. (screen.live.permission = Null) = (screen.live.asked = Null)
    BY <1>1
  <2>5. QED BY <2>1, <2>2, <2>3, <2>4 DEF TypeOK
<1>3. IndexFindsCard
  BY <1>1 DEF IndexFindsCard, AllNoted, Positions
<1>4. LineIsOpen
  BY <1>1 DEF LineIsOpen, LineOpen
<1>5. OneCardEach
  BY <1>1 DEF OneCardEach, OneEach
<1>6. TodoCardFresh
  <2> SUFFICES ASSUME screen.todos # <<>> PROVE screen.items[Max(Positions(screen, "todo"))].tasks = screen.todos
    BY DEF TodoCardFresh
  <2> DEFINE P == Positions(screen, "todo")
  <2>1. PICK k \in DOMAIN screen.items : LastTodo(screen, k) /\ screen.items[k].tasks = screen.todos
    BY <1>1 DEF Fresh
  <2>2. k \in P /\ \A i \in P : ~(i > k)
    BY <2>1 DEF LastTodo, Positions
  <2>3. P \subseteq 1 .. Len(screen.items) /\ Len(screen.items) \in Nat
    BY <1>1, PositionsIn, ScreenFields
  <2> HIDE DEF P
  <2>4. Max(P) \in P /\ \A y \in P : Max(P) >= y
    BY <2>2, <2>3, MaxIn
  <2>5. Max(P) = k
    BY <2>2, <2>3, <2>4
  <2>6. QED BY <2>1, <2>5 DEF P
<1>7. QED BY <1>2, <1>3, <1>4, <1>5, <1>6

\* Whatever a session's events are and in whatever order they come, live or
\* replayed, with answers, stops and reopenings between them: a result finds the
\* card of its call, no call has two cards, the activity line names no call that
\* has settled, a task and a question have one card each, and the newest list is
\* the list as it is (model.ts, index, Live and snapshotTodos).
THEOREM CardsStayInPlace == SessionSpec => []CardsInPlace
<1> DEFINE Inv == part = "chat" => ChatInv
<1>1. SessionInit => Inv
  BY ChatInit DEF SessionInit
<1>2. Inv /\ [SessionNext]_<<part, vars, rows, pictures>> => Inv'
  <2> SUFFICES ASSUME Inv, [SessionNext]_<<part, vars, rows, pictures>>, part' = "chat" PROVE ChatInv'
    OBVIOUS
  <2>1. CASE part = "chat" /\ Next
    BY <2>1, ChatStep
  <2>2. CASE part' = part /\ UNCHANGED vars
    <3>1. UNCHANGED <<worker, log, wire, inbox, screen>> BY <2>2 DEF vars
    <3>2. part = "chat" BY <2>2
    <3>3. QED BY <3>1, <3>2 DEF ChatInv, WorkerOK, Announcements, ScreenOK, Begun
  <2>3. QED BY <2>1, <2>2 DEF SessionNext
<1>3. Inv => CardsInPlace
  BY ChatInvShows DEF CardsInPlace
<1>4. QED BY <1>1, <1>2, <1>3, PTL DEF SessionSpec

-----------------------------------------------------------------------------
(* How often a text stands in a sequence.                                  *)

\* A set of places has a number of them.
LEMMA PlacesCount ==
    ASSUME NEW n \in Nat, NEW S, S \subseteq 1 .. n
    PROVE  IsFiniteSet(S) /\ Cardinality(S) \in Nat
<1>1. IsFiniteSet(1 .. n)
  BY FS_Interval
<1>2. IsFiniteSet(S)
  BY <1>1, FS_Subset
<1>3. QED BY <1>2, FS_CardinalityType

\* A place more.
LEMMA PlaceMore ==
    ASSUME NEW n \in Nat, NEW S, S \subseteq 1 .. n, NEW x, x \notin S
    PROVE  Cardinality(S \cup {x}) = Cardinality(S) + 1
BY PlacesCount, FS_AddElement

\* A place less.
LEMMA PlaceLess ==
    ASSUME NEW n \in Nat, NEW S, S \subseteq 1 .. n, NEW x \in S
    PROVE  Cardinality(S \ {x}) + 1 = Cardinality(S)
<1>1. IsFiniteSet(S) /\ Cardinality(S) \in Nat
  BY PlacesCount
<1>2. Cardinality(S \ {x}) = Cardinality(S) - 1
  BY <1>1, FS_RemoveElement
<1>3. QED BY <1>1, <1>2

\* Of a sequence, a number of times.
LEMMA TimesType ==
    ASSUME NEW S, NEW s \in Seq(S), NEW t
    PROVE  Times(s, t) \in Nat
<1>1. Len(s) \in Nat /\ {i \in DOMAIN s : s[i] = t} \subseteq 1 .. Len(s)
  OBVIOUS
<1>2. QED BY <1>1, PlacesCount DEF Times

\* Of the empty one, never.
LEMMA NoTimes == ASSUME NEW t PROVE Times(<<>>, t) = 0
<1>1. {i \in DOMAIN <<>> : <<>>[i] = t} = {}
  OBVIOUS
<1>2. QED BY <1>1, FS_EmptySet DEF Times

\* An element is appended.
LEMMA TimesAppend ==
    ASSUME NEW S, NEW s \in Seq(S), NEW e, NEW t
    PROVE  Times(Append(s, e), t) = Times(s, t) + (IF e = t THEN 1 ELSE 0)
<1> DEFINE n == Len(s)
           A == {i \in DOMAIN s : s[i] = t}
           r == Append(s, e)
           B == {i \in DOMAIN r : r[i] = t}
<1>1. /\ n \in Nat /\ A \subseteq 1 .. n /\ DOMAIN s = 1 .. n /\ DOMAIN r = 1 .. n + 1 /\ r[n + 1] = e
      /\ \A i \in 1 .. n : r[i] = s[i]
  OBVIOUS
<1> HIDE DEF n, r
<1>2. n + 1 \notin A
  BY <1>1
<1>3. B = IF e = t THEN A \cup {n + 1} ELSE A
  <2>1. ASSUME NEW i PROVE i \in B <=> i \in (IF e = t THEN A \cup {n + 1} ELSE A)
    <3>1. CASE i = n + 1 BY <3>1, <1>1
    <3>2. CASE i \in 1 .. n BY <3>2, <1>1
    <3>3. CASE i \notin 1 .. n + 1 BY <3>3, <1>1
    <3>4. i \in 1 .. n + 1 => i = n + 1 \/ i \in 1 .. n BY <1>1
    <3>5. QED BY <3>1, <3>2, <3>3, <3>4
  <2> HIDE DEF A, B
  <2>2. QED BY <2>1
<1> HIDE DEF A, B
<1>4. Cardinality(A \cup {n + 1}) = Cardinality(A) + 1 /\ Cardinality(A) \in Nat
  BY <1>1, <1>2, PlaceMore, PlacesCount
<1>5. Times(s, t) = Cardinality(A) /\ Times(r, t) = Cardinality(B)
  BY DEF Times, A, B
<1>6. QED BY <1>3, <1>4, <1>5 DEF r

\* An element is taken out, at place k.
LEMMA TimesCut ==
    ASSUME NEW S, NEW s \in Seq(S), NEW r \in Seq(S), NEW k \in 1 .. Len(s), NEW t,
           Len(r) = Len(s) - 1, \A i \in 1 .. Len(s) - 1 : r[i] = IF i < k THEN s[i] ELSE s[i + 1]
    PROVE  Times(s, t) = Times(r, t) + (IF s[k] = t THEN 1 ELSE 0)
<1> DEFINE n == Len(r)
           A == {i \in DOMAIN s : s[i] = t}
           B == {i \in DOMAIN r : r[i] = t}
           C == A \ {k}
           f == [i \in B |-> IF i < k THEN i ELSE i + 1]
<1>1. /\ n \in Nat /\ DOMAIN s = 1 .. n + 1 /\ DOMAIN r = 1 .. n /\ k \in 1 .. n + 1
      /\ \A i \in 1 .. n : r[i] = IF i < k THEN s[i] ELSE s[i + 1]
  <2>1. n \in Nat /\ Len(s) \in Nat /\ DOMAIN r = 1 .. n /\ DOMAIN s = 1 .. Len(s) OBVIOUS
  <2>2. n + 1 = Len(s) /\ Len(s) - 1 = n BY <2>1
  <2> HIDE DEF n
  <2>3. QED BY <2>1, <2>2
<1> HIDE DEF n
<1>2. A \subseteq 1 .. n + 1 /\ B \subseteq 1 .. n
  BY <1>1
<1>3. ASSUME NEW i \in B PROVE f[i] \in C
  <2>1. CASE i < k
    <3>1. f[i] = i /\ i # k /\ i \in 1 .. n + 1 /\ s[i] = t BY <2>1, <1>1
    <3>2. QED BY <3>1, <1>1
  <2>2. CASE ~(i < k)
    <3>1. f[i] = i + 1 /\ i + 1 # k /\ i + 1 \in 1 .. n + 1 /\ s[i + 1] = t BY <2>2, <1>1
    <3>2. QED BY <3>1, <1>1
  <2>3. QED BY <2>1, <2>2
<1>4. ASSUME NEW i \in B, NEW j \in B, f[i] = f[j] PROVE i = j
  BY <1>1, <1>4
<1>5. ASSUME NEW j \in C PROVE \E i \in B : f[i] = j
  <2>1. j \in 1 .. n + 1 /\ s[j] = t /\ j # k BY <1>1
  <2>2. CASE j < k
    <3>1. j \in 1 .. n /\ r[j] = t BY <2>1, <2>2, <1>1
    <3>2. j \in B /\ f[j] = j BY <3>1, <2>2, <1>1
    <3> HIDE DEF f, B
    <3>3. QED BY <3>2
  <2>3. CASE j > k
    <3>1. j - 1 \in 1 .. n /\ ~(j - 1 < k) /\ (j - 1) + 1 = j BY <2>1, <2>3, <1>1
    <3>2. r[j - 1] = t BY <3>1, <2>1, <1>1
    <3>3. j - 1 \in B BY <3>1, <3>2, <1>1
    <3>4. f[j - 1] = j BY <3>1, <3>3
    <3> HIDE DEF f, B
    <3>5. QED BY <3>3, <3>4
  <2>4. j < k \/ j > k BY <2>1, <1>1
  <2>5. QED BY <2>2, <2>3, <2>4
<1>6. f \in Bijection(B, C)
  <2>1. f \in [B -> C]
    <3>1. DOMAIN f = B OBVIOUS
    <3> HIDE DEF C
    <3>2. QED BY <1>3
  <2> HIDE DEF f, B, C
  <2>2. QED BY <2>1, <1>4, <1>5 DEF Bijection, Injection, Surjection, IsInjective
<1> HIDE DEF f
<1>7. Cardinality(C) = Cardinality(B)
  <2>1. IsFiniteSet(B) BY <1>1, <1>2, PlacesCount
  <2>2. ExistsBijection(B, C) BY <1>6 DEF ExistsBijection
  <2>3. QED BY <2>1, <2>2, FS_Bijection
<1>8. Cardinality(A) \in Nat /\ n + 1 \in Nat
  BY <1>1, <1>2, PlacesCount
<1>9. k \in A <=> s[k] = t
  BY <1>1
<1>10. k \in A => Cardinality(C) + 1 = Cardinality(A)
  <2> HIDE DEF A
  <2>1. QED BY <1>2, <1>8, PlaceLess DEF C
<1>11. k \notin A => C = A
  OBVIOUS
<1> HIDE DEF A, B, C
<1>12. Times(s, t) = Cardinality(A) /\ Times(r, t) = Cardinality(B)
  BY DEF Times, A, B
<1>13. QED BY <1>7, <1>8, <1>9, <1>10, <1>11, <1>12

\* The first element is taken.
LEMMA TimesTail ==
    ASSUME NEW S, NEW s \in Seq(S), s # <<>>, NEW t
    PROVE  Times(s, t) = Times(Tail(s), t) + (IF Head(s) = t THEN 1 ELSE 0)
<1> DEFINE r == Tail(s)
<1>1. /\ r \in Seq(S) /\ Len(r) = Len(s) - 1 /\ 1 \in 1 .. Len(s) /\ Head(s) = s[1]
      /\ \A i \in 1 .. Len(s) - 1 : r[i] = s[i + 1]
  OBVIOUS
<1> HIDE DEF r
<1>2. \A i \in 1 .. Len(s) - 1 : r[i] = IF i < 1 THEN s[i] ELSE s[i + 1]
  BY <1>1
<1>3. Times(s, t) = Times(r, t) + (IF s[1] = t THEN 1 ELSE 0)
  BY <1>1, <1>2, TimesCut
<1>4. QED BY <1>1, <1>3 DEF r

\* The text that is removed first.
LEMMA TimesRemoved ==
    ASSUME NEW S, NEW s \in Seq(S), NEW e, Contains(s, e), NEW t
    PROVE  Times(s, t) = Times(RemoveFirst(s, e), t) + (IF e = t THEN 1 ELSE 0)
<1> DEFINE r == RemoveFirst(s, e)
<1>1. PICK k \in 1 .. Len(s) :
        /\ s[k] = e /\ r \in Seq(S) /\ Len(r) = Len(s) - 1
        /\ \A i \in 1 .. Len(s) - 1 : r[i] = IF i < k THEN s[i] ELSE s[i + 1]
  BY RemovedOne
<1> HIDE DEF r
<1>2. Times(s, t) = Times(r, t) + (IF s[k] = t THEN 1 ELSE 0)
  BY <1>1, TimesCut
<1>3. QED BY <1>1, <1>2 DEF r

\* A text that does not stand in it.
LEMMA TimesNone ==
    ASSUME NEW S, NEW s \in Seq(S), NEW t
    PROVE  Contains(s, t) <=> Times(s, t) # 0
<1> DEFINE A == {i \in DOMAIN s : s[i] = t}
<1>1. Len(s) \in Nat /\ A \subseteq 1 .. Len(s) /\ DOMAIN s = 1 .. Len(s)
  OBVIOUS
<1>2. Contains(s, t) <=> A # {}
  BY <1>1 DEF Contains
<1> HIDE DEF A
<1>3. Cardinality(A) = 0 <=> A = {}
  BY <1>1, PlacesCount, FS_EmptySet
<1>4. QED BY <1>2, <1>3 DEF Times, A

-----------------------------------------------------------------------------
(* What is no text of the user leaves the bubbles where they are.          *)

SameBubbles(d, n) ==
    /\ n.pendingWeb = d.pendingWeb
    /\ Positions(n, "user") = Positions(d, "user")
    /\ \A i \in Positions(d, "user") : n.items[i] = d.items[i]

\* One such step after another.
LEMMA SameThen == ASSUME NEW d, NEW m, NEW n, SameBubbles(d, m), SameBubbles(m, n) PROVE SameBubbles(d, n)
BY DEF SameBubbles

\* What changes the items not at all.
LEMMA SameItems ==
    ASSUME NEW d, NEW n, n.items = d.items, n.pendingWeb = d.pendingWeb PROVE SameBubbles(d, n)
BY DEF SameBubbles, Positions

\* What changes other items.
LEMMA SamePatched ==
    ASSUME NEW d, NEW n, n.pendingWeb = d.pendingWeb, DOMAIN n.items = DOMAIN d.items,
           \A i \in DOMAIN d.items :
               n.items[i] = d.items[i] \/ (n.items[i].kind # "user" /\ d.items[i].kind # "user")
    PROVE  SameBubbles(d, n)
BY DEF SameBubbles, Positions

\* What changes one other item.
LEMMA SameChanged ==
    ASSUME NEW d \in Screen, NEW k \in DOMAIN d.items, NEW x, d.items[k].kind # "user", x.kind # "user"
    PROVE  SameBubbles(d, [d EXCEPT !.items[k] = x])
<1> DEFINE n == [d EXCEPT !.items[k] = x]
<1>1. n.pendingWeb = d.pendingWeb /\ n.items = [d.items EXCEPT ![k] = x]
  BY DEF Screen
<1> HIDE DEF n
<1>2. DOMAIN n.items = DOMAIN d.items
  BY <1>1
<1>3. \A i \in DOMAIN d.items : n.items[i] = IF i = k THEN x ELSE d.items[i]
  BY <1>1
<1>4. SameBubbles(d, n)
  BY <1>1, <1>2, <1>3, SamePatched
<1>5. QED BY <1>4 DEF n

\* What pushes an item of another kind.
LEMMA SamePushed ==
    ASSUME NEW d \in Screen, NEW x \in Item, x.kind # "user" PROVE SameBubbles(d, push(d, x))
<1> DEFINE n == push(d, x)
           m == Len(d.items)
<1>1. n.pendingWeb = d.pendingWeb /\ n.items = Append(d.items, x)
  BY DEF push, Screen
<1> HIDE DEF n
<1>2. /\ m \in Nat /\ DOMAIN d.items = 1 .. m /\ DOMAIN n.items = 1 .. m + 1 /\ n.items[m + 1] = x
      /\ \A i \in 1 .. m : n.items[i] = d.items[i]
  <2> HIDE DEF Item
  <2>1. d.items \in Seq(Item) BY ScreenFields
  <2>2. QED BY <1>1, <2>1
<1> HIDE DEF m, Item
<1>3. ASSUME NEW i PROVE i \in Positions(n, "user") <=> i \in Positions(d, "user")
  <2>1. i \in 1 .. m + 1 => i = m + 1 \/ i \in 1 .. m BY <1>2
  <2>2. m + 1 \notin 1 .. m /\ \A j \in 1 .. m : j \in 1 .. m + 1 BY <1>2
  <2>3. QED BY <1>2, <2>1, <2>2 DEF Positions
<1>4. Positions(n, "user") = Positions(d, "user")
  BY <1>3
<1>5. \A i \in Positions(d, "user") : n.items[i] = d.items[i]
  BY <1>2 DEF Positions
<1>6. QED BY <1>1, <1>4, <1>5 DEF SameBubbles, n

\* What replaces the item at the tail, if it is another.
LEMMA SameReplaced ==
    ASSUME NEW d \in Screen, NEW x, LastKind(d) \notin {"none", "user"}, x.kind # "user"
    PROVE  SameBubbles(d, ReplaceLast(d, x))
<1>1. Len(d.items) \in DOMAIN d.items /\ d.items[Len(d.items)].kind # "user"
  BY LastIn
<1>2. QED BY <1>1, SameChanged DEF ReplaceLast

\* The ends of a turn (model.ts, idle and endTurn).
LEMMA SameEnds ==
    ASSUME NEW d \in Kept, NEW failed \in BOOLEAN
    PROVE  /\ SameBubbles(d, idle(d)) /\ SameBubbles(d, endTurn(d, failed))
           /\ SameBubbles(d, result(d, failed)) /\ SameBubbles(d, conversationReset(d))
<1>1. d \in Screen
  BY DEF Kept
<1>2. SameBubbles(d, idle(d))
  <2>1. idle(d).items = d.items /\ idle(d).pendingWeb = d.pendingWeb BY <1>1 DEF idle, Screen
  <2>2. QED BY <2>1, SameItems
<1>3. ASSUME NEW f \in BOOLEAN PROVE SameBubbles(d, endTurn(d, f)) /\ endTurn(d, f) \in Kept
  <2> DEFINE n == endTurn(d, f)
             status == IF f THEN "error" ELSE "ok"
  <2>1. n.pendingWeb = d.pendingWeb /\ n.items = [i \in DOMAIN d.items |-> SettledItem(d.items[i], status)]
    BY <1>1 DEF endTurn, idle, Screen
  <2>2. n \in Kept BY EndTurnKept DEF Goes
  <2> HIDE DEF n, status
  <2>3. ASSUME NEW i \in DOMAIN d.items
        PROVE  SettledItem(d.items[i], status) = d.items[i]
               \/ (SettledItem(d.items[i], status).kind # "user" /\ d.items[i].kind # "user")
    <3>1. d.items[i] \in Item /\ status \in Status BY <1>1, ScreenFields DEF Status, status
    <3>2. SettledItem(d.items[i], status).kind = d.items[i].kind BY <3>1, SettledAlike DEF AlikeItem
    <3>3. d.items[i].kind = "user" => SettledItem(d.items[i], status) = d.items[i] BY DEF SettledItem
    <3>4. QED BY <3>2, <3>3
  <2>4. SameBubbles(d, n) BY <2>1, <2>3, SamePatched
  <2>5. QED BY <2>2, <2>4 DEF n
<1>4. ASSUME NEW m \in Kept, NEW what \in {"error", "reset", "shutdown", "summary", "boundary", "line"}
      PROVE  SameBubbles(m, push(m, Note(what)))
  <2>1. Note(what) \in NoteItem /\ Note(what).kind # "user" BY DEF Note, NoteItem
  <2>2. Note(what) \in Item BY <2>1, ItemSets
  <2>3. QED BY <2>1, <2>2, SamePushed DEF Kept
<1>5. SameBubbles(d, result(d, failed))
  <2>1. CASE failed = TRUE
    <3>1. result(d, failed) = push(endTurn(d, TRUE), Note("error")) BY <2>1 DEF result
    <3>2. QED BY <3>1, <1>3, <1>4, SameThen
  <2>2. CASE failed = FALSE
    <3>1. result(d, failed) = endTurn(d, FALSE) BY <2>2 DEF result
    <3>2. QED BY <3>1, <1>3
  <2>3. QED BY <2>1, <2>2
<1>6. SameBubbles(d, conversationReset(d))
  <2> DEFINE m == endTurn(d, FALSE)
             p == [m EXCEPT !.todos = <<>>]
             x == Note("reset")
  <2>1. m \in Kept /\ SameBubbles(d, m) BY <1>3
  <2>2. conversationReset(d) = push(p, x) BY DEF conversationReset
  <2> HIDE DEF m
  <2>3. m \in Screen BY <2>1 DEF Kept
  <2>4. p.items = m.items /\ p.pendingWeb = m.pendingWeb BY <2>3 DEF Screen
  <2>5. p \in Screen
    <3>1. <<>> \in Seq(TodoTask) OBVIOUS
    <3> HIDE DEF p
    <3>2. QED BY <2>3, <3>1 DEF Screen, p
  <2> HIDE DEF p
  <2>6. SameBubbles(m, p) BY <2>4, SameItems
  <2>7. x \in Item /\ x.kind # "user"
    <3>1. x \in NoteItem /\ x.kind # "user" BY DEF Note, NoteItem
    <3>2. QED BY <3>1, ItemSets
  <2> HIDE DEF x
  <2>8. SameBubbles(p, push(p, x)) BY <2>5, <2>7, SamePushed
  <2>9. QED BY <2>1, <2>2, <2>6, <2>8, SameThen
<1>7. QED BY <1>2, <1>3, <1>5, <1>6

\* A note at the end (model.ts, push).
LEMMA SameNote ==
    ASSUME NEW d \in Kept, NEW what \in {"error", "reset", "shutdown", "summary", "boundary", "line"}
    PROVE  SameBubbles(d, push(d, Note(what)))
<1>1. Note(what) \in NoteItem /\ Note(what).kind # "user" BY DEF Note, NoteItem
<1>2. Note(what) \in Item BY <1>1, ItemSets
<1>3. QED BY <1>1, <1>2, SamePushed DEF Kept

\* Background tasks (model.ts, task_started, task_notification, task_updated).
LEMMA SameTasks ==
    ASSUME NEW d \in Kept, NEW task \in TaskNames, NEW status \in TaskStatus
    PROVE  /\ SameBubbles(d, WithStatus(d, task, status)) /\ SameBubbles(d, push(d, Task(task, status)))
           /\ SameBubbles(d, TaskNotification(d, task, status))
<1>1. d \in Screen
  BY DEF Kept
<1>2. SameBubbles(d, WithStatus(d, task, status))
  <2>1. CASE TaskCards(d, task) = {} BY <2>1, SameItems DEF WithStatus
  <2>2. CASE TaskCards(d, task) # {}
    <3> DEFINE k == Min(TaskCards(d, task))
               x == [d.items[k] EXCEPT !.status = status]
    <3>1. TaskCards(d, task) \subseteq Positions(d, "bgtask") /\ TaskCards(d, task) \subseteq Nat
      BY <1>1, PositionsIn DEF TaskCards
    <3>2. k \in Positions(d, "bgtask") BY <3>1, <2>2, MinIn
    <3>3. k \in DOMAIN d.items /\ d.items[k].kind = "bgtask" /\ d.items[k] \in TaskItem
      <4> HIDE DEF Item, k
      <4>1. k \in DOMAIN d.items /\ d.items[k].kind = "bgtask" /\ d.items[k] \in Item
        BY <1>1, <3>2, PositionsIn
      <4>2. QED BY <4>1, ItemByKind
    <3>4. WithStatus(d, task, status) = [d EXCEPT !.items[k] = x] BY <2>2 DEF WithStatus
    <3> HIDE DEF k
    <3>5. x.kind # "user" BY <3>3 DEF TaskItem
    <3> HIDE DEF x
    <3>6. QED BY <1>1, <3>3, <3>4, <3>5, SameChanged
  <2>3. QED BY <2>1, <2>2
<1>3. SameBubbles(d, push(d, Task(task, status)))
  <2>1. Task(task, status) \in TaskItem /\ Task(task, status).kind # "user" BY DEF Task, TaskItem
  <2>2. Task(task, status) \in Item BY <2>1, ItemSets
  <2>3. QED BY <1>1, <2>1, <2>2, SamePushed
<1>4. SameBubbles(d, TaskNotification(d, task, status))
  BY <1>2, <1>3 DEF TaskNotification
<1>5. QED BY <1>2, <1>3, <1>4

\* Tasks the worker lists no more.
LEMMA SameDropped ==
    ASSUME NEW d \in Kept, NEW listed, NEW status \in TaskStatus
    PROVE  SameBubbles(d, Dropped(d, listed, status))
<1> DEFINE Drops(x) == x.kind = "bgtask" /\ x.status = "running" /\ x.task \notin listed
           items == [i \in DOMAIN d.items |->
                       IF Drops(d.items[i]) THEN [d.items[i] EXCEPT !.status = status] ELSE d.items[i]]
           n == Dropped(d, listed, status)
<1>1. d \in Screen
  BY DEF Kept
<1>2. n = [d EXCEPT !.items = items]
  BY DEF Dropped
<1>3. ASSUME NEW i \in DOMAIN d.items
      PROVE  items[i] = d.items[i] \/ (items[i].kind # "user" /\ d.items[i].kind # "user")
  <2>1. d.items[i] \in Item
    <3> HIDE DEF Item
    <3>1. QED BY <1>1, ScreenFields
  <2>2. CASE Drops(d.items[i])
    <3>1. items[i] = [d.items[i] EXCEPT !.status = status] BY <2>2
    <3>2. d.items[i] \in TaskItem BY <2>1, <2>2, ItemByKind
    <3> HIDE DEF items, Item
    <3>3. items[i].kind = "bgtask" BY <3>1, <3>2 DEF TaskItem
    <3>4. QED BY <2>2, <3>3
  <2>3. CASE ~Drops(d.items[i])
    <3>1. items[i] = d.items[i] BY <2>3
    <3>2. QED BY <3>1
  <2>4. QED BY <2>2, <2>3
<1>4. DOMAIN items = DOMAIN d.items
  OBVIOUS
<1> HIDE DEF items
<1>5. n.items = items /\ n.pendingWeb = d.pendingWeb
  BY <1>1, <1>2 DEF Screen
<1> HIDE DEF n
<1>6. SameBubbles(d, n)
  BY <1>3, <1>4, <1>5, SamePatched
<1>7. QED BY <1>6 DEF n

\* Events of an unknown shape (model.ts, markUnknown).
LEMMA SameUnknown ==
    ASSUME NEW d \in Kept, NEW shape \in {"new", "notice"} PROVE SameBubbles(d, markUnknown(d, shape))
<1>1. d \in Screen
  BY DEF Kept
<1>2. CASE LastKind(d) = "unknown" /\ Last(d.items).shape = shape
  <2> DEFINE x == [Last(d.items) EXCEPT !.count = @ + 1]
  <2>1. Last(d.items) \in UnknownItem
    <3> HIDE DEF Item
    <3>1. Last(d.items) \in Item /\ Last(d.items).kind = "unknown" BY <1>1, <1>2, LastIn
    <3>2. QED BY <3>1, ItemByKind
  <2>2. x.kind # "user" BY <2>1 DEF UnknownItem
  <2>3. markUnknown(d, shape) = ReplaceLast(d, x) BY <1>2 DEF markUnknown
  <2> HIDE DEF x
  <2>4. QED BY <1>1, <1>2, <2>2, <2>3, SameReplaced
<1>3. CASE ~(LastKind(d) = "unknown" /\ Last(d.items).shape = shape)
  <2> DEFINE x == [kind |-> "unknown", shape |-> shape, count |-> 1]
  <2>1. x \in UnknownItem /\ x.kind # "user" BY DEF UnknownItem
  <2>2. markUnknown(d, shape) = push(d, x) BY <1>3 DEF markUnknown
  <2> HIDE DEF x
  <2>3. x \in Item BY <2>1, ItemSets
  <2>4. QED BY <1>1, <2>1, <2>2, <2>3, SamePushed
<1>4. QED BY <1>2, <1>3

\* The flags of the screen.
LEMMA SameFlags ==
    ASSUME NEW d \in Screen, NEW b
    PROVE  /\ SameBubbles(d, [d EXCEPT !.live.compacting = b]) /\ SameBubbles(d, [d EXCEPT !.live.thinking = b])
           /\ SameBubbles(d, [d EXCEPT !.live.busy = b]) /\ SameBubbles(d, [d EXCEPT !.live.running = b])
           /\ SameBubbles(d, [d EXCEPT !.live.busy = TRUE, !.live.thinking = b])
<1> DEFINE Beside(n) == n.items = d.items /\ n.pendingWeb = d.pendingWeb
<1>1. Beside([d EXCEPT !.live.compacting = b]) /\ Beside([d EXCEPT !.live.thinking = b])
  BY DEF Screen, Live
<1>2. Beside([d EXCEPT !.live.busy = b]) /\ Beside([d EXCEPT !.live.running = b])
  BY DEF Screen, Live
<1>3. Beside([d EXCEPT !.live.busy = TRUE, !.live.thinking = b])
  BY DEF Screen, Live
<1>4. ASSUME NEW n, Beside(n) PROVE SameBubbles(d, n)
  BY <1>4, SameItems
<1> HIDE DEF Beside
<1>5. QED BY <1>1, <1>2, <1>3, <1>4

\* System events (model.ts, system).
LEMMA SameSystem == ASSUME NEW d \in Kept, NEW e, IsSystem(e) PROVE SameBubbles(d, system(d, e))
<1> USE DEF IsSystem
<1>0. d \in Screen
  BY DEF Kept
<1>1. CASE e.subtype = "thinking_tokens" BY <1>0, <1>1, SameFlags DEF system
<1>2. CASE e.subtype = "post_turn_summary"
  <2>1. SameBubbles(d, idle(d)) /\ idle(d) \in Kept BY SameEnds, IdleKept DEF Goes
  <2>2. SameBubbles(idle(d), push(idle(d), Note("summary"))) BY <2>1, SameNote
  <2>3. SameBubbles(d, push(idle(d), Note("summary"))) BY <2>1, <2>2, SameThen
  <2>4. QED BY <1>2, <2>1, <2>3 DEF system
<1>3. CASE e.subtype = "compacting" BY <1>0, <1>3, SameFlags DEF system
<1> DEFINE m == Compacted(d)
<1>4. SameBubbles(d, m) /\ m \in Kept
  BY <1>0, SameFlags, CompactedKept DEF Compacted, Goes
<1>5. SameBubbles(d, push(m, Note("error"))) /\ SameBubbles(d, push(m, Note("boundary")))
  <2> HIDE DEF m
  <2>1. SameBubbles(m, push(m, Note("error"))) /\ SameBubbles(m, push(m, Note("boundary")))
    BY <1>4, SameNote
  <2>2. QED BY <1>4, <2>1, SameThen
<1>6. CASE e.subtype = "compact_result" BY <1>4, <1>5, <1>6 DEF system
<1>7. CASE e.subtype = "compact_boundary" BY <1>5, <1>7 DEF system
<1>8. CASE e.subtype = "notice" BY <1>8, SameUnknown DEF system
<1>9. CASE e.subtype = "task_started"
  <2>1. SameBubbles(d, TaskStarted(d, e.task)) BY <1>9, SameTasks, SameItems DEF TaskStarted, TaskStatus
  <2>2. QED BY <1>9, <2>1 DEF system
<1>10. CASE e.subtype = "task_notification" BY <1>10, SameTasks DEF system
<1>11. CASE e.subtype = "task_updated"
  <2>1. (IF e.status \in {"failed", "completed"} THEN e.status ELSE "running") \in TaskStatus BY DEF TaskStatus
  <2>2. SameBubbles(d, TaskUpdated(d, e.task, e.status)) BY <1>11, <2>1, SameTasks DEF TaskUpdated
  <2>3. QED BY <1>11, <2>2 DEF system
<1>12. CASE e.subtype = "tasks_changed"
  <2>1. SameBubbles(d, Dropped(d, e.tasks, "completed")) BY SameDropped DEF TaskStatus
  <2>2. QED BY <1>12, <2>1 DEF system
<1>13. CASE e.subtype = "shutting_down"
  <2> DEFINE p == idle(d)
             n == Dropped(p, {}, "interrupted")
  <2>1. SameBubbles(d, p) /\ p \in Kept BY SameEnds, IdleKept DEF Goes
  <2>2. WorkerShutdown(d) = push(n, Note("shutdown")) BY DEF WorkerShutdown
  <2> HIDE DEF p
  <2>3. SameBubbles(p, n) /\ n \in Kept BY <2>1, SameDropped, DroppedKept DEF Goes, TaskStatus
  <2> HIDE DEF n
  <2>4. SameBubbles(n, push(n, Note("shutdown"))) BY <2>3, SameNote
  <2>5. SameBubbles(d, WorkerShutdown(d)) BY <2>1, <2>2, <2>3, <2>4, SameThen
  <2>6. QED BY <1>13, <2>5 DEF system
<1>14. CASE e.subtype = "line" BY <1>14, SameNote DEF system
<1>15. QED BY <1>1, <1>2, <1>3, <1>6, <1>7, <1>8, <1>9, <1>10, <1>11, <1>12, <1>13, <1>14

\* A question that is answered.
LEMMA SameAnswered ==
    ASSUME NEW d \in Kept, NEW k \in Positions(d, "question")
    PROVE  SameBubbles(d, [d EXCEPT !.items[k].answered = TRUE])
<1> DEFINE x == [d.items[k] EXCEPT !.answered = TRUE]
<1>1. d \in Screen
  BY DEF Kept
<1>2. k \in DOMAIN d.items /\ d.items[k].kind = "question" /\ d.items[k] \in QuestionItem
  <2> HIDE DEF Item
  <2>1. k \in DOMAIN d.items /\ d.items[k].kind = "question" /\ d.items[k] \in Item BY <1>1, PositionsIn
  <2>2. QED BY <2>1, ItemByKind
<1>3. x.kind # "user"
  BY <1>2 DEF QuestionItem
<1>4. [d EXCEPT !.items[k].answered = TRUE] = [d EXCEPT !.items[k] = x]
  OBVIOUS
<1> HIDE DEF x
<1>5. QED BY <1>1, <1>2, <1>3, <1>4, SameChanged

\* A call whose status is patched.
LEMMA SamePatch ==
    ASSUME NEW d \in Kept, NEW id, NEW status PROVE SameBubbles(d, patchCall(d, id, status))
<1> DEFINE n == patchCall(d, id, status)
<1>1. /\ n.pendingWeb = d.pendingWeb /\ DOMAIN n.items = DOMAIN d.items
      /\ \A i \in DOMAIN d.items :
            /\ n.items[i].kind = d.items[i].kind
            /\ d.items[i].kind # "tools" => n.items[i] = d.items[i]
  BY PatchAside
<1> HIDE DEF n
<1>2. SameBubbles(d, n)
  BY <1>1, SamePatched
<1>3. QED BY <1>2 DEF n

\* Blocks of a stream (model.ts, settleStreamed, appendStreamed, markThinking).
LEMMA SameBlock ==
    ASSUME NEW d \in Kept, NEW x \in BlockItem
    PROVE  SameBubbles(d, push(d, x)) /\ (LastKind(d) = x.kind => SameBubbles(d, ReplaceLast(d, x)))
<1>1. d \in Screen
  BY DEF Kept
<1>2. x \in Item /\ x.kind \notin {"none", "user"}
  BY ItemSets DEF BlockItem, Stream
<1>3. QED BY <1>1, <1>2, SamePushed, SameReplaced

\* A text a stream brought (model.ts, settleStreamed).
LEMMA SameStreamed ==
    ASSUME NEW d \in Kept, NEW kind \in Stream, NEW text \in Seq(Chunk)
    PROVE  SameBubbles(d, settleStreamed(d, kind, text))
<1>1. Block(kind, text) \in BlockItem /\ Block(kind, text).kind = kind
  BY DEF Block, BlockItem
<1>2. QED BY <1>1, SameBlock DEF settleStreamed, OnDraft

\* A chunk of a draft (model.ts, appendStreamed).
LEMMA SameAppended ==
    ASSUME NEW d \in Kept, NEW kind \in Stream, NEW chunk \in Chunk
    PROVE  SameBubbles(d, appendStreamed(d, kind, chunk))
<1>1. d \in Screen
  BY DEF Kept
<1>2. CASE LastKind(d) = kind /\ Last(d.items).streaming
  <2> DEFINE x == [Last(d.items) EXCEPT !.text = Append(@, chunk)]
  <2>1. Last(d.items) \in BlockItem /\ Last(d.items).kind = kind
    <3> HIDE DEF Item
    <3>1. Last(d.items) \in Item /\ Last(d.items).kind = kind BY <1>1, <1>2, LastIn DEF Stream
    <3>2. QED BY <3>1, ItemByKind
  <2>2. x.kind # "user" /\ LastKind(d) \notin {"none", "user"}
    BY <2>1, <1>2 DEF BlockItem, Stream
  <2>3. appendStreamed(d, kind, chunk) = ReplaceLast(d, x)
    BY <1>2 DEF appendStreamed
  <2> HIDE DEF x
  <2>4. QED BY <1>1, <2>2, <2>3, SameReplaced
<1>3. CASE ~(LastKind(d) = kind /\ Last(d.items).streaming)
  <2> DEFINE x == [Block(kind, <<chunk>>) EXCEPT !.streaming = TRUE, !.fromStream = TRUE]
  <2>1. <<chunk>> \in Seq(Chunk)
    OBVIOUS
  <2>2. x \in BlockItem
    BY <2>1 DEF Block, BlockItem
  <2>3. appendStreamed(d, kind, chunk) = push(d, x)
    BY <1>3 DEF appendStreamed
  <2> HIDE DEF x
  <2>4. QED BY <2>2, <2>3, SameBlock
<1>4. QED BY <1>2, <1>3

\* A marker of thinking (model.ts, markThinking).
LEMMA SameMarker == ASSUME NEW d \in Kept PROVE SameBubbles(d, markThinking(d))
<1>1. Block("thinking", <<>>) \in BlockItem
  <2>1. <<>> \in Seq(Chunk) OBVIOUS
  <2>2. QED BY <2>1 DEF Block, BlockItem, Stream
<1>2. QED BY <1>1, SameBlock, SameItems DEF markThinking

\* Calls (model.ts, addToolCall).
LEMMA SameCall ==
    ASSUME NEW d \in Kept, NEW id \in Calls, NEW m, m = addToolCall(d, id), NEW n, n.items = m.items, n.pendingWeb = m.pendingWeb
    PROVE  SameBubbles(d, n)
<1> DEFINE old == IF LastKind(d) = "tools" THEN Last(d.items).calls ELSE <<>>
           item == [kind |-> "tools", calls |-> Append(old, [id |-> id, status |-> "running"])]
           p == IF old = <<>> THEN push(d, item) ELSE ReplaceLast(d, item)
           place == <<Len(p.items), Len(item.calls)>>
<1>1. d \in Screen
  BY DEF Kept
<1>2. old \in Seq(CallCard)
  <2>1. CASE LastKind(d) = "tools"
    <3> HIDE DEF Item
    <3>1. Last(d.items) \in Item /\ Last(d.items).kind = "tools" BY <1>1, <2>1, LastIn
    <3>2. Last(d.items) \in ToolsItem BY <3>1, ItemByKind
    <3>3. Last(d.items).calls \in Seq(CallCard) BY <3>2 DEF ToolsItem
    <3>4. QED BY <2>1, <3>3
  <2>2. CASE LastKind(d) # "tools"
    <3>1. old = <<>> BY <2>2
    <3> HIDE DEF old
    <3>2. <<>> \in Seq(CallCard) OBVIOUS
    <3>3. QED BY <3>1, <3>2
  <2>3. QED BY <2>1, <2>2
<1>3. old # <<>> => LastKind(d) \notin {"none", "user"}
  OBVIOUS
<1>4. m = [p EXCEPT !.index = Placed(@, id, place)]
  BY DEF addToolCall
<1> HIDE DEF old
<1>5. item \in ToolsItem /\ item.kind # "user"
  <2>1. [id |-> id, status |-> "running"] \in CallCard BY DEF CallCard, Status
  <2> HIDE DEF CallCard
  <2>2. Append(old, [id |-> id, status |-> "running"]) \in Seq(CallCard) BY <1>2, <2>1
  <2>3. QED BY <2>2 DEF ToolsItem
<1> HIDE DEF item, place
<1>6. item \in Item
  BY <1>5, ItemSets
<1>7. SameBubbles(d, p)
  BY <1>1, <1>3, <1>5, <1>6, SamePushed, SameReplaced
<1>8. p.items = m.items /\ p.pendingWeb = m.pendingWeb
  <2>1. p = [d EXCEPT !.items = Append(@, item)] \/ p = [d EXCEPT !.items[Len(d.items)] = item]
    BY DEF push, ReplaceLast
  <2>2. "items" \in DOMAIN p /\ "pendingWeb" \in DOMAIN p BY <1>1, <2>1 DEF Screen
  <2> HIDE DEF p
  <2>3. QED BY <1>4, <2>2
<1> HIDE DEF p
<1>9. SameBubbles(p, n)
  BY <1>8, SameItems
<1>10. QED BY <1>7, <1>9, SameThen

\* The task list (model.ts, applyTodoTool and learnTodoId).
LEMMA SameTodos ==
    ASSUME NEW d \in Kept, NEW b \in ToolBlocks, b.tool \in {"create", "update"}
    PROVE  SameBubbles(d, applyTodoTool(d, b))
<1> DEFINE key == IF b.tool = "create" THEN ById(b.id) ELSE ByNumber(b.task)
           todos == ListTask(d.todos, key, b.status)
           e == [d EXCEPT !.todos = todos]
           m == snapshotTodos(e)
           n == applyTodoTool(d, b)
           x == [kind |-> "todo", tasks |-> todos]
<1>1. d \in Screen /\ key \in {"call", "number"} \X Calls /\ b.status \in {"pending", "deleted"}
  BY DEF Kept, ToolBlocks, ById, ByNumber
<1>2. todos \in Seq(TodoTask)
  <2> HIDE DEF key
  <2>1. QED BY <1>1, ScreenFields, ListTaskType
<1>3. n = [m EXCEPT !.index = Placed(m.index, b.id, <<0, 0>>)]
  BY DEF applyTodoTool
<1> HIDE DEF todos, n
<1>4. m \in Kept
  BY <1>2, SnapshotKept
<1>5. e \in Screen /\ e.items = d.items /\ e.pendingWeb = d.pendingWeb /\ e.todos = todos
  BY <1>1, <1>2 DEF Screen
<1>6. m = IF LastKind(e) = "todo" THEN ReplaceLast(e, x) ELSE push(e, x)
  BY <1>5 DEF snapshotTodos
<1>7. x \in Item /\ x.kind # "user"
  BY <1>2, ItemSets DEF TodoItem
<1> HIDE DEF e, x, m
<1>8. SameBubbles(d, e)
  BY <1>5, SameItems
<1>9. SameBubbles(e, m)
  BY <1>5, <1>6, <1>7, SamePushed, SameReplaced
<1>10. n.items = m.items /\ n.pendingWeb = m.pendingWeb
  BY <1>3, <1>4 DEF Kept, Screen
<1>11. SameBubbles(m, n)
  BY <1>10, SameItems
<1>12. QED BY <1>8, <1>9, <1>11, SameThen DEF n

\* The id of a task, known with its result (model.ts, learnTodoId).
LEMMA SameLearned ==
    ASSUME NEW d \in Kept, NEW id \in Calls PROVE SameBubbles(d, learnTodoId(d, id))
<1> DEFINE m == learnTodoIdOnly(d, id)
           lists == Positions(d, "todo")
           k == Max(lists)
           x == [m.items[k] EXCEPT !.tasks = m.todos]
           n == learnTodoId(d, id)
<1>1. d \in Screen
  BY DEF Kept
<1>2. m.items = d.items /\ m.pendingWeb = d.pendingWeb /\ n = IF m = d \/ lists = {} THEN m ELSE [m EXCEPT !.items[k] = x]
  BY <1>1 DEF learnTodoIdOnly, learnTodoId, Screen
<1>3. DOMAIN m = {"items", "index", "pendingWeb", "todos", "live"}
  BY <1>1 DEF learnTodoIdOnly, Screen
<1> HIDE DEF m, n
<1>4. CASE m = d \/ lists = {}
  BY <1>2, <1>4, SameItems DEF n
<1>5. CASE ~(m = d \/ lists = {})
  <2>1. k \in lists
    <3>1. lists \subseteq 1 .. Len(d.items) /\ Len(d.items) \in Nat BY <1>1, PositionsIn, ScreenFields
    <3> HIDE DEF lists
    <3>2. QED BY <3>1, <1>5, MaxIn
  <2> HIDE DEF k
  <2>2. k \in DOMAIN d.items /\ d.items[k] \in TodoItem
    <3> HIDE DEF Item
    <3>1. k \in DOMAIN d.items /\ d.items[k].kind = "todo" /\ d.items[k] \in Item BY <1>1, <2>1, PositionsIn
    <3>2. QED BY <3>1, ItemByKind
  <2>3. x.kind # "user" /\ d.items[k].kind # "user"
    BY <1>2, <2>2 DEF TodoItem
  <2> HIDE DEF x
  <2>4. n.items = [d.items EXCEPT ![k] = x] /\ n.pendingWeb = d.pendingWeb
    BY <1>2, <1>3, <1>5
  <2>5. DOMAIN n.items = DOMAIN d.items /\ \A i \in DOMAIN d.items : n.items[i] = IF i = k THEN x ELSE d.items[i]
    BY <2>4
  <2>6. SameBubbles(d, n)
    BY <2>3, <2>4, <2>5, SamePatched
  <2>7. QED BY <2>6 DEF n
<1>6. QED BY <1>4, <1>5

\* Calls and blocks of a message (model.ts, assistant).
LEMMA SameToolUse ==
    ASSUME NEW d \in Kept, NEW b \in ToolBlocks, NEW isHistory \in BOOLEAN
    PROVE  SameBubbles(d, ToolUse(d, b, isHistory))
<1> DEFINE quiet == IF isHistory THEN d ELSE [d EXCEPT !.live.thinking = FALSE]
           armed == IF isHistory THEN quiet ELSE [quiet EXCEPT !.live.busy = TRUE]
           m == addToolCall(armed, b.id)
           n == [m EXCEPT !.live.running = b.id]
<1>1. b.id \in Calls /\ b.tool \in {"plain", "hidden", "question", "create", "update"} /\ d \in Screen
  BY DEF ToolBlocks, Kept
<1>2. quiet \in Kept /\ SameBubbles(d, quiet)
  BY <1>1, CompactedKept, GoesNowhere, SameFlags, SameItems DEF Goes
<1>3. ToolUse(d, b, isHistory) =
        IF b.tool \in {"hidden", "question"} THEN quiet
        ELSE IF b.tool = "plain" THEN n ELSE applyTodoTool(armed, b)
  <2> HIDE DEF quiet, armed
  <2>1. ToolUse(d, b, isHistory) =
          CASE b.tool \in {"hidden", "question"} -> quiet
            [] b.tool \in {"create", "update"}   -> applyTodoTool(armed, b)
            [] b.tool = "plain" -> n
    BY DEF ToolUse, quiet, armed
  <2> HIDE DEF n
  <2>2. QED BY <1>1, <2>1
<1> HIDE DEF quiet
<1>4. armed \in Kept /\ SameBubbles(quiet, armed)
  <2>1. quiet \in Screen BY <1>2 DEF Kept
  <2>2. QED BY <1>2, <2>1, CompactedKept, GoesNowhere, SameFlags, SameItems DEF Goes
<1> HIDE DEF armed
<1>5. SameBubbles(d, armed)
  BY <1>2, <1>4, SameThen
<1>6. CASE b.tool = "plain"
  <2>1. m \in Kept BY <1>1, <1>4, CallAdded
  <2>2. n.items = m.items /\ n.pendingWeb = m.pendingWeb
    <3> HIDE DEF m
    <3>1. QED BY <2>1 DEF Kept, Screen
  <2>3. SameBubbles(armed, n) BY <1>1, <1>4, <2>2, SameCall
  <2> HIDE DEF n
  <2>4. SameBubbles(d, n) BY <1>5, <2>3, SameThen
  <2>5. QED BY <1>3, <1>6, <2>4
<1>7. CASE b.tool \in {"create", "update"}
  <2>1. SameBubbles(armed, applyTodoTool(armed, b)) BY <1>4, <1>7, SameTodos
  <2>2. SameBubbles(d, applyTodoTool(armed, b)) BY <1>5, <2>1, SameThen
  <2> HIDE DEF n
  <2>3. QED BY <1>3, <1>7, <2>2
<1>8. CASE b.tool \in {"hidden", "question"}
  BY <1>2, <1>3, <1>8
<1>9. QED BY <1>1, <1>6, <1>7, <1>8

\* The blocks of a message, one after the other.
LEMMA SameBlocks ==
    ASSUME NEW d \in Kept, NEW b \in TextBlocks \cup ToolBlocks, NEW isHistory \in BOOLEAN
    PROVE  SameBubbles(d, AssistantBlock(d, b, isHistory))
<1> DEFINE Thinking(t) == IF isHistory THEN d ELSE [d EXCEPT !.live.thinking = t]
<1>1. \A t \in BOOLEAN : SameBubbles(d, Thinking(t)) /\ Thinking(t) \in Kept
  <2>1. d \in Screen BY DEF Kept
  <2>2. QED BY <2>1, CompactedKept, GoesNowhere, SameFlags, SameItems DEF Goes
<1>2. CASE b \in ToolBlocks
  <2>1. b.type = "tool_use" BY <1>2 DEF ToolBlocks
  <2>2. AssistantBlock(d, b, isHistory) = ToolUse(d, b, isHistory) BY <2>1 DEF AssistantBlock
  <2>3. QED BY <1>2, <2>2, SameToolUse
<1>3. CASE b \in TextBlocks
  <2>1. b.type \in {"text", "thinking"} /\ b.text \in Seq(Chunk) BY <1>3 DEF TextBlocks
  <2>2. /\ b.type = "text" => AssistantBlock(d, b, isHistory) = settleStreamed(Thinking(FALSE), "prose", b.text)
        /\ b.type = "thinking" /\ b.text # <<>> =>
              AssistantBlock(d, b, isHistory) = settleStreamed(Thinking(TRUE), "thinking", b.text)
        /\ b.type = "thinking" /\ b.text = <<>> => AssistantBlock(d, b, isHistory) = markThinking(Thinking(TRUE))
    BY <2>1 DEF AssistantBlock
  <2> HIDE DEF Thinking
  <2>3. SameBubbles(Thinking(FALSE), settleStreamed(Thinking(FALSE), "prose", b.text))
    BY <1>1, <2>1, SameStreamed DEF Stream
  <2>4. SameBubbles(Thinking(TRUE), settleStreamed(Thinking(TRUE), "thinking", b.text))
    BY <1>1, <2>1, SameStreamed DEF Stream
  <2>5. SameBubbles(Thinking(TRUE), markThinking(Thinking(TRUE)))
    BY <1>1, SameMarker
  <2>6. SameBubbles(d, Thinking(FALSE)) /\ SameBubbles(d, Thinking(TRUE))
    BY <1>1
  <2>7. CASE b.type = "text"
    BY <2>2, <2>3, <2>6, <2>7, SameThen
  <2>8. CASE b.type = "thinking" /\ b.text # <<>>
    <3>1. AssistantBlock(d, b, isHistory) = settleStreamed(Thinking(TRUE), "thinking", b.text) BY <2>2, <2>8
    <3>2. QED BY <2>4, <2>6, <3>1, SameThen
  <2>9. CASE b.type = "thinking" /\ b.text = <<>>
    <3>1. AssistantBlock(d, b, isHistory) = markThinking(Thinking(TRUE)) BY <2>2, <2>9
    <3>2. QED BY <2>5, <2>6, <3>1, SameThen
  <2>10. QED BY <2>1, <2>7, <2>8, <2>9
<1>4. QED BY <1>2, <1>3

\* Steps that leave the bubbles, one after the other.
LEMMA SameSteps ==
    ASSUME NEW E, NEW s \in Seq(E), NEW d \in Kept, NEW g, NEW a, Results(a, Kept, s, d, g),
           \A v \in Kept, k \in E : SameBubbles(v, g[<<v, k>>])
    PROVE  SameBubbles(d, a[Len(s)])
<1> DEFINE n == Len(s)
           Good == {i \in 0 .. n : SameBubbles(d, a[i])}
<1>1. n \in Nat /\ a \in [0 .. n -> Kept] /\ a[0] = d /\ \A i \in 1 .. n : a[i] = g[<<a[i - 1], s[i]>>] /\ s[i] \in E
  BY DEF Results
<1> HIDE DEF n
<1>2. 0 \in Good
  <2>1. SameBubbles(d, a[0]) BY <1>1, SameItems
  <2>2. QED BY <2>1, <1>1
<1>3. ASSUME NEW i \in 1 .. n, i - 1 \in Good PROVE i \in Good
  <2>1. i \in 0 .. n /\ i - 1 \in 0 .. n BY <1>1
  <2>2. a[i - 1] \in Kept /\ s[i] \in E /\ a[i] = g[<<a[i - 1], s[i]>>] BY <2>1, <1>1
  <2>3. SameBubbles(a[i - 1], a[i]) BY <2>2
  <2>4. SameBubbles(d, a[i]) BY <2>3, <1>3, SameThen
  <2>5. QED BY <2>1, <2>4
<1> HIDE DEF Good
<1>4. 0 .. n \subseteq Good
  BY <1>1, <1>2, <1>3, UpTo
<1>5. n \in Good
  BY <1>1, <1>4
<1>6. QED BY <1>5 DEF Good, n

\* A message (model.ts, assistant).
LEMMA SameMessage ==
    ASSUME NEW d \in Kept, NEW e, e.type = "assistant", IsAssistant(e), NEW isHistory \in BOOLEAN
    PROVE  SameBubbles(d, assistant(d, e, isHistory))
<1>1. e.blocks \in Seq(Blocks)
  BY DEF IsAssistant, Blocks
<1>2. PICK a : /\ Results(a, Kept, e.blocks, d, BlockStep(isHistory))
               /\ FoldLeft(LAMBDA s, b : AssistantBlock(s, b, isHistory), d, e.blocks) = a[Len(e.blocks)]
  BY <1>1, AssistantSteps
<1>3. \A v \in Kept, k \in Blocks : SameBubbles(v, BlockStep(isHistory)[<<v, k>>])
  <2>1. ASSUME NEW v \in Kept, NEW k \in Blocks PROVE SameBubbles(v, BlockStep(isHistory)[<<v, k>>])
    <3>1. SameBubbles(v, AssistantBlock(v, k, isHistory)) BY SameBlocks DEF Blocks
    <3>2. BlockStep(isHistory)[<<v, k>>] = AssistantBlock(v, k, isHistory) BY DEF BlockStep
    <3>3. QED BY <3>1, <3>2
  <2>2. QED BY <2>1
<1>4. SameBubbles(d, a[Len(e.blocks)])
  BY <1>1, <1>2, <1>3, SameSteps
<1>5. QED BY <1>2, <1>4 DEF assistant

\* Results of calls (model.ts, user, tool_result).
LEMMA SameResult ==
    ASSUME NEW d \in Kept, NEW id \in Calls, NEW failed \in BOOLEAN
    PROVE  SameBubbles(d, ToolResult(d, id, failed))
<1> DEFINE n == IF d.live.permission # Null /\ d.live.asked = id
                THEN [d EXCEPT !.live.permission = Null, !.live.asked = Null] ELSE d
           status == IF failed THEN "error" ELSE "ok"
           p == patchCall(n, id, status)
           q == [p EXCEPT !.live.running = NextOpen(p, id)]
           r == ToolResult(d, id, failed)
<1>0. d \in Screen
  BY DEF Kept
<1>1. n \in Kept /\ n.items = d.items /\ n.pendingWeb = d.pendingWeb
  <2> DEFINE m == [d EXCEPT !.live.permission = Null, !.live.asked = Null]
  <2>1. m \in Kept BY AskedKept DEF Goes
  <2>2. m.items = d.items /\ m.pendingWeb = d.pendingWeb BY <1>0 DEF Screen
  <2>3. n = m \/ n = d BY DEF m
  <2> HIDE DEF m, n
  <2>4. QED BY <2>1, <2>2, <2>3
<1>2. r = CASE Questions(d, id) # {} -> [n EXCEPT !.items[Min(Questions(d, id))].answered = TRUE]
            [] Questions(d, id) = {} /\ id \in DOMAIN d.index /\ ~HasCard(d, id) ->
                 IF failed THEN n ELSE learnTodoId(n, id)
            [] Questions(d, id) = {} /\ HasCard(d, id) -> IF d.live.running # id THEN p ELSE q
            [] OTHER -> n
  BY DEF ToolResult
<1> HIDE DEF n, status, p, q, r
<1>3. SameBubbles(d, n)
  BY <1>1, SameItems
<1>4. CASE Questions(d, id) # {}
  <2> DEFINE k == Min(Questions(d, id))
  <2>1. r = [n EXCEPT !.items[k].answered = TRUE] BY <1>2, <1>4
  <2>2. k \in Positions(n, "question")
    <3>1. Questions(d, id) \subseteq Positions(d, "question") /\ Questions(d, id) \subseteq Nat
      BY <1>0, PositionsIn DEF Questions
    <3>2. k \in Positions(d, "question") BY <3>1, <1>4, MinIn
    <3>3. Positions(n, "question") = Positions(d, "question") BY <1>1 DEF Positions
    <3>4. QED BY <3>2, <3>3
  <2> HIDE DEF k
  <2>3. SameBubbles(n, r) BY <2>1, <2>2, <1>1, SameAnswered
  <2>4. QED BY <1>3, <2>3, SameThen DEF r
<1>5. CASE Questions(d, id) = {} /\ id \in DOMAIN d.index /\ ~HasCard(d, id)
  <2>1. r = IF failed THEN n ELSE learnTodoId(n, id) BY <1>2, <1>5
  <2>2. SameBubbles(n, learnTodoId(n, id)) BY <1>1, SameLearned
  <2>3. SameBubbles(d, r) BY <2>1, <2>2, <1>3, SameThen
  <2>4. QED BY <2>3 DEF r
<1>6. CASE Questions(d, id) = {} /\ HasCard(d, id)
  <2>1. r = IF d.live.running # id THEN p ELSE q BY <1>2, <1>6
  <2>2. HasCard(n, id) /\ status \in Status
    <3>1. n.index = d.index BY DEF n
    <3>2. QED BY <3>1, <1>6 DEF HasCard, Status, status
  <2>3. p \in Kept BY <1>1, <2>2, PatchKept DEF p
  <2>4. SameBubbles(n, p) BY <1>1, SamePatch DEF p
  <2>5. q.items = p.items /\ q.pendingWeb = p.pendingWeb BY <2>3 DEF q, Kept, Screen
  <2>6. SameBubbles(p, q) BY <2>5, SameItems
  <2>7. SameBubbles(d, p) BY <1>3, <2>4, SameThen
  <2>8. SameBubbles(d, q) BY <2>6, <2>7, SameThen
  <2>9. QED BY <2>1, <2>7, <2>8 DEF r
<1>7. CASE Questions(d, id) = {} /\ id \notin DOMAIN d.index
  <2>1. ~HasCard(d, id) BY <1>7 DEF HasCard
  <2>2. r = n BY <1>2, <1>7, <2>1
  <2>3. QED BY <1>3, <2>2 DEF r
<1>8. QED BY <1>4, <1>5, <1>6, <1>7

\* Requests (model.ts, controlRequest, clearPermission and controlCancel).
LEMMA SameRequest ==
    ASSUME NEW d \in Kept, NEW e, e.request \in Calls, e.id = e.request, e.question \in BOOLEAN
    PROVE  SameBubbles(d, controlRequest(d, e))
<1>0. d \in Screen
  BY DEF Kept
<1>1. CASE e.question
  <2> DEFINE x == [kind |-> "question", request |-> e.request, id |-> e.id, answered |-> FALSE]
  <2>1. CASE \E i \in Positions(d, "question") : d.items[i].request = e.request
    BY <1>1, <2>1, SameItems DEF controlRequest
  <2>2. CASE ~\E i \in Positions(d, "question") : d.items[i].request = e.request
    <3>1. x \in QuestionItem /\ x.kind # "user" BY DEF QuestionItem
    <3>2. controlRequest(d, e) = push(d, x) BY <1>1, <2>2 DEF controlRequest
    <3> HIDE DEF x
    <3>3. x \in Item BY <3>1, ItemSets
    <3>4. QED BY <1>0, <3>1, <3>2, <3>3, SamePushed
  <2>3. QED BY <2>1, <2>2
<1>2. CASE ~e.question
  <2> DEFINE m == patchCall(d, e.id, "awaiting")
             n == [m EXCEPT !.live.permission = e.request, !.live.asked = e.id]
  <2>1. SameBubbles(d, m) /\ m \in Kept BY SamePatch, PatchedOpen DEF Goes
  <2>2. controlRequest(d, e) = n
    BY <1>2 DEF controlRequest
  <2> HIDE DEF m
  <2>3. n.items = m.items /\ n.pendingWeb = m.pendingWeb BY <2>1 DEF Kept, Screen
  <2> HIDE DEF n
  <2>4. SameBubbles(m, n) BY <2>3, SameItems
  <2>5. QED BY <2>1, <2>2, <2>4, SameThen
<1>3. QED BY <1>1, <1>2

\* A sheet closed (model.ts, clearPermission).
LEMMA SameCleared == ASSUME NEW d \in Kept PROVE SameBubbles(d, clearPermission(d))
<1> DEFINE n == [d EXCEPT !.live.permission = Null, !.live.asked = Null]
<1>1. n \in Kept
  BY AskedKept DEF Goes
<1>2. n.items = d.items /\ n.pendingWeb = d.pendingWeb
  BY DEF Kept, Screen
<1>3. clearPermission(d) = IF d.live.permission = Null THEN n ELSE patchCall(n, d.live.asked, "running")
  BY DEF clearPermission
<1> HIDE DEF n
<1>4. SameBubbles(d, n) /\ SameBubbles(n, patchCall(n, d.live.asked, "running"))
  BY <1>1, <1>2, SameItems, SamePatch
<1>5. QED BY <1>3, <1>4, SameThen

\* A request answered elsewhere (model.ts, controlCancel).
LEMMA SameCancelled == ASSUME NEW d \in Kept, NEW request PROVE SameBubbles(d, controlCancel(d, request))
<1> DEFINE n == IF d.live.permission = request THEN clearPermission(d) ELSE d
           open == Unanswered(d, request)
           k == Min(open)
<1>1. SameBubbles(d, n) /\ n \in Kept
  BY PermissionCleared, SameCleared, SameItems DEF Goes
<1>2. controlCancel(d, request) = IF open = {} THEN n ELSE [n EXCEPT !.items[k].answered = TRUE]
  BY DEF controlCancel
<1>3. Positions(n, "question") = Positions(d, "question")
  <2>1. CASE d.live.permission # request BY <2>1
  <2>2. CASE d.live.permission = request BY <2>2, QuestionsStay
  <2>3. QED BY <2>1, <2>2
<1> HIDE DEF n
<1>4. CASE open = {}
  BY <1>1, <1>2, <1>4
<1>5. CASE open # {}
  <2>1. open \subseteq Positions(d, "question") /\ open \subseteq Nat BY PositionsIn DEF Unanswered, Kept
  <2> HIDE DEF open
  <2>2. k \in Positions(n, "question") BY <2>1, <1>3, <1>5, MinIn
  <2> HIDE DEF k
  <2>3. SameBubbles(n, [n EXCEPT !.items[k].answered = TRUE]) BY <1>1, <2>2, SameAnswered
  <2>4. QED BY <1>1, <1>2, <1>5, <2>3, SameThen
<1>6. QED BY <1>4, <1>5

\* Deltas (model.ts, streamEvent).
LEMMA SameStream ==
    ASSUME NEW d \in Kept, NEW e, IsEvent(e), e.type = "stream_event", NEW isHistory \in BOOLEAN
    PROVE  SameBubbles(d, streamEvent(d, e, isHistory))
<1>1. e.delta \in BOOLEAN /\ (e.delta => e.block \in Stream /\ e.chunk \in Chunk) /\ d \in Screen
  BY DEF IsEvent, Kept
<1>2. CASE e.delta
  <2> DEFINE n == appendStreamed(d, e.block, e.chunk)
             t == e.block = "thinking"
  <2>1. SameBubbles(d, n) /\ n \in Screen BY <1>1, <1>2, SameAppended, StreamedAppended DEF Goes, Kept
  <2>2. streamEvent(d, e, isHistory) =
          IF isHistory THEN n ELSE [n EXCEPT !.live.busy = TRUE, !.live.thinking = t]
    BY <1>2 DEF streamEvent
  <2> HIDE DEF n, t
  <2>3. SameBubbles(n, [n EXCEPT !.live.busy = TRUE, !.live.thinking = t]) BY <2>1, SameFlags
  <2>4. QED BY <2>1, <2>2, <2>3, SameThen
<1>3. CASE ~e.delta
  <2> DEFINE streaming == {i \in Positions(d, "prose") \cup Positions(d, "thinking") : d.items[i].streaming}
             k == Max(streaming)
             x == [d.items[k] EXCEPT !.streaming = FALSE]
  <2>1. streamEvent(d, e, isHistory) = IF streaming = {} THEN d ELSE [d EXCEPT !.items[k] = x]
    BY <1>3 DEF streamEvent
  <2>2. CASE streaming = {}
    <3>1. streamEvent(d, e, isHistory) = d BY <2>1, <2>2
    <3>2. QED BY <3>1, SameItems
  <2>3. CASE streaming # {}
    <3>1. k \in Positions(d, "prose") \cup Positions(d, "thinking")
      <4>1. /\ streaming \subseteq Positions(d, "prose") \cup Positions(d, "thinking")
            /\ Positions(d, "prose") \subseteq 1 .. Len(d.items) /\ Positions(d, "thinking") \subseteq 1 .. Len(d.items)
            /\ Len(d.items) \in Nat
        BY <1>1, PositionsIn, ScreenFields
      <4> HIDE DEF streaming
      <4>2. streaming \subseteq 1 .. Len(d.items) BY <4>1
      <4>3. k \in streaming BY <4>1, <4>2, <2>3, MaxIn
      <4>4. QED BY <4>1, <4>3
    <3> HIDE DEF k, streaming
    <3>2. k \in DOMAIN d.items /\ d.items[k] \in BlockItem
      <4> HIDE DEF Item
      <4>1. k \in DOMAIN d.items /\ d.items[k].kind \in Stream /\ d.items[k] \in Item
        BY <1>1, <3>1, PositionsIn DEF Stream
      <4>2. QED BY <4>1, ItemByKind
    <3>3. x.kind # "user" /\ d.items[k].kind # "user" BY <3>2 DEF BlockItem, Stream
    <3> HIDE DEF x
    <3>4. QED BY <1>1, <2>1, <2>3, <3>2, <3>3, SameChanged
  <2>4. QED BY <2>2, <2>3
<1>4. QED BY <1>1, <1>2, <1>3

\* An answer (model.ts, markQuestionAnswered).
LEMMA SameMarked == ASSUME NEW d \in Kept, NEW request PROVE SameBubbles(d, markQuestionAnswered(d, request))
<1> DEFINE about == {i \in Positions(d, "question") : d.items[i].request = request}
           k == Min(about)
<1>1. markQuestionAnswered(d, request) = IF about = {} THEN d ELSE [d EXCEPT !.items[k].answered = TRUE]
  BY DEF markQuestionAnswered
<1>2. about \subseteq Positions(d, "question") /\ about \subseteq Nat
  BY PositionsIn DEF Kept
<1> HIDE DEF about
<1>3. CASE about = {}
  BY <1>1, <1>3, SameItems
<1>4. CASE about # {}
  <2>1. k \in Positions(d, "question") BY <1>2, <1>4, MinIn
  <2> HIDE DEF k
  <2>2. QED BY <1>1, <1>4, <2>1, SameAnswered
<1>5. QED BY <1>3, <1>4

\* The Stop button (model.ts, stop).
LEMMA SameStopped == ASSUME NEW d \in Kept PROVE SameBubbles(d, stop(d))
<1>1. stop(d).items = d.items /\ stop(d).pendingWeb = d.pendingWeb
  BY DEF stop, Kept, Screen
<1>2. QED BY <1>1, SameItems

-----------------------------------------------------------------------------
(* What is heard of a text: the bubbles that show it, those that say it is *)
(* queued, and the sends that wait for its echo.                           *)

Shown(d, text) == Cardinality(BubblesOf(d, text))
Queued(d, text) == Cardinality(QueuedOf(d, text))
Pending(d, text) == Times(d.pendingWeb, text)

\* From d to n text is echoed k times.
Heard(d, n, text, k) ==
    /\ Shown(n, text) + Pending(d, text) = Shown(d, text) + Pending(n, text) + k
    /\ Pending(n, text) # 0 => Pending(n, text) + k <= Pending(d, text)
    /\ Queued(d, text) <= Pending(d, text) => Queued(n, text) <= Pending(n, text)

\* They are numbers.
LEMMA HeardType ==
    ASSUME NEW d \in Screen, NEW text
    PROVE  /\ Shown(d, text) \in Nat /\ Queued(d, text) \in Nat /\ Pending(d, text) \in Nat
           /\ BubblesOf(d, text) \subseteq 1 .. Len(d.items) /\ QueuedOf(d, text) \subseteq 1 .. Len(d.items)
           /\ Len(d.items) \in Nat
<1>1. d.pendingWeb \in Seq(Texts) /\ DOMAIN d.items = 1 .. Len(d.items) /\ Len(d.items) \in Nat
  BY ScreenFields
<1>2. BubblesOf(d, text) \subseteq 1 .. Len(d.items) /\ QueuedOf(d, text) \subseteq 1 .. Len(d.items)
  BY <1>1 DEF BubblesOf, QueuedOf, Positions
<1>3. Pending(d, text) \in Nat
  BY <1>1, TimesType DEF Pending
<1>4. QED BY <1>1, <1>2, <1>3, PlacesCount DEF Shown, Queued

\* One thing heard after another.
LEMMA HeardThen ==
    ASSUME NEW d \in Screen, NEW m \in Screen, NEW n \in Screen, NEW text, NEW k \in Nat, NEW l \in Nat,
           Heard(d, m, text, k), Heard(m, n, text, l)
    PROVE  Heard(d, n, text, k + l)
<1>1. /\ Shown(d, text) \in Nat /\ Queued(d, text) \in Nat /\ Pending(d, text) \in Nat
      /\ Shown(m, text) \in Nat /\ Queued(m, text) \in Nat /\ Pending(m, text) \in Nat
      /\ Shown(n, text) \in Nat /\ Queued(n, text) \in Nat /\ Pending(n, text) \in Nat
  BY HeardType
<1>2. QED BY <1>1 DEF Heard

\* Where the bubbles stay, so do their numbers.
LEMMA SameCounts ==
    ASSUME NEW d, NEW n, SameBubbles(d, n), NEW t
    PROVE  Shown(n, t) = Shown(d, t) /\ Queued(n, t) = Queued(d, t) /\ Pending(n, t) = Pending(d, t)
<1>1. BubblesOf(n, t) = BubblesOf(d, t)
  BY DEF SameBubbles, BubblesOf
<1>2. QueuedOf(n, t) = QueuedOf(d, t)
  BY <1>1 DEF SameBubbles, BubblesOf, QueuedOf
<1>3. QED BY <1>1, <1>2 DEF Shown, Queued, Pending, SameBubbles

\* Nothing is heard of a text where the bubbles stay.
LEMMA HeardNot ==
    ASSUME NEW d \in Screen, NEW n, SameBubbles(d, n), NEW text PROVE Heard(d, n, text, 0)
<1>1. Shown(n, text) = Shown(d, text) /\ Queued(n, text) = Queued(d, text) /\ Pending(n, text) = Pending(d, text)
  BY SameCounts
<1>2. Shown(d, text) \in Nat /\ Queued(d, text) \in Nat /\ Pending(d, text) \in Nat
  BY HeardType
<1>3. QED BY <1>1, <1>2 DEF Heard

\* A bubble is pushed.
LEMMA BubbleMore ==
    ASSUME NEW d \in Screen, NEW text \in Texts, NEW state \in {"queued", "sent"}, NEW t
    PROVE  LET n == push(d, Bubble(text, state))
           IN  /\ Shown(n, t) = Shown(d, t) + (IF text = t THEN 1 ELSE 0)
               /\ Queued(n, t) = Queued(d, t) + (IF text = t /\ state = "queued" THEN 1 ELSE 0)
               /\ n.pendingWeb = d.pendingWeb
<1> DEFINE n == push(d, Bubble(text, state))
           x == Bubble(text, state)
           m == Len(d.items)
           A == BubblesOf(d, t)
           B == BubblesOf(n, t)
           P == QueuedOf(d, t)
           Q == QueuedOf(n, t)
<1>1. n.pendingWeb = d.pendingWeb /\ n.items = Append(d.items, x)
  BY DEF push, Screen
<1>2. x.kind = "user" /\ x.text = text /\ x.state = state
  BY DEF Bubble
<1> HIDE DEF n, x
<1>3. /\ m \in Nat /\ DOMAIN d.items = 1 .. m /\ DOMAIN n.items = 1 .. m + 1 /\ n.items[m + 1] = x
      /\ \A i \in 1 .. m : n.items[i] = d.items[i]
  <2> HIDE DEF Item
  <2>1. d.items \in Seq(Item) BY ScreenFields
  <2>2. QED BY <1>1, <2>1
<1> HIDE DEF m
<1>4. m + 1 \notin 1 .. m /\ \A i : i \in 1 .. m + 1 <=> i \in 1 .. m \/ i = m + 1
  BY <1>3
<1>5. A \subseteq 1 .. m /\ P \subseteq 1 .. m
  BY HeardType DEF m
<1>6. B = IF text = t THEN A \cup {m + 1} ELSE A
  <2>1. ASSUME NEW i PROVE i \in B <=> i \in A \/ (text = t /\ i = m + 1)
    <3>1. CASE i = m + 1 BY <3>1, <1>2, <1>3, <1>4, <1>5 DEF BubblesOf, Positions
    <3>2. CASE i \in 1 .. m BY <3>2, <1>3, <1>4 DEF BubblesOf, Positions
    <3>3. CASE i \notin 1 .. m + 1 BY <3>3, <1>3, <1>4 DEF BubblesOf, Positions
    <3>4. QED BY <3>1, <3>2, <3>3, <1>4
  <2> HIDE DEF A, B
  <2>2. QED BY <2>1
<1>7. Q = IF text = t /\ state = "queued" THEN P \cup {m + 1} ELSE P
  <2>1. ASSUME NEW i PROVE i \in Q <=> i \in P \/ (text = t /\ state = "queued" /\ i = m + 1)
    <3>1. CASE i = m + 1
      <4>1. i \in B <=> text = t BY <3>1, <1>4, <1>5, <1>6
      <4>2. n.items[i].state = state BY <3>1, <1>2, <1>3
      <4>3. i \notin P BY <3>1, <1>4, <1>5
      <4> HIDE DEF P, B
      <4>4. QED BY <4>1, <4>2, <4>3, <3>1 DEF QueuedOf, B
    <3>2. CASE i \in 1 .. m
      <4>1. (i \in B <=> i \in A) /\ n.items[i] = d.items[i] /\ i # m + 1 BY <3>2, <1>3, <1>4, <1>6
      <4> HIDE DEF A, B
      <4>2. QED BY <4>1 DEF QueuedOf, A, B
    <3>3. CASE i \notin 1 .. m + 1
      <4>1. i \notin B /\ i \notin A /\ i # m + 1 BY <3>3, <1>4, <1>5, <1>6
      <4> HIDE DEF A, B
      <4>2. QED BY <4>1 DEF QueuedOf, A, B
    <3>4. QED BY <3>1, <3>2, <3>3, <1>4
  <2> HIDE DEF P, Q
  <2>2. QED BY <2>1
<1> HIDE DEF A, B, P, Q
<1>8. Cardinality(A \cup {m + 1}) = Cardinality(A) + 1 /\ Cardinality(P \cup {m + 1}) = Cardinality(P) + 1
  BY <1>3, <1>4, <1>5, PlaceMore
<1>9. Cardinality(A) \in Nat /\ Cardinality(P) \in Nat
  BY <1>3, <1>5, PlacesCount
<1>10. /\ Shown(n, t) = Cardinality(B) /\ Shown(d, t) = Cardinality(A)
       /\ Queued(n, t) = Cardinality(Q) /\ Queued(d, t) = Cardinality(P)
  BY DEF Shown, Queued, A, B, P, Q
<1>11. QED BY <1>1, <1>6, <1>7, <1>8, <1>9, <1>10 DEF n

\* A queued bubble settles (model.ts, settleQueued).
LEMMA BubbleSettled ==
    ASSUME NEW d \in Kept, NEW text, NEW t
    PROVE  LET n == settleQueued(d, text)
           IN  /\ Shown(n, t) = Shown(d, t) /\ n.pendingWeb = d.pendingWeb
               /\ text # t => Queued(n, t) = Queued(d, t)
               /\ text = t => Queued(n, t) = 0 \/ Queued(n, t) + 1 = Queued(d, t)
<1> DEFINE queued == {i \in Positions(d, "user") : d.items[i].state = "queued" /\ d.items[i].text = text}
           k == Min(queued)
           x == [d.items[k] EXCEPT !.state = "sent"]
           n == settleQueued(d, text)
           P == QueuedOf(d, t)
           Q == QueuedOf(n, t)
<1>0. d \in Screen
  BY DEF Kept
<1>1. queued = QueuedOf(d, text)
  BY DEF QueuedOf, BubblesOf
<1>2. n = IF queued = {} THEN d ELSE [d EXCEPT !.items[k] = x]
  BY DEF settleQueued
<1> HIDE DEF n
<1>3. CASE queued = {}
  <2>1. n = d BY <1>2, <1>3
  <2>2. text = t => Queued(d, t) = 0
    <3>1. text = t => QueuedOf(d, t) = {} BY <1>1, <1>3
    <3>2. QED BY <3>1, FS_EmptySet DEF Queued
  <2>3. QED BY <2>1, <2>2 DEF n
<1>4. CASE queued # {}
  <2>1. k \in queued
    <3>1. queued \subseteq Nat BY <1>0, PositionsIn
    <3> HIDE DEF queued
    <3>2. QED BY <3>1, <1>4, MinIn
  <2>2. k \in Positions(d, "user") /\ d.items[k].text = text /\ d.items[k].state = "queued"
    BY <2>1
  <2> HIDE DEF k, queued
  <2>3. k \in DOMAIN d.items /\ d.items[k] \in UserItem
    <3> HIDE DEF Item
    <3>1. k \in DOMAIN d.items /\ d.items[k].kind = "user" /\ d.items[k] \in Item BY <1>0, <2>2, PositionsIn
    <3>2. QED BY <3>1, ItemByKind
  <2>4. x.kind = "user" /\ x.state = "sent" /\ x.text = text
    BY <2>2, <2>3 DEF UserItem
  <2> HIDE DEF x
  <2>5. n.items = [d.items EXCEPT ![k] = x] /\ n.pendingWeb = d.pendingWeb
    BY <1>0, <1>2, <1>4 DEF Screen
  <2>6. DOMAIN n.items = DOMAIN d.items /\ \A i \in DOMAIN d.items : n.items[i] = IF i = k THEN x ELSE d.items[i]
    BY <2>5
  <2>7. BubblesOf(n, t) = BubblesOf(d, t)
    <3>1. ASSUME NEW i PROVE i \in BubblesOf(n, t) <=> i \in BubblesOf(d, t)
      BY <2>2, <2>4, <2>6 DEF BubblesOf, Positions
    <3>2. QED BY <3>1
  <2>8. Q = P \ {k}
    <3>1. ASSUME NEW i PROVE i \in Q <=> i \in P /\ i # k
      <4>1. i \in BubblesOf(d, t) => i \in DOMAIN d.items BY DEF BubblesOf, Positions
      <4>2. QED BY <4>1, <2>4, <2>6, <2>7 DEF QueuedOf
    <3> HIDE DEF P, Q
    <3>2. QED BY <3>1
  <2>9. k \in P <=> text = t
    BY <2>2 DEF QueuedOf, BubblesOf
  <2>10. P \subseteq 1 .. Len(d.items) /\ Len(d.items) \in Nat
    BY <1>0, HeardType
  <2> HIDE DEF P, Q
  <2>11. text = t => Cardinality(Q) + 1 = Cardinality(P)
    <3>1. ASSUME text = t PROVE Cardinality(P \ {k}) + 1 = Cardinality(P)
      <4>1. k \in P BY <3>1, <2>9
      <4>2. QED BY <4>1, <2>10, PlaceLess
    <3>2. QED BY <3>1, <2>8
  <2>12. text # t => Q = P
    BY <2>8, <2>9
  <2>13. Shown(n, t) = Shown(d, t) /\ Queued(n, t) = Cardinality(Q) /\ Queued(d, t) = Cardinality(P)
    BY <2>7 DEF Shown, Queued, P, Q
  <2>14. QED BY <2>5, <2>11, <2>12, <2>13 DEF n
<1>5. QED BY <1>3, <1>4

\* A text of the user is heard once: as the echo of what was sent from here, or
\* as a bubble more (model.ts, user).
LEMMA HeardText ==
    ASSUME NEW d \in Kept, NEW text \in Texts, NEW isHistory \in BOOLEAN, NEW t,
           isHistory => Pending(d, t) = 0
    PROVE  Heard(d, UserText(d, text, isHistory), t, IF text = t THEN 1 ELSE 0)
<1> DEFINE once == IF text = t THEN 1 ELSE 0
<1>0. d \in Screen /\ d.pendingWeb \in Seq(Texts)
  BY ScreenFields DEF Kept
<1>1. Shown(d, t) \in Nat /\ Queued(d, t) \in Nat /\ Pending(d, t) \in Nat /\ once \in Nat
  BY <1>0, HeardType
<1>2. CASE EchoOfOwn(d, text, isHistory)
  <2> DEFINE p == RemoveFirst(d.pendingWeb, text)
             m == [d EXCEPT !.pendingWeb = p]
             n == settleQueued(m, text)
  <2>1. ~isHistory /\ Contains(d.pendingWeb, text)
    BY <1>2 DEF EchoOfOwn
  <2>2. p \in Seq(Texts) /\ Times(d.pendingWeb, t) = Times(p, t) + once /\ Times(p, t) \in Nat
    BY <1>0, <2>1, RemovedOne, TimesRemoved, TimesType
  <2>3. UserText(d, text, isHistory) = n BY <1>2 DEF UserText
  <2> HIDE DEF p
  <2>4. m \in Kept BY <2>2, PendingKept DEF Goes
  <2>5. m.items = d.items /\ m.pendingWeb = p BY <1>0 DEF Screen
  <2> HIDE DEF m
  <2>6. Shown(m, t) = Shown(d, t) /\ Queued(m, t) = Queued(d, t)
    BY <2>5 DEF Shown, Queued, BubblesOf, QueuedOf, Positions
  <2>7. /\ Shown(n, t) = Shown(m, t) /\ n.pendingWeb = m.pendingWeb
        /\ text # t => Queued(n, t) = Queued(m, t)
        /\ text = t => Queued(n, t) = 0 \/ Queued(n, t) + 1 = Queued(m, t)
    BY <2>4, BubbleSettled
  <2> HIDE DEF n
  <2>8. Pending(d, t) = Pending(n, t) + once /\ Pending(n, t) \in Nat
    BY <2>2, <2>5, <2>7 DEF Pending
  <2>9. Queued(d, t) <= Pending(d, t) => Queued(n, t) <= Pending(n, t)
    <3>0. Queued(n, t) \in Nat
      <4>1. n \in Screen BY <2>3, UserTextKept DEF Goes, Kept
      <4>2. QED BY <4>1, HeardType
    <3>1. CASE text = t BY <3>0, <3>1, <2>6, <2>7, <2>8, <1>1
    <3>2. CASE text # t BY <3>2, <2>6, <2>7, <2>8, <1>1
    <3>3. QED BY <3>1, <3>2
  <2> HIDE DEF once
  <2>10. Heard(d, n, t, once)
    BY <2>6, <2>7, <2>8, <2>9, <1>1 DEF Heard
  <2>11. QED BY <2>3, <2>10 DEF once
<1>3. CASE ~EchoOfOwn(d, text, isHistory)
  <2> DEFINE n == push(d, Bubble(text, "sent"))
             r == UserText(d, text, isHistory)
  <2>1. n \in Kept BY BubblePushed DEF Goes
  <2>2. r = IF isHistory THEN n ELSE [n EXCEPT !.live.busy = TRUE, !.live.thinking = FALSE]
    BY <1>3 DEF UserText
  <2>3. Shown(n, t) = Shown(d, t) + once /\ Queued(n, t) = Queued(d, t) /\ n.pendingWeb = d.pendingWeb
    BY <1>0, <1>1, BubbleMore
  <2> HIDE DEF n, r
  <2>4. n \in Screen BY <2>1 DEF Kept
  <2>5. SameBubbles(n, r) BY <2>2, <2>4, SameFlags, SameItems
  <2>6. r \in Screen BY UserTextKept DEF Goes, Kept, r
  <2>7. Pending(n, t) = Pending(d, t) BY <2>3 DEF Pending
  <2>8. text = t => Pending(d, t) = 0
    <3>1. isHistory \/ ~Contains(d.pendingWeb, text) BY <1>3 DEF EchoOfOwn
    <3>2. ~Contains(d.pendingWeb, text) => Times(d.pendingWeb, text) = 0 BY <1>0, TimesNone
    <3>3. QED BY <3>1, <3>2 DEF Pending
  <2>9. once = 0 \/ Pending(d, t) = 0 BY <2>8
  <2> HIDE DEF once
  <2>10. Heard(d, n, t, once)
    BY <2>3, <2>7, <2>9, <1>1 DEF Heard
  <2>11. Heard(n, r, t, 0) BY <2>4, <2>5, HeardNot
  <2>12. once + 0 = once BY <1>1
  <2>13. Heard(d, r, t, once) BY <1>0, <1>1, <2>4, <2>6, <2>10, <2>11, <2>12, HeardThen
  <2>14. QED BY <2>13 DEF r, once
<1>4. QED BY <1>2, <1>3

\* Texts, one after the other, and then results: each text is heard as often as
\* it stands in the message.
LEMMA HeardTexts ==
    ASSUME NEW d \in Kept, NEW texts \in Seq(Texts), NEW isHistory \in BOOLEAN, NEW t,
           isHistory => Pending(d, t) = 0, NEW a, Results(a, Kept, texts, d, TextStep(isHistory))
    PROVE  Heard(d, a[Len(texts)], t, Times(texts, t))
<1> DEFINE n == Len(texts)
           First(i) == SubSeq(texts, 1, i)
           Good == {i \in 0 .. n : Heard(d, a[i], t, Times(First(i), t))}
<1>0. d \in Screen /\ Pending(d, t) \in Nat
  BY HeardType DEF Kept
<1>1. n \in Nat /\ a \in [0 .. n -> Kept] /\ a[0] = d
  BY DEF Results
<1>2. \A i \in 1 .. n : a[i] = TextStep(isHistory)[<<a[i - 1], texts[i]>>]
  BY DEF Results
<1>3. First(0) = <<>> /\ First(n) = texts
  OBVIOUS
<1>4. ASSUME NEW i \in 1 .. n
      PROVE  /\ i - 1 \in 0 .. n /\ i \in 0 .. n /\ texts[i] \in Texts
             /\ First(i - 1) \in Seq(Texts) /\ First(i) = Append(First(i - 1), texts[i])
  <2>1. i - 1 \in 0 .. n /\ i \in 0 .. n /\ texts[i] \in Texts BY <1>1
  <2>2. First(i - 1) \in Seq(Texts) /\ Len(First(i - 1)) = i - 1 /\ First(i) \in Seq(Texts) /\ Len(First(i)) = i
    BY <1>1
  <2>3. Append(First(i - 1), texts[i]) \in Seq(Texts) /\ Len(Append(First(i - 1), texts[i])) = i
    BY <2>1, <2>2
  <2>4. ASSUME NEW j \in 1 .. i PROVE First(i)[j] = Append(First(i - 1), texts[i])[j]
    BY <1>1, <2>2
  <2> HIDE DEF First
  <2>5. QED BY <2>1, <2>2, <2>3, <2>4
<1> HIDE DEF First, n
<1>5. 0 \in Good
  <2>1. SameBubbles(d, a[0]) BY <1>1, SameItems
  <2>2. Heard(d, a[0], t, Times(First(0), t)) BY <1>0, <1>3, <2>1, HeardNot, NoTimes
  <2>3. QED BY <2>2, <1>1
<1>6. ASSUME NEW i \in 1 .. n, i - 1 \in Good PROVE i \in Good
  <2> DEFINE once == IF texts[i] = t THEN 1 ELSE 0
             k == Times(First(i - 1), t)
  <2>1. /\ a[i - 1] \in Kept /\ a[i] \in Kept /\ a[i] = TextStep(isHistory)[<<a[i - 1], texts[i]>>]
        /\ texts[i] \in Texts /\ i \in 0 .. n
    BY <1>1, <1>2, <1>4
  <2>2. a[i] = UserText(a[i - 1], texts[i], isHistory)
    BY <2>1 DEF TextStep
  <2>3. Heard(d, a[i - 1], t, k)
    BY <1>6
  <2>4. k \in Nat /\ once \in Nat /\ Times(First(i), t) = k + once
    <3>1. First(i - 1) \in Seq(Texts) /\ First(i) = Append(First(i - 1), texts[i]) BY <1>4
    <3>2. Times(Append(First(i - 1), texts[i]), t) = k + once BY <3>1, TimesAppend
    <3>3. QED BY <3>1, <3>2, TimesType
  <2>5. a[i - 1] \in Screen /\ a[i] \in Screen /\ Pending(a[i - 1], t) \in Nat
    BY <2>1, HeardType DEF Kept
  <2> HIDE DEF k
  <2>6. isHistory => Pending(a[i - 1], t) = 0
    BY <1>0, <2>3, <2>4, <2>5 DEF Heard
  <2>7. Heard(a[i - 1], a[i], t, once)
    BY <2>1, <2>2, <2>6, HeardText
  <2> HIDE DEF once
  <2>8. Heard(d, a[i], t, k + once)
    BY <1>0, <2>3, <2>4, <2>5, <2>7, HeardThen
  <2>9. QED BY <2>1, <2>4, <2>8
<1> HIDE DEF Good
<1>7. 0 .. n \subseteq Good
  BY <1>1, <1>5, <1>6, UpTo
<1>8. n \in Good
  BY <1>1, <1>7
<1>9. QED BY <1>3, <1>8 DEF Good, n

\* A user event echoes each of its texts (model.ts, user).
LEMMA HeardUser ==
    ASSUME NEW d \in Kept, NEW e, e.texts \in Seq(Texts), e.results \in Seq(CallResult), NEW isHistory \in BOOLEAN,
           NEW t, isHistory => Pending(d, t) = 0
    PROVE  Heard(d, user(d, e, isHistory), t, Times(e.texts, t))
<1> DEFINE m == FoldLeft(LAMBDA s, r : UserText(s, r, isHistory), d, e.texts)
           n == FoldLeft(LAMBDA s, r : ToolResult(s, r.id, r.failed), m, e.results)
           k == Times(e.texts, t)
<1>1. PICK a : Results(a, Kept, e.texts, d, TextStep(isHistory)) /\ m = a[Len(e.texts)]
  BY TextSteps
<1>2. user(d, e, isHistory) = n
  BY DEF user
<1> HIDE DEF m
<1>3. m \in Kept /\ Heard(d, m, t, k)
  <2>1. a[Len(e.texts)] \in Kept BY <1>1 DEF Results
  <2>2. Heard(d, a[Len(e.texts)], t, k) BY <1>1, HeardTexts
  <2>3. QED BY <1>1, <2>1, <2>2
<1>4. PICK c : Results(c, Kept, e.results, m, ResultStep) /\ n = c[Len(e.results)]
  BY <1>3, ResultSteps
<1> HIDE DEF n
<1>5. \A v \in Kept, r \in CallResult : SameBubbles(v, ResultStep[<<v, r>>])
  <2>1. ASSUME NEW v \in Kept, NEW r \in CallResult PROVE SameBubbles(v, ResultStep[<<v, r>>])
    <3>1. r.id \in Calls /\ r.failed \in BOOLEAN BY DEF CallResult
    <3>2. SameBubbles(v, ToolResult(v, r.id, r.failed)) BY <3>1, SameResult
    <3>3. ResultStep[<<v, r>>] = ToolResult(v, r.id, r.failed) BY DEF ResultStep
    <3>4. QED BY <3>2, <3>3
  <2>2. QED BY <2>1
<1>6. SameBubbles(m, n) /\ n \in Kept
  <2>1. SameBubbles(m, c[Len(e.results)]) BY <1>3, <1>4, <1>5, SameSteps
  <2>2. c[Len(e.results)] \in Kept BY <1>4 DEF Results
  <2>3. QED BY <1>4, <2>1, <2>2
<1>7. k \in Nat /\ k + 0 = k
  BY TimesType
<1> HIDE DEF k
<1>8. d \in Screen /\ m \in Screen /\ n \in Screen
  BY <1>3, <1>6 DEF Kept
<1>9. Heard(m, n, t, 0)
  BY <1>6, <1>8, HeardNot
<1>10. Heard(d, n, t, k)
  BY <1>3, <1>7, <1>8, <1>9, HeardThen
<1>11. QED BY <1>2, <1>10 DEF k

\* Of every event a text is heard as often as the event echoes it.
LEMMA HeardEvent ==
    ASSUME NEW d \in Kept, NEW e, IsEvent(e), NEW isHistory \in BOOLEAN, NEW t, isHistory => Pending(d, t) = 0
    PROVE  Heard(d, reduce(d, e, isHistory), t, EchoesIn(e, t))
<1> DEFINE n == reduce(d, e, isHistory)
<1>0. d \in Screen
  BY DEF Kept
<1>1. CASE e.type = "user"
  <2>1. n = user(d, e, isHistory) BY <1>1 DEF reduce
  <2>2. Heard(d, user(d, e, isHistory), t, Times(e.texts, t)) BY <1>1, HeardUser DEF IsEvent
  <2>3. EchoesIn(e, t) = Times(e.texts, t) BY <1>1 DEF EchoesIn
  <2>4. QED BY <2>1, <2>2, <2>3
<1>2. CASE e.type # "user"
  <2>1. SameBubbles(d, n)
    <3>1. CASE e.type = "system"
      <4>1. n = system(d, e) BY <3>1 DEF reduce
      <4>2. QED BY <3>1, <4>1, SameSystem DEF IsEvent
    <3>2. CASE e.type = "assistant"
      <4>1. n = assistant(d, e, isHistory) BY <3>2 DEF reduce
      <4>2. QED BY <3>2, <4>1, SameMessage DEF IsEvent
    <3>3. CASE e.type = "result"
      <4>1. n = result(d, e.failed) BY <3>3 DEF reduce
      <4>2. QED BY <3>3, <4>1, SameEnds DEF IsEvent
    <3>4. CASE e.type = "control_request"
      <4>1. n = controlRequest(d, e) BY <3>4 DEF reduce
      <4>2. QED BY <3>4, <4>1, SameRequest DEF IsEvent
    <3>5. CASE e.type = "control_cancel_request"
      <4>1. n = controlCancel(d, e.request) BY <3>5 DEF reduce
      <4>2. QED BY <4>1, SameCancelled
    <3>6. CASE e.type = "stream_event"
      <4>1. n = streamEvent(d, e, isHistory) BY <3>6 DEF reduce
      <4>2. QED BY <3>6, <4>1, SameStream
    <3>7. CASE e.type = "reset"
      <4>1. n = conversationReset(d) BY <3>7 DEF reduce
      <4>2. QED BY <4>1, SameEnds
    <3>8. CASE e.type = "rate_limit"
      <4>1. n = IF e.allowed THEN d ELSE push(d, Note("line")) BY <3>8 DEF reduce
      <4>2. QED BY <4>1, SameNote, SameItems
    <3>9. CASE e.type = "unknown"
      <4>1. n = markUnknown(d, e.shape) BY <3>9 DEF reduce
      <4>2. QED BY <3>9, <4>1, SameUnknown DEF IsEvent
    <3>10. CASE e.type = "ignored"
      <4>1. n = d BY <3>10 DEF reduce
      <4>2. QED BY <4>1, SameItems
    <3>11. QED BY <1>2, <3>1, <3>2, <3>3, <3>4, <3>5, <3>6, <3>7, <3>8, <3>9, <3>10 DEF IsEvent
  <2> HIDE DEF n
  <2>2. Heard(d, n, t, 0) BY <1>0, <2>1, HeardNot
  <2>3. EchoesIn(e, t) = 0 BY <1>2 DEF EchoesIn
  <2>4. QED BY <2>2, <2>3 DEF n
<1>3. QED BY <1>1, <1>2

-----------------------------------------------------------------------------
(* How often events echo a text.                                           *)

EchoStep(E, text) == [x \in Nat \X E |-> x[1] + EchoesIn(x[2], text)]

\* One event does so a number of times.
LEMMA EchoesType == ASSUME NEW e, IsEvent(e), NEW t PROVE EchoesIn(e, t) \in Nat
BY TimesType DEF EchoesIn, IsEvent

\* The echoes of events, counted one event after the other.
LEMMA EchoesSteps ==
    ASSUME NEW E, NEW events \in Seq(E), \A e \in E : IsEvent(e), NEW t
    PROVE  \E a : Results(a, Nat, events, 0, EchoStep(E, t)) /\ Echoes(events, t) = a[Len(events)]
<1> DEFINE T == Nat
           g == EchoStep(E, t)
           IsIter(f) == f = [S \in SUBSET DOMAIN events |->
                               IF S = {} THEN 0 ELSE f[S \ {Max(S)}] + EchoesIn(events[Max(S)], t)]
           iter == CHOOSE f : IsIter(f)
<1>0. events \in Seq(E) /\ StepOn(g, T, E) /\ \A v \in T, k \in E : g[<<v, k>>] = v + EchoesIn(k, t)
  <2>1. ASSUME NEW v \in T, NEW k \in E PROVE v + EchoesIn(k, t) \in T
    <3>1. v \in Nat /\ EchoesIn(k, t) \in Nat BY EchoesType
    <3>2. QED BY <3>1
  <2> HIDE DEF T
  <2>2. \A x \in T \X E : x[1] \in T /\ x[2] \in E OBVIOUS
  <2>3. QED BY <2>1, <2>2 DEF StepOn, EchoStep, T
<1>1. Echoes(events, t) = iter[DOMAIN events]
  BY DEF Echoes, FoldLeft, MapThenFoldSet
<1>2. 0 \in T
  OBVIOUS
<1> HIDE DEF T, g
<1>3. \E f : IsIter(f)
  <2>1. PICK f : Unfolds(f, T, E, events, 0, g) /\ Typed(f, T, E, events)
    BY <1>0, <1>2, FoldExists
  <2>2. ASSUME NEW S \in SUBSET DOMAIN events
        PROVE  f[S] = IF S = {} THEN 0 ELSE f[S \ {Max(S)}] + EchoesIn(events[Max(S)], t)
    BY <2>1, <1>0 DEF Unfolds, Typed
  <2>3. IsIter(f)
    BY <2>1, <2>2 DEF Typed
  <2>4. QED BY <2>3
<1>4. IsIter(iter)
  <2> HIDE DEF IsIter
  <2>1. QED BY <1>3
<1>5. iter[{}] = 0
  BY <1>4
<1>6. ASSUME NEW S \in SUBSET DOMAIN events, S # {}, iter[S \ {Max(S)}] \in T, events[Max(S)] \in E
      PROVE  iter[S] = g[<<iter[S \ {Max(S)}], events[Max(S)]>>]
  <2>1. iter[S] = iter[S \ {Max(S)}] + EchoesIn(events[Max(S)], t)
    <3> HIDE DEF iter
    <3>1. QED BY <1>4, <1>6
  <2>2. QED BY <2>1, <1>6, <1>0
<1> HIDE DEF iter, IsIter
<1>7. Unfolds(iter, T, E, events, 0, g)
  BY <1>5, <1>6 DEF Unfolds
<1>8. PICK a : Results(a, T, events, 0, g) /\ iter[DOMAIN events] = a[Len(events)]
  BY <1>0, <1>2, <1>7, FoldSteps
<1>9. QED BY <1>1, <1>8 DEF T, g

\* No events, no echoes.
LEMMA NoEchoes == ASSUME NEW t PROVE Echoes(<<>>, t) = 0
<1>1. <<>> \in Seq({}) /\ Len(<<>>) = 0
  OBVIOUS
<1>2. \A e \in {} : IsEvent(e)
  OBVIOUS
<1>3. PICK a : Results(a, Nat, <<>>, 0, EchoStep({}, t)) /\ Echoes(<<>>, t) = a[Len(<<>>)]
  BY <1>1, <1>2, EchoesSteps
<1>4. QED BY <1>1, <1>3 DEF Results

\* An event more.
LEMMA EchoesAppend ==
    ASSUME NEW s, Events(s), NEW e, IsEvent(e), NEW t
    PROVE  Echoes(Append(s, e), t) = Echoes(s, t) + EchoesIn(e, t) /\ Echoes(s, t) \in Nat
<1>1. PICK D : s \in Seq(D) /\ \A x \in D : IsEvent(x)
  BY DEF Events
<1> DEFINE E == D \cup {e}
           r == Append(s, e)
           n == Len(s)
           g == EchoStep(E, t)
<1>2. s \in Seq(E) /\ e \in E /\ (\A x \in E : IsEvent(x)) /\ n \in Nat
  BY <1>1
<1> HIDE DEF E
<1>3. r \in Seq(E) /\ Len(r) = n + 1 /\ r[n + 1] = e /\ \A i \in 1 .. n : r[i] = s[i]
  BY <1>2
<1> HIDE DEF r, n
<1>4. PICK a : Results(a, Nat, r, 0, g) /\ Echoes(r, t) = a[Len(r)]
  BY <1>2, <1>3, EchoesSteps
<1>5. PICK c : Results(c, Nat, s, 0, g) /\ Echoes(s, t) = c[Len(s)]
  BY <1>2, EchoesSteps
<1> DEFINE b == [i \in 0 .. n |-> a[i]]
<1>6. a \in [0 .. n + 1 -> Nat] /\ a[0] = 0 /\ \A i \in 1 .. n + 1 : a[i] = g[<<a[i - 1], r[i]>>]
  BY <1>3, <1>4 DEF Results
<1>7. Results(b, Nat, s, 0, g)
  <2>1. b \in [0 .. n -> Nat] /\ b[0] = 0 BY <1>2, <1>6
  <2>2. ASSUME NEW i \in 1 .. n PROVE b[i] = g[<<b[i - 1], s[i]>>]
    <3>1. i \in 1 .. n + 1 /\ i \in 0 .. n /\ i - 1 \in 0 .. n BY <1>2
    <3>2. a[i] = g[<<a[i - 1], r[i]>>] /\ r[i] = s[i] BY <3>1, <1>3, <1>6
    <3>3. QED BY <3>1, <3>2
  <2> HIDE DEF b
  <2>3. QED BY <2>1, <2>2 DEF Results, n
<1>8. b[n] = a[n] /\ n + 1 \in 1 .. n + 1 /\ n \in 0 .. n + 1 /\ (n + 1) - 1 = n
  BY <1>2
<1> HIDE DEF b
<1>9. b[n] = c[n]
  BY <1>2, <1>5, <1>7, ResultsUnique DEF n
<1>10. a[n + 1] = g[<<a[n], e>>] /\ a[n] \in Nat
  BY <1>3, <1>6, <1>8
<1>11. g[<<a[n], e>>] = a[n] + EchoesIn(e, t)
  BY <1>2, <1>10 DEF EchoStep
<1> HIDE DEF g
<1>12. QED BY <1>3, <1>4, <1>5, <1>8, <1>9, <1>10, <1>11 DEF r, n

\* The first event is taken.
LEMMA EchoesTail ==
    ASSUME NEW s, Events(s), s # <<>>, NEW t
    PROVE  Echoes(s, t) = EchoesIn(Head(s), t) + Echoes(Tail(s), t) /\ Echoes(Tail(s), t) \in Nat
<1>1. PICK E : s \in Seq(E) /\ \A x \in E : IsEvent(x)
  BY DEF Events
<1> DEFINE r == Tail(s)
           n == Len(r)
           h == EchoesIn(Head(s), t)
           g == EchoStep(E, t)
<1>2. /\ r \in Seq(E) /\ n \in Nat /\ Len(s) = n + 1 /\ s[1] \in E /\ Head(s) = s[1]
      /\ \A i \in 1 .. n : r[i] = s[i + 1] /\ r[i] \in E
  BY <1>1
<1> HIDE DEF r, n
<1>3. h \in Nat
  BY <1>1, <1>2, EchoesType
<1>4. PICK a : Results(a, Nat, s, 0, g) /\ Echoes(s, t) = a[Len(s)]
  BY <1>1, EchoesSteps
<1>5. PICK c : Results(c, Nat, r, 0, g) /\ Echoes(r, t) = c[Len(r)]
  BY <1>1, <1>2, EchoesSteps
<1>6. /\ a \in [0 .. n + 1 -> Nat] /\ a[0] = 0 /\ \A i \in 1 .. n + 1 : a[i] = g[<<a[i - 1], s[i]>>]
      /\ c \in [0 .. n -> Nat] /\ c[0] = 0 /\ \A i \in 1 .. n : c[i] = g[<<c[i - 1], r[i]>>]
  BY <1>2, <1>4, <1>5 DEF Results, n
<1>7. \A v \in Nat, k \in E : g[<<v, k>>] = v + EchoesIn(k, t)
  BY DEF EchoStep
<1> HIDE DEF g
<1> DEFINE Good == {i \in 0 .. n : a[i + 1] = h + c[i]}
<1>8. 0 \in Good
  <2>1. 1 \in 1 .. n + 1 /\ 1 - 1 = 0 /\ 0 \in 0 .. n /\ 0 + 1 = 1 BY <1>2
  <2>2. a[1] = g[<<a[1 - 1], s[1]>>] BY <2>1, <1>6
  <2>3. a[1] = g[<<0, s[1]>>] BY <2>1, <2>2, <1>6
  <2>4. g[<<0, s[1]>>] = 0 + EchoesIn(s[1], t) BY <1>2, <1>7
  <2>5. h = EchoesIn(s[1], t) BY <1>2
  <2> HIDE DEF h
  <2>6. a[0 + 1] = h + c[0] BY <2>1, <2>3, <2>4, <2>5, <1>3, <1>6
  <2>7. QED BY <2>1, <2>6
<1> HIDE DEF h
<1>9. ASSUME NEW i \in 1 .. n, i - 1 \in Good PROVE i \in Good
  <2>1. i - 1 \in 0 .. n /\ i \in 0 .. n /\ i + 1 \in 1 .. n + 1 /\ (i + 1) - 1 = i /\ (i - 1) + 1 = i /\ i \in 0 .. n + 1
    BY <1>2
  <2>2. a[i + 1] = g[<<a[i], s[i + 1]>>] BY <2>1, <1>6
  <2>3. c[i] = g[<<c[i - 1], r[i]>>] BY <1>6
  <2>4. r[i] = s[i + 1] /\ r[i] \in E BY <1>2
  <2>5. a[i] \in Nat /\ c[i - 1] \in Nat BY <2>1, <1>6
  <2>6. a[i + 1] = a[i] + EchoesIn(r[i], t) /\ c[i] = c[i - 1] + EchoesIn(r[i], t)
    BY <2>2, <2>3, <2>4, <2>5, <1>7
  <2>7. a[i] = h + c[i - 1] BY <2>1, <1>9
  <2>8. EchoesIn(r[i], t) \in Nat BY <2>4, <1>1, EchoesType
  <2>9. a[i + 1] = h + c[i] BY <2>5, <2>6, <2>7, <2>8, <1>3
  <2>10. QED BY <2>1, <2>9
<1> HIDE DEF Good
<1>10. n \in Good
  <2>1. 0 .. n \subseteq Good BY <1>2, <1>8, <1>9, UpTo
  <2>2. QED BY <2>1, <1>2
<1>11. c[n] \in Nat
  BY <1>2, <1>6
<1>12. QED BY <1>2, <1>4, <1>5, <1>10, <1>11 DEF Good, h, r, n

\* A replay shows a bubble for each echo, and nothing is waited for (session.ts, backfill).
LEMMA HeardReplay ==
    ASSUME NEW events, Events(events), NEW active \in BOOLEAN, NEW t
    PROVE  LET n == Replayed(events, active)
           IN  Shown(n, t) = Echoes(events, t) /\ Pending(n, t) = 0 /\ Queued(n, t) = 0
<1> DEFINE m == FoldLeft(LAMBDA d, e : reduce(d, e, TRUE), initialState, events)
           b == active /\ turnActiveIn(events)
           n == Replayed(events, active)
           N == Len(events)
           d == initialState
<1>1. PICK E : events \in Seq(E) /\ \A e \in E : IsEvent(e)
  BY DEF Events
<1>2. PICK a : Results(a, Kept, events, initialState, ReplayStep(E)) /\ m = a[Len(events)]
  BY <1>1, ReplaySteps
<1>3. PICK c : Results(c, Nat, events, 0, EchoStep(E, t)) /\ Echoes(events, t) = c[Len(events)]
  BY <1>1, EchoesSteps
<1>4. n = [m EXCEPT !.live.busy = b]
  BY DEF Replayed
<1> HIDE DEF m, b, n
<1>5. d \in Screen /\ Shown(d, t) = 0 /\ Pending(d, t) = 0 /\ Queued(d, t) = 0
  <2>1. d \in Screen BY InitiallyKept DEF Kept
  <2>2. d.items = <<>> /\ d.pendingWeb = <<>> BY DEF initialState
  <2> HIDE DEF d
  <2>3. Positions(d, "user") = {} BY <2>2 DEF Positions
  <2>4. BubblesOf(d, t) = {} /\ QueuedOf(d, t) = {} BY <2>3 DEF BubblesOf, QueuedOf
  <2>5. QED BY <2>1, <2>2, <2>4, FS_EmptySet, NoTimes DEF Shown, Pending, Queued
<1>6. /\ N \in Nat /\ a \in [0 .. N -> Kept] /\ a[0] = d /\ c \in [0 .. N -> Nat] /\ c[0] = 0
      /\ \A i \in 1 .. N : events[i] \in E
  BY <1>1, <1>2, <1>3 DEF Results
<1>7. \A i \in 1 .. N : a[i] = ReplayStep(E)[<<a[i - 1], events[i]>>] /\ c[i] = EchoStep(E, t)[<<c[i - 1], events[i]>>]
  BY <1>2, <1>3 DEF Results
<1> HIDE DEF d, N
<1> DEFINE Good == {i \in 0 .. N : Heard(d, a[i], t, c[i])}
<1>8. 0 \in Good
  <2>1. Heard(d, d, t, 0) BY <1>5, SameItems, HeardNot
  <2>2. QED BY <2>1, <1>6
<1>9. ASSUME NEW i \in 1 .. N, i - 1 \in Good PROVE i \in Good
  <2>1. i \in 0 .. N /\ i - 1 \in 0 .. N /\ events[i] \in E BY <1>6
  <2>2. a[i - 1] \in Kept /\ a[i] \in Kept /\ c[i - 1] \in Nat BY <2>1, <1>6
  <2>3. a[i] = reduce(a[i - 1], events[i], TRUE) BY <2>1, <2>2, <1>7 DEF ReplayStep
  <2>4. c[i] = c[i - 1] + EchoesIn(events[i], t) BY <2>1, <2>2, <1>7 DEF EchoStep
  <2>5. IsEvent(events[i]) /\ EchoesIn(events[i], t) \in Nat BY <2>1, <1>1, EchoesType
  <2>6. Heard(d, a[i - 1], t, c[i - 1]) BY <1>9
  <2>7. a[i - 1] \in Screen /\ a[i] \in Screen /\ Pending(a[i - 1], t) \in Nat BY <2>2, HeardType DEF Kept
  <2>8. Pending(a[i - 1], t) = 0 BY <1>5, <2>2, <2>6, <2>7 DEF Heard
  <2>9. Heard(a[i - 1], a[i], t, EchoesIn(events[i], t)) BY <2>2, <2>3, <2>5, <2>8, HeardEvent
  <2>10. Heard(d, a[i], t, c[i]) BY <1>5, <2>2, <2>4, <2>5, <2>6, <2>7, <2>9, HeardThen
  <2>11. QED BY <2>1, <2>10
<1> HIDE DEF Good
<1>10. N \in Good
  <2>1. 0 .. N \subseteq Good BY <1>6, <1>8, <1>9, UpTo
  <2>2. QED BY <2>1, <1>6
<1>11. Heard(d, m, t, Echoes(events, t))
  BY <1>2, <1>3, <1>10 DEF Good, N
<1>12. m \in Screen /\ Echoes(events, t) \in Nat
  <2>1. N \in 0 .. N BY <1>6
  <2>2. m \in Kept /\ Echoes(events, t) \in Nat BY <2>1, <1>2, <1>3, <1>6 DEF N
  <2>3. QED BY <2>2 DEF Kept
<1>13. SameBubbles(m, n)
  BY <1>4, <1>12, SameFlags
<1>14. Shown(n, t) = Shown(m, t) /\ Queued(n, t) = Queued(m, t) /\ Pending(n, t) = Pending(m, t)
  <2>1. BubblesOf(n, t) = BubblesOf(m, t) BY <1>13 DEF SameBubbles, BubblesOf
  <2>2. QueuedOf(n, t) = QueuedOf(m, t) BY <1>13, <2>1 DEF SameBubbles, BubblesOf, QueuedOf
  <2>3. QED BY <1>13, <2>1, <2>2 DEF Shown, Queued, Pending, SameBubbles
<1>15. Shown(m, t) \in Nat /\ Queued(m, t) \in Nat /\ Pending(m, t) \in Nat
  BY <1>12, HeardType
<1>16. Shown(m, t) = Echoes(events, t) /\ Pending(m, t) = 0 /\ Queued(m, t) = 0
  BY <1>5, <1>11, <1>12, <1>15 DEF Heard
<1>17. QED BY <1>14, <1>16 DEF n

-----------------------------------------------------------------------------
(* Bubbles and echoes stay in step.  Shown, and to come on the wire, is    *)
(* what was stored and what waits for its echo; and what waits, if no send *)
(* was lost, is on the wire or with the worker.                            *)

Balanced(text) ==
    /\ Shown(screen, text) + Echoes(wire, text) = Echoes(log, text) + Pending(screen, text)
    /\ ~Has("lossy") => Pending(screen, text) <= Echoes(wire, text) + Times(inbox, text)
    /\ Queued(screen, text) <= Pending(screen, text)
BubInv == ChatInv /\ \A t \in Texts : Balanced(t)

One(x, text) == IF x = text THEN 1 ELSE 0

\* A text more counts once.
LEMMA TextMore ==
    ASSUME NEW s \in Seq(Texts), NEW x, NEW t
    PROVE  Times(Append(s, x), t) = Times(s, t) + One(x, t) /\ One(x, t) \in {0, 1}
<1>1. Times(Append(s, x), t) = Times(s, t) + (IF x = t THEN 1 ELSE 0)
  BY TimesAppend
<1>2. QED BY <1>1 DEF One

\* They are numbers.
LEMMA BalanceTypes ==
    ASSUME ChatInv, NEW t
    PROVE  /\ Shown(screen, t) \in Nat /\ Pending(screen, t) \in Nat /\ Queued(screen, t) \in Nat
           /\ Times(inbox, t) \in Nat /\ Echoes(wire, t) \in Nat /\ Echoes(log, t) \in Nat
           /\ screen \in Kept /\ screen \in Screen /\ Events(wire) /\ Events(log) /\ inbox \in Seq(Texts)
<1>1. screen \in Kept /\ screen \in Screen /\ Events(wire) /\ Events(log) /\ inbox \in Seq(Texts)
  BY DEF ChatInv, ScreenOK, Kept, Announcements, WorkerOK
<1>2. Shown(screen, t) \in Nat /\ Pending(screen, t) \in Nat /\ Queued(screen, t) \in Nat
  BY <1>1, HeardType
<1>3. Times(inbox, t) \in Nat
  BY <1>1, TimesType
<1>4. Echoes(wire, t) \in Nat /\ Echoes(log, t) \in Nat
  <2> DEFINE e == [type |-> "reset"]
  <2>1. IsEvent(e)
    <3>1. e.type = "reset" OBVIOUS
    <3> HIDE DEF e
    <3>2. QED BY <3>1 DEF IsEvent
  <2> HIDE DEF e
  <2>2. QED BY <1>1, <2>1, EchoesAppend
<1>5. QED BY <1>1, <1>2, <1>3, <1>4

\* The worker emits in every step, and takes what the event it emits echoes.
LEMMA WorkerEmits ==
    ASSUME WorkerStep
    PROVE  \E e : /\ Emit(e)
                  /\ \/ inbox' = inbox
                     \/ inbox # <<>> /\ e = User(<<Head(inbox)>>, <<>>) /\ inbox' = Tail(inbox)
<1> DEFINE Stays(e) == Emit(e) /\ inbox' = inbox
<1>1. ASSUME NEW t \in Texts, Type(t) PROVE \E e : Stays(e)
  BY <1>1 DEF Type
<1>2. CASE LocalCommand \/ MessageStop \/ Message \/ Trailing
  <2>1. \E e : Stays(e)
    BY <1>2 DEF LocalCommand, MessageStop, Message, Trailing
  <2>2. QED BY <2>1
<1>3. CASE Take
  BY <1>3 DEF Take
<1>4. CASE EndTurn \/ Notice \/ ShutDown
  <2>1. \E e : Stays(e)
    BY <1>4 DEF EndTurn, Notice, ShutDown
  <2>2. QED BY <2>1
<1>5. ASSUME NEW b \in Stream, Delta(b) PROVE \E e : Stays(e)
  BY <1>5 DEF Delta
<1>6. ASSUME NEW c \in Calls, NEW tool \in {"plain", "hidden", "question", "create", "update"}, Call(c, tool)
      PROVE  \E e : Stays(e)
  BY <1>6 DEF Call
<1>7. ASSUME NEW c \in Calls, Ask(c) \/ AskAgain(c) \/ AnsweredInTerminal(c) PROVE \E e : Stays(e)
  BY <1>7 DEF Ask, AskAgain, AnsweredInTerminal
<1>8. ASSUME NEW c \in Calls, NEW failed \in BOOLEAN, Finish(c, failed) PROVE \E e : Stays(e)
  BY <1>8 DEF Finish
<1>9. ASSUME NEW t \in {"t1", "t2"}, StartTask(t) \/ ReportTask(t) PROVE \E e : Stays(e)
  BY <1>9 DEF StartTask, ReportTask
<1>10. QED
  BY <1>1, <1>2, <1>3, <1>4, <1>5, <1>6, <1>7, <1>8, <1>9 DEF WorkerStep

\* What is emitted is on the wire, and stored unless it echoes nothing.
LEMMA EmittedEchoes ==
    ASSUME ChatInv, ChatInv', NEW e, Emit(e), NEW t
    PROVE  /\ IsEvent(e) /\ EchoesIn(e, t) \in Nat
           /\ Echoes(wire', t) = Echoes(wire, t) + EchoesIn(e, t)
           /\ Echoes(log', t) = Echoes(log, t) + EchoesIn(e, t)
<1>1. wire' = Append(wire, e) /\ log' = IF e.type = "stream_event" THEN log ELSE Append(log, e)
  BY DEF Emit
<1>2. IsEvent(e)
  <2>1. PICK E : wire' \in Seq(E) /\ \A x \in E : IsEvent(x)
    BY DEF ChatInv, Announcements, Events
  <2>2. PICK D : wire \in Seq(D)
    BY DEF ChatInv, Announcements, Events
  <2>3. e \in E
    <3>1. Len(wire) \in Nat /\ DOMAIN wire = 1 .. Len(wire) BY <2>2
    <3>2. Len(Append(wire, e)) = Len(wire) + 1 /\ Append(wire, e)[Len(wire) + 1] = e BY <2>2
    <3>3. wire'[Len(wire) + 1] = e /\ Len(wire') = Len(wire) + 1 BY <1>1, <3>2
    <3>4. Len(wire) + 1 \in 1 .. Len(wire') BY <3>1, <3>3
    <3>5. \A i \in 1 .. Len(wire') : wire'[i] \in E BY <2>1
    <3>6. QED BY <3>3, <3>4, <3>5
  <2>4. QED BY <2>1, <2>3
<1>3. EchoesIn(e, t) \in Nat
  BY <1>2, EchoesType
<1>4. Events(wire) /\ Events(log) /\ Echoes(log, t) \in Nat
  BY BalanceTypes
<1>5. Echoes(wire', t) = Echoes(wire, t) + EchoesIn(e, t)
  BY <1>1, <1>2, <1>4, EchoesAppend
<1>6. CASE e.type = "stream_event"
  <2>1. EchoesIn(e, t) = 0 BY <1>6 DEF EchoesIn
  <2>2. log' = log BY <1>1, <1>6
  <2>3. QED BY <1>2, <1>3, <1>4, <1>5, <2>1, <2>2
<1>7. CASE e.type # "stream_event"
  <2>1. Echoes(log', t) = Echoes(log, t) + EchoesIn(e, t) BY <1>1, <1>2, <1>4, <1>7, EchoesAppend
  <2>2. QED BY <1>2, <1>3, <1>5, <2>1
<1>8. QED BY <1>6, <1>7

\* A text taken is echoed once.
LEMMA TakenEchoed ==
    ASSUME inbox \in Seq(Texts), inbox # <<>>, NEW t
    PROVE  Times(inbox, t) = Times(Tail(inbox), t) + EchoesIn(User(<<Head(inbox)>>, <<>>), t)
<1> DEFINE x == Head(inbox)
<1>1. Times(inbox, t) = Times(Tail(inbox), t) + One(x, t)
  BY TimesTail DEF One
<1> HIDE DEF x
<1> DEFINE s == <<>>
<1>2. s \in Seq(Texts) /\ Append(s, x) = <<x>> /\ Times(s, t) = 0
  BY NoTimes
<1> HIDE DEF s
<1>3. Times(Append(s, x), t) = Times(s, t) + One(x, t) /\ One(x, t) \in {0, 1}
  BY <1>2, TextMore
<1>4. Times(<<x>>, t) = One(x, t)
  BY <1>2, <1>3
<1>5. EchoesIn(User(<<x>>, <<>>), t) = Times(<<x>>, t)
  BY DEF User, EchoesIn
<1>6. QED BY <1>1, <1>4, <1>5 DEF x

\* The worker's steps keep them in step.
LEMMA WorkerBalance ==
    ASSUME BubInv, ChatInv', WorkerStep, NEW t \in Texts
    PROVE  Balanced(t)'
<1>1. PICK e : /\ Emit(e)
               /\ \/ inbox' = inbox
                  \/ inbox # <<>> /\ e = User(<<Head(inbox)>>, <<>>) /\ inbox' = Tail(inbox)
  BY WorkerEmits
<1> DEFINE k == EchoesIn(e, t)
<1>2. ChatInv /\ Balanced(t)
  BY DEF BubInv
<1>3. k \in Nat /\ Echoes(wire', t) = Echoes(wire, t) + k /\ Echoes(log', t) = Echoes(log, t) + k
  BY <1>1, <1>2, EmittedEchoes
<1>4. screen' = screen /\ scene' = scene
  BY <1>1 DEF Emit
<1>5. Times(inbox', t) = Times(inbox, t) \/ Times(inbox, t) = Times(inbox', t) + k
  BY <1>1, <1>2, TakenEchoed, BalanceTypes
<1> HIDE DEF k
<1>6. /\ Shown(screen, t) \in Nat /\ Pending(screen, t) \in Nat /\ Times(inbox, t) \in Nat
      /\ Echoes(wire, t) \in Nat /\ Echoes(log, t) \in Nat /\ Times(inbox', t) \in Nat
  <2>1. inbox' \in Seq(Texts) BY DEF ChatInv, WorkerOK
  <2>2. QED BY <1>2, <2>1, BalanceTypes, TimesType
<1>7. Shown(screen', t) + Echoes(wire', t) = Echoes(log', t) + Pending(screen', t)
  BY <1>2, <1>3, <1>4, <1>6 DEF Balanced
<1>8. ~("lossy" \in scene') => Pending(screen', t) <= Echoes(wire', t) + Times(inbox', t)
  BY <1>2, <1>3, <1>4, <1>5, <1>6 DEF Balanced, Has
<1>9. Queued(screen', t) <= Pending(screen', t)
  BY <1>2, <1>4 DEF Balanced
<1>10. QED BY <1>7, <1>8, <1>9 DEF Balanced, Has

\* An event received is heard.
LEMMA ReceiveBalance ==
    ASSUME BubInv, Receive, NEW t \in Texts
    PROVE  Balanced(t)'
<1> DEFINE e == Head(wire)
           r == Tail(wire)
           k == EchoesIn(e, t)
           n == reduce(screen, e, FALSE)
<1>1. ChatInv /\ Balanced(t)
  BY DEF BubInv
<1>2. wire # <<>> /\ screen' = n /\ wire' = r /\ scene' = scene /\ log' = log /\ inbox' = inbox
  BY DEF Receive
<1>3. screen \in Kept /\ Events(wire) /\ Shown(screen, t) \in Nat /\ Pending(screen, t) \in Nat
      /\ Times(inbox, t) \in Nat /\ Echoes(log, t) \in Nat
  BY <1>1, BalanceTypes
<1>4. IsEvent(e)
  BY <1>1, <1>2, EventsTail DEF ChatInv, Announcements
<1>5. k \in Nat /\ Echoes(r, t) \in Nat /\ Echoes(wire, t) = k + Echoes(r, t)
  BY <1>2, <1>3, <1>4, EchoesTail, EchoesType
<1> HIDE DEF e
<1>6. Heard(screen, n, t, k)
  BY <1>3, <1>4, HeardEvent
<1>7. n \in Screen
  <2>1. n \in Kept BY <1>3, <1>4, Reduced DEF Goes
  <2>2. QED BY <2>1 DEF Kept
<1> HIDE DEF n, r, k
<1>8. Shown(n, t) \in Nat /\ Pending(n, t) \in Nat
  BY <1>7, HeardType
<1>9. Shown(n, t) + Echoes(r, t) = Echoes(log, t) + Pending(n, t)
  BY <1>1, <1>3, <1>5, <1>6, <1>8 DEF Balanced, Heard
<1>10. ~Has("lossy") => Pending(n, t) <= Echoes(r, t) + Times(inbox, t)
  BY <1>1, <1>3, <1>5, <1>6, <1>8 DEF Balanced, Heard
<1>11. Queued(n, t) <= Pending(n, t)
  BY <1>1, <1>6 DEF Balanced, Heard
<1>12. QED BY <1>2, <1>9, <1>10, <1>11 DEF Balanced, Has

\* A text sent is shown, and waits for its echo.
LEMMA SendBalance ==
    ASSUME BubInv, NEW text \in Texts, Send(text), NEW t \in Texts
    PROVE  Balanced(t)'
<1> DEFINE state == IF screen.live.busy THEN "queued" ELSE "sent"
           d == [screen EXCEPT !.pendingWeb = Append(@, text)]
           m == push(d, Bubble(text, state))
           n == [m EXCEPT !.live.busy = TRUE, !.live.thinking = FALSE]
           one == One(text, t)
<1>1. ChatInv /\ Balanced(t)
  BY DEF BubInv
<1>2. screen' = n /\ wire' = wire /\ scene' = scene /\ log' = log
      /\ (inbox' = Append(inbox, text) \/ (Has("lossy") /\ inbox' = inbox))
  BY DEF Send, localSend
<1>3. Shown(screen, t) \in Nat /\ Pending(screen, t) \in Nat /\ Queued(screen, t) \in Nat
      /\ Times(inbox, t) \in Nat /\ Echoes(log, t) \in Nat /\ Echoes(wire, t) \in Nat
  BY <1>1, BalanceTypes
<1>4. screen \in Screen /\ inbox \in Seq(Texts)
  BY <1>1, BalanceTypes
<1>5. state \in {"queued", "sent"} /\ one \in {0, 1}
  BY DEF One
<1>6. d \in Screen /\ d.items = screen.items /\ d.pendingWeb = Append(screen.pendingWeb, text)
  <2>1. Append(screen.pendingWeb, text) \in Seq(Texts)
    <3>1. screen.pendingWeb \in Seq(Texts) BY <1>4, ScreenFields
    <3>2. QED BY <3>1
  <2> HIDE DEF Item
  <2>2. QED BY <1>4, <2>1 DEF Screen
<1>7. Pending(d, t) = Pending(screen, t) + one
  <2>1. screen.pendingWeb \in Seq(Texts) BY <1>4, ScreenFields
  <2>2. QED BY <2>1, <1>6, TextMore DEF Pending
<1>8. Shown(d, t) = Shown(screen, t) /\ Queued(d, t) = Queued(screen, t)
  BY <1>6 DEF Shown, Queued, BubblesOf, QueuedOf, Positions
<1> HIDE DEF state, d
<1>9. Shown(m, t) = Shown(d, t) + one /\ Queued(m, t) <= Queued(d, t) + one /\ m.pendingWeb = d.pendingWeb
  <2>1. Queued(d, t) \in Nat BY <1>6, HeardType
  <2>2. /\ Shown(m, t) = Shown(d, t) + (IF text = t THEN 1 ELSE 0)
        /\ Queued(m, t) = Queued(d, t) + (IF text = t /\ state = "queued" THEN 1 ELSE 0)
        /\ m.pendingWeb = d.pendingWeb
    BY <1>5, <1>6, BubbleMore
  <2> HIDE DEF m
  <2>3. QED BY <2>1, <2>2 DEF One
<1>10. m \in Screen
  <2>1. Bubble(text, state) \in Item
    BY <1>5, ItemSets DEF Bubble, UserItem
  <2>2. QED BY <2>1, <1>6, PushedAtTail DEF AtTail
<1> HIDE DEF m
<1>11. SameBubbles(m, n)
  <2>1. n.items = m.items /\ n.pendingWeb = m.pendingWeb BY <1>10 DEF Screen, Live
  <2> HIDE DEF n
  <2>2. QED BY <2>1, SameItems
<1> HIDE DEF n
<1>12. Shown(n, t) = Shown(m, t) /\ Queued(n, t) = Queued(m, t) /\ Pending(n, t) = Pending(m, t)
  BY <1>11, SameCounts
<1>13. Pending(m, t) = Pending(d, t)
  BY <1>9 DEF Pending
<1>14. Times(inbox', t) = Times(inbox, t) + one \/ (Has("lossy") /\ inbox' = inbox)
  <2>1. Times(Append(inbox, text), t) = Times(inbox, t) + one BY <1>4, TextMore
  <2> HIDE DEF one
  <2>2. QED BY <1>2, <2>1
<1> HIDE DEF one
<1>15. Shown(d, t) \in Nat /\ Queued(m, t) \in Nat /\ Pending(d, t) \in Nat
  BY <1>6, <1>10, HeardType
<1>16. Shown(n, t) = Shown(screen, t) + one /\ Pending(n, t) = Pending(screen, t) + one /\ Queued(n, t) <= Queued(screen, t) + one
  BY <1>7, <1>8, <1>9, <1>12, <1>13
<1>17. /\ Shown(screen, t) + Echoes(wire, t) = Echoes(log, t) + Pending(screen, t)
       /\ ~Has("lossy") => Pending(screen, t) <= Echoes(wire, t) + Times(inbox, t)
       /\ Queued(screen, t) <= Pending(screen, t)
  BY <1>1 DEF Balanced
<1>18. one \in Nat /\ Shown(n, t) \in Nat /\ Pending(n, t) \in Nat /\ Queued(n, t) \in Nat
  <2>1. Shown(m, t) \in Nat BY <1>10, HeardType
  <2>2. QED BY <2>1, <1>5, <1>12, <1>13, <1>15
<1>19. Times(inbox', t) \in Nat
  <2>1. inbox' \in Seq(Texts) BY <1>2, <1>4
  <2>2. QED BY <2>1, TimesType
<1>20. Shown(n, t) + Echoes(wire, t) = Echoes(log, t) + Pending(n, t)
  BY <1>3, <1>16, <1>17, <1>18
<1>21. ~Has("lossy") => Pending(n, t) <= Echoes(wire, t) + Times(inbox', t)
  <2>1. CASE Times(inbox', t) = Times(inbox, t) + one BY <2>1, <1>3, <1>16, <1>17, <1>18, <1>19
  <2>2. CASE Has("lossy") BY <2>2
  <2>3. QED BY <2>1, <2>2, <1>14
<1>22. Queued(n, t) <= Pending(n, t)
  <2>1. Queued(n, t) \in Nat BY <1>12, <1>15
  <2>2. QED BY <2>1, <1>3, <1>16, <1>17, <1>18
<1>23. QED BY <1>2, <1>20, <1>21, <1>22 DEF Balanced, Has

\* What leaves the bubbles where they are, and does not touch the worker.
LEMMA SameBalance ==
    ASSUME BubInv, SameBubbles(screen, screen'), UNCHANGED <<scene, log, wire, inbox>>, NEW t \in Texts
    PROVE  Balanced(t)'
<1>1. Balanced(t)
  BY DEF BubInv
<1>2. Shown(screen', t) = Shown(screen, t) /\ Queued(screen', t) = Queued(screen, t)
      /\ Pending(screen', t) = Pending(screen, t)
  BY SameCounts
<1>3. QED BY <1>1, <1>2 DEF Balanced, Has

\* Answers, Stop and questions do.
LEMMA AnswerBalance ==
    ASSUME BubInv, answerPermission \/ Stop \/ \E i \in DOMAIN screen.items : onAnswerQuestion(i),
           NEW t \in Texts
    PROVE  Balanced(t)'
<1>1. UNCHANGED <<scene, log, wire, inbox>>
  BY DEF answerPermission, Stop, onAnswerQuestion
<1>2. screen \in Kept
  BY DEF BubInv, ChatInv, ScreenOK
<1>3. SameBubbles(screen, screen')
  BY <1>2, SameCleared, SameStopped, SameMarked DEF answerPermission, Stop, onAnswerQuestion
<1>4. QED BY <1>1, <1>3, SameBalance

\* A reopening shows what was stored.
LEMMA ReopenBalance ==
    ASSUME BubInv, Reopen, NEW t \in Texts
    PROVE  Balanced(t)'
<1> DEFINE active == ~worker.gone
           n == Replayed(log, active)
<1>1. screen' = n /\ wire' = <<>> /\ scene' = scene /\ log' = log /\ inbox' = inbox
  BY DEF Reopen
<1>2. active \in BOOLEAN /\ Events(log) /\ Echoes(log, t) \in Nat /\ Times(inbox, t) \in Nat
  BY BalanceTypes DEF BubInv
<1> HIDE DEF active
<1>3. Shown(n, t) = Echoes(log, t) /\ Pending(n, t) = 0 /\ Queued(n, t) = 0
  BY <1>2, HeardReplay
<1> HIDE DEF n
<1>4. Echoes(wire', t) = 0
  BY <1>1, NoEchoes
<1>5. Shown(screen', t) + Echoes(wire', t) = Echoes(log', t) + Pending(screen', t)
  BY <1>1, <1>2, <1>3, <1>4
<1>6. Pending(screen', t) <= Echoes(wire', t) + Times(inbox', t)
  BY <1>1, <1>2, <1>3, <1>4
<1>7. Queued(screen', t) <= Pending(screen', t)
  BY <1>1, <1>3
<1>8. QED BY <1>5, <1>6, <1>7 DEF Balanced

\* Every step of the chat keeps them in step.
LEMMA BubStep == ASSUME BubInv, Next PROVE BubInv'
<1>1. ChatInv'
  BY ChatStep DEF BubInv
<1>2. ASSUME NEW t \in Texts PROVE Balanced(t)'
  <2>1. CASE WorkerStep BY <2>1, <1>1, WorkerBalance
  <2>2. CASE Receive BY <2>2, ReceiveBalance
  <2>3. CASE answerPermission \/ Stop \/ \E i \in DOMAIN screen.items : onAnswerQuestion(i)
    BY <2>3, AnswerBalance
  <2>4. CASE Reopen BY <2>4, ReopenBalance
  <2>5. ASSUME NEW text \in Texts, Send(text) PROVE Balanced(t)'
    BY <2>5, SendBalance
  <2>6. QED BY <2>1, <2>2, <2>3, <2>4, <2>5 DEF Next
<1>3. QED BY <1>1, <1>2 DEF BubInv

\* A session starts so.
LEMMA BubInit == Init => BubInv
<1> SUFFICES ASSUME Init PROVE BubInv
  OBVIOUS
<1>1. ChatInv
  BY ChatInit
<1>2. log = <<>> /\ wire = <<>> /\ inbox = <<>> /\ screen.items = <<>> /\ screen.pendingWeb = <<>>
  BY DEF Init, initialState
<1>3. ASSUME NEW t \in Texts PROVE Balanced(t)
  <2>1. Positions(screen, "user") = {} BY <1>2 DEF Positions
  <2>2. BubblesOf(screen, t) = {} /\ QueuedOf(screen, t) = {} BY <2>1 DEF BubblesOf, QueuedOf
  <2>3. Shown(screen, t) = 0 /\ Queued(screen, t) = 0 BY <2>2, FS_EmptySet DEF Shown, Queued
  <2>4. Pending(screen, t) = 0 /\ Times(inbox, t) = 0 BY <1>2, NoTimes DEF Pending
  <2>5. Echoes(wire, t) = 0 /\ Echoes(log, t) = 0 BY <1>2, NoEchoes
  <2>6. QED BY <2>3, <2>4, <2>5 DEF Balanced
<1>4. QED BY <1>1, <1>3 DEF BubInv

\* The balance gives what the bubbles promise.
LEMMA BubInvShows == ASSUME BubInv PROVE BubblesMatchEchoes /\ QueuedIsPending
<1>1. ASSUME NEW t \in Texts
      PROVE  /\ Bubbles(t) + Echoes(wire, t) = Echoes(log, t) + Times(screen.pendingWeb, t)
             /\ wire = <<>> /\ inbox = <<>> /\ ~Has("lossy") => Bubbles(t) = Echoes(log, t)
             /\ Cardinality(QueuedOf(screen, t)) <= Times(screen.pendingWeb, t)
  <2>1. Balanced(t) /\ ChatInv
    BY DEF BubInv
  <2>2. Bubbles(t) = Shown(screen, t) /\ Times(screen.pendingWeb, t) = Pending(screen, t)
        /\ Cardinality(QueuedOf(screen, t)) = Queued(screen, t)
    BY DEF Bubbles, Shown, Pending, Queued
  <2>3. Shown(screen, t) \in Nat /\ Pending(screen, t) \in Nat /\ Echoes(log, t) \in Nat
    BY <2>1, BalanceTypes
  <2>4. ASSUME wire = <<>>, inbox = <<>>, ~Has("lossy") PROVE Shown(screen, t) = Echoes(log, t)
    <3>1. Echoes(wire, t) = 0 /\ Times(inbox, t) = 0 BY <2>4, NoEchoes, NoTimes
    <3>2. QED BY <2>1, <2>3, <2>4, <3>1 DEF Balanced
  <2>5. Shown(screen, t) + Echoes(wire, t) = Echoes(log, t) + Pending(screen, t)
        /\ Queued(screen, t) <= Pending(screen, t)
    BY <2>1 DEF Balanced
  <2>6. QED BY <2>2, <2>4, <2>5
<1>2. QED BY <1>1 DEF BubblesMatchEchoes, QueuedIsPending

\* No text is lost and none is shown twice: the bubbles of a text are its echoes
\* that have arrived and the sends that wait for theirs, once the worker has taken
\* everything they are its echoes, and none says queued whose echo has come
\* (model.ts, takeVisibleUserTexts and settleQueued; session.ts, send and backfill).
THEOREM BubblesStayInStep == SessionSpec => []BubblesInStep
<1> DEFINE Inv == part = "chat" => BubInv
<1>1. SessionInit => Inv
  BY BubInit DEF SessionInit
<1>2. Inv /\ [SessionNext]_<<part, vars, rows, pictures>> => Inv'
  <2> SUFFICES ASSUME Inv, [SessionNext]_<<part, vars, rows, pictures>>, part' = "chat" PROVE BubInv'
    OBVIOUS
  <2>1. CASE part = "chat" /\ Next
    BY <2>1, BubStep
  <2>2. CASE part' = part /\ UNCHANGED vars
    <3>1. UNCHANGED <<scene, worker, log, wire, inbox, screen>> BY <2>2 DEF vars
    <3>2. BubInv BY <2>2
    <3>3. ChatInv' BY <3>1, <3>2 DEF BubInv, ChatInv, WorkerOK, Announcements, ScreenOK, Begun
    <3>4. \A t \in Texts : Balanced(t)' BY <3>1, <3>2 DEF BubInv, Balanced, Has
    <3>5. QED BY <3>3, <3>4 DEF BubInv
  <2>3. QED BY <2>1, <2>2 DEF SessionNext
<1>3. Inv => BubblesInStep
  BY BubInvShows DEF BubblesInStep
<1>4. QED BY <1>1, <1>2, <1>3, PTL DEF SessionSpec

-----------------------------------------------------------------------------
\* The instances of MCSession, with their lemmas.
DigestP == INSTANCE ApprovalsProofs WITH
    worker <- agent, wire <- answering, used <- lapses,
    Tools <- ToolCalls, Hidden <- HiddenCalls, HasPool <- FALSE,
    MaxTurns <- DigestTurns, MaxBatch <- MaxPosted,
    MaxDetach <- 0, MaxRestarts <- 0, MaxReopens <- 0, MayExit <- FALSE

WorkerP == INSTANCE ApprovalsProofs WITH
    worker <- agent, wire <- answering, used <- lapses,
    Tools <- WorkerCalls, Hidden <- {}, HasPool <- TRUE,
    MaxTurns <- WorkerTurns, MaxBatch <- MaxPosted,
    MaxDetach <- 1, MaxRestarts <- 1, MaxReopens <- 1, MayExit <- TRUE

\* Both meet the assumptions of ApprovalsProofs.
LEMMA Met == DigestP!Parameters /\ DigestP!Staying /\ WorkerP!Parameters
BY CallsAssumption DEF DigestP!Parameters, DigestP!Staying, WorkerP!Parameters

-----------------------------------------------------------------------------
(* Both spell the folds of foldDigest and of the reducer alike, and so     *)
(* their steps, one action at a time.                                      *)

\* The folds of the instance without PostgreSQL (store.ts, foldDigest).
LEMMA DigestFolds ==
    /\ \A d, s : Digest!Reduce(Digest!Fold, d, s) = DigestP!Reduce(DigestP!Fold, d, s)
    /\ \A x, s : Digest!Reduce(Digest!ShowSheet, x, s) = DigestP!Reduce(DigestP!ShowSheet, x, s)
<1>1. ASSUME NEW d, NEW s
      PROVE  Digest!Reduce(Digest!Fold, d, s) = DigestP!Reduce(DigestP!Fold, d, s)
  BY DEF Digest!Reduce, DigestP!Reduce, Digest!Fold, DigestP!Fold, Digest!Asked, DigestP!Asked,
     Digest!Cleared, DigestP!Cleared, Digest!Finished, DigestP!Finished, Digest!Settled,
     DigestP!Settled
<1>2. ASSUME NEW x, NEW s
      PROVE  Digest!Reduce(Digest!ShowSheet, x, s) = DigestP!Reduce(DigestP!ShowSheet, x, s)
  BY DEF Digest!Reduce, DigestP!Reduce, Digest!ShowSheet, DigestP!ShowSheet, Digest!Withdraws,
     DigestP!Withdraws
<1>3. QED BY <1>1, <1>2

\* Those of the instance with it.
LEMMA WorkerFolds ==
    /\ \A d, s : Worker!Reduce(Worker!Fold, d, s) = WorkerP!Reduce(WorkerP!Fold, d, s)
    /\ \A x, s : Worker!Reduce(Worker!ShowSheet, x, s) = WorkerP!Reduce(WorkerP!ShowSheet, x, s)
<1>1. ASSUME NEW d, NEW s
      PROVE  Worker!Reduce(Worker!Fold, d, s) = WorkerP!Reduce(WorkerP!Fold, d, s)
  BY DEF Worker!Reduce, WorkerP!Reduce, Worker!Fold, WorkerP!Fold, Worker!Asked, WorkerP!Asked,
     Worker!Cleared, WorkerP!Cleared, Worker!Finished, WorkerP!Finished, Worker!Settled,
     WorkerP!Settled
<1>2. ASSUME NEW x, NEW s
      PROVE  Worker!Reduce(Worker!ShowSheet, x, s) = WorkerP!Reduce(WorkerP!ShowSheet, x, s)
  BY DEF Worker!Reduce, WorkerP!Reduce, Worker!ShowSheet, WorkerP!ShowSheet, Worker!Withdraws,
     WorkerP!Withdraws
<1>3. QED BY <1>1, <1>2

\* Without PostgreSQL the steps are those the lemmas of ApprovalsProofs are about.
LEMMA DigestSteps == [Digest!Next]_rows => [DigestP!Next]_(DigestP!vars)
<1> SUFFICES ASSUME [Digest!Next]_rows PROVE [DigestP!Next]_(DigestP!vars)
  OBVIOUS
<1>1. Digest!StartTurn => DigestP!StartTurn
  BY DEF Digest!StartTurn, DigestP!StartTurn, Digest!Emit, DigestP!Emit, Digest!E,
     DigestP!E, Digest!ServerAndPhone, DigestP!ServerAndPhone, Digest!rowVars,
     DigestP!rowVars, Digest!phoneVars, DigestP!phoneVars
<1>2. Digest!LocalCommand => DigestP!LocalCommand
  BY DEF Digest!LocalCommand, DigestP!LocalCommand, Digest!Emit, DigestP!Emit, Digest!E,
     DigestP!E, Digest!ServerAndPhone, DigestP!ServerAndPhone, Digest!rowVars,
     DigestP!rowVars, Digest!phoneVars, DigestP!phoneVars
<1>3. Digest!ReadAnswer => DigestP!ReadAnswer
  BY DEF Digest!ReadAnswer, DigestP!ReadAnswer, Digest!rowVars, DigestP!rowVars,
     Digest!phoneVars, DigestP!phoneVars
<1>4. Digest!EndTurn => DigestP!EndTurn
  BY DEF Digest!EndTurn, DigestP!EndTurn, Digest!Running, DigestP!Running, Digest!Stopped,
     DigestP!Stopped, Digest!Emit, DigestP!Emit, Digest!E, DigestP!E, Digest!ServerAndPhone,
     DigestP!ServerAndPhone, Digest!rowVars, DigestP!rowVars, Digest!phoneVars,
     DigestP!phoneVars
<1>5. Digest!Exit => DigestP!Exit
  BY DEF Digest!Exit, DigestP!Exit, Digest!Running, DigestP!Running, Digest!Stopped,
     DigestP!Stopped, Digest!Emit, DigestP!Emit, Digest!E, DigestP!E, Digest!ServerAndPhone,
     DigestP!ServerAndPhone, Digest!rowVars, DigestP!rowVars, Digest!phoneVars,
     DigestP!phoneVars
<1>6. ASSUME NEW t, Digest!Call(t) PROVE DigestP!Call(t)
  BY <1>6 DEF Digest!Call, DigestP!Call, Digest!Waiting, DigestP!Waiting, Digest!Emit,
     DigestP!Emit, Digest!E, DigestP!E, Digest!ServerAndPhone, DigestP!ServerAndPhone,
     Digest!rowVars, DigestP!rowVars, Digest!phoneVars, DigestP!phoneVars
<1>7. ASSUME NEW t, Digest!Ask(t) PROVE DigestP!Ask(t)
  BY <1>7 DEF Digest!Ask, DigestP!Ask, Digest!Waiting, DigestP!Waiting, Digest!Emit,
     DigestP!Emit, Digest!E, DigestP!E, Digest!ServerAndPhone, DigestP!ServerAndPhone,
     Digest!rowVars, DigestP!rowVars, Digest!phoneVars, DigestP!phoneVars
<1>8. ASSUME NEW t, Digest!AnswerInTerminal(t) PROVE DigestP!AnswerInTerminal(t)
  BY <1>8 DEF Digest!AnswerInTerminal, DigestP!AnswerInTerminal, Digest!Emit, DigestP!Emit,
     Digest!E, DigestP!E, Digest!ServerAndPhone, DigestP!ServerAndPhone, Digest!rowVars,
     DigestP!rowVars, Digest!phoneVars, DigestP!phoneVars
<1>9. ASSUME NEW t, Digest!Finish(t) PROVE DigestP!Finish(t)
  BY <1>9 DEF Digest!Finish, DigestP!Finish, Digest!Running, DigestP!Running, Digest!Waiting,
     DigestP!Waiting, Digest!Emit, DigestP!Emit, Digest!E, DigestP!E, Digest!ServerAndPhone,
     DigestP!ServerAndPhone, Digest!rowVars, DigestP!rowVars, Digest!phoneVars,
     DigestP!phoneVars
<1>10. ASSUME NEW k, Digest!Post(k) PROVE DigestP!Post(k)
  BY <1>10, DigestFolds DEF Digest!Post, DigestP!Post, Digest!Changed, DigestP!Changed, Digest!workerVars,
     DigestP!workerVars
<1>11. Digest!ResumePost => DigestP!ResumePost
  BY DigestFolds DEF Digest!ResumePost, DigestP!ResumePost, Digest!workerVars, DigestP!workerVars,
     Digest!rowVars, DigestP!rowVars, Digest!phoneVars, DigestP!phoneVars
<1>12. Digest!HandleAnswer => DigestP!HandleAnswer
  BY DEF Digest!HandleAnswer, DigestP!HandleAnswer, Digest!Cleared, DigestP!Cleared,
     Digest!workerVars, DigestP!workerVars
<1>13. Digest!Flush => DigestP!Flush
  BY DEF Digest!Flush, DigestP!Flush, Digest!workerVars, DigestP!workerVars,
     Digest!phoneVars, DigestP!phoneVars
<1>14. Digest!LoseStream => DigestP!LoseStream
  BY DEF Digest!LoseStream, DigestP!LoseStream, Digest!workerVars, DigestP!workerVars,
     Digest!phoneVars, DigestP!phoneVars
<1>15. Digest!OpenStream => DigestP!OpenStream
  BY DEF Digest!OpenStream, DigestP!OpenStream, Digest!workerVars, DigestP!workerVars,
     Digest!phoneVars, DigestP!phoneVars
<1>16. Digest!Restart => DigestP!Restart
  BY DigestFolds DEF Digest!Restart, DigestP!Restart, Digest!Blank, DigestP!Blank, Digest!workerVars,
     DigestP!workerVars
<1>17. Digest!Answer => DigestP!Answer
  BY DEF Digest!Answer, DigestP!Answer, Digest!workerVars, DigestP!workerVars,
     Digest!rowVars, DigestP!rowVars
<1>18. Digest!Reopen => DigestP!Reopen
  BY DigestFolds DEF Digest!Reopen, DigestP!Reopen, Digest!workerVars, DigestP!workerVars,
     Digest!rowVars, DigestP!rowVars
<1>19. Digest!WorkerStep => DigestP!WorkerStep
  BY <1>1, <1>2, <1>3, <1>4, <1>5, <1>6, <1>7, <1>8, <1>9 DEF Digest!WorkerStep,
     DigestP!WorkerStep
<1>20. Digest!ServerStep => DigestP!ServerStep
  BY <1>10, <1>11, <1>12, <1>13, <1>14, <1>15, <1>16 DEF Digest!ServerStep,
     DigestP!ServerStep
<1>21. Digest!Next => DigestP!Next
  BY <1>19, <1>20, <1>17, <1>18 DEF Digest!Next, DigestP!Next
<1>22. UNCHANGED rows => UNCHANGED DigestP!vars
  BY DEF rows, DigestP!vars, DigestP!workerVars, DigestP!rowVars, DigestP!phoneVars
<1>23. QED BY <1>21, <1>22

\* So are those with it.
LEMMA WorkerSteps == [Worker!Next]_rows => [WorkerP!Next]_(WorkerP!vars)
<1> SUFFICES ASSUME [Worker!Next]_rows PROVE [WorkerP!Next]_(WorkerP!vars)
  OBVIOUS
<1>1. Worker!StartTurn => WorkerP!StartTurn
  BY DEF Worker!StartTurn, WorkerP!StartTurn, Worker!Emit, WorkerP!Emit, Worker!E,
     WorkerP!E, Worker!ServerAndPhone, WorkerP!ServerAndPhone, Worker!rowVars,
     WorkerP!rowVars, Worker!phoneVars, WorkerP!phoneVars
<1>2. Worker!LocalCommand => WorkerP!LocalCommand
  BY DEF Worker!LocalCommand, WorkerP!LocalCommand, Worker!Emit, WorkerP!Emit, Worker!E,
     WorkerP!E, Worker!ServerAndPhone, WorkerP!ServerAndPhone, Worker!rowVars,
     WorkerP!rowVars, Worker!phoneVars, WorkerP!phoneVars
<1>3. Worker!ReadAnswer => WorkerP!ReadAnswer
  BY DEF Worker!ReadAnswer, WorkerP!ReadAnswer, Worker!rowVars, WorkerP!rowVars,
     Worker!phoneVars, WorkerP!phoneVars
<1>4. Worker!EndTurn => WorkerP!EndTurn
  BY DEF Worker!EndTurn, WorkerP!EndTurn, Worker!Running, WorkerP!Running, Worker!Stopped,
     WorkerP!Stopped, Worker!Emit, WorkerP!Emit, Worker!E, WorkerP!E, Worker!ServerAndPhone,
     WorkerP!ServerAndPhone, Worker!rowVars, WorkerP!rowVars, Worker!phoneVars,
     WorkerP!phoneVars
<1>5. Worker!Exit => WorkerP!Exit
  BY DEF Worker!Exit, WorkerP!Exit, Worker!Running, WorkerP!Running, Worker!Stopped,
     WorkerP!Stopped, Worker!Emit, WorkerP!Emit, Worker!E, WorkerP!E, Worker!ServerAndPhone,
     WorkerP!ServerAndPhone, Worker!rowVars, WorkerP!rowVars, Worker!phoneVars,
     WorkerP!phoneVars
<1>6. ASSUME NEW t, Worker!Call(t) PROVE WorkerP!Call(t)
  BY <1>6 DEF Worker!Call, WorkerP!Call, Worker!Waiting, WorkerP!Waiting, Worker!Emit,
     WorkerP!Emit, Worker!E, WorkerP!E, Worker!ServerAndPhone, WorkerP!ServerAndPhone,
     Worker!rowVars, WorkerP!rowVars, Worker!phoneVars, WorkerP!phoneVars
<1>7. ASSUME NEW t, Worker!Ask(t) PROVE WorkerP!Ask(t)
  BY <1>7 DEF Worker!Ask, WorkerP!Ask, Worker!Waiting, WorkerP!Waiting, Worker!Emit,
     WorkerP!Emit, Worker!E, WorkerP!E, Worker!ServerAndPhone, WorkerP!ServerAndPhone,
     Worker!rowVars, WorkerP!rowVars, Worker!phoneVars, WorkerP!phoneVars
<1>8. ASSUME NEW t, Worker!AnswerInTerminal(t) PROVE WorkerP!AnswerInTerminal(t)
  BY <1>8 DEF Worker!AnswerInTerminal, WorkerP!AnswerInTerminal, Worker!Emit, WorkerP!Emit,
     Worker!E, WorkerP!E, Worker!ServerAndPhone, WorkerP!ServerAndPhone, Worker!rowVars,
     WorkerP!rowVars, Worker!phoneVars, WorkerP!phoneVars
<1>9. ASSUME NEW t, Worker!Finish(t) PROVE WorkerP!Finish(t)
  BY <1>9 DEF Worker!Finish, WorkerP!Finish, Worker!Running, WorkerP!Running, Worker!Waiting,
     WorkerP!Waiting, Worker!Emit, WorkerP!Emit, Worker!E, WorkerP!E, Worker!ServerAndPhone,
     WorkerP!ServerAndPhone, Worker!rowVars, WorkerP!rowVars, Worker!phoneVars,
     WorkerP!phoneVars
<1>10. ASSUME NEW k, Worker!Post(k) PROVE WorkerP!Post(k)
  BY <1>10, WorkerFolds DEF Worker!Post, WorkerP!Post, Worker!Changed, WorkerP!Changed, Worker!workerVars,
     WorkerP!workerVars
<1>11. Worker!ResumePost => WorkerP!ResumePost
  BY WorkerFolds DEF Worker!ResumePost, WorkerP!ResumePost, Worker!workerVars, WorkerP!workerVars,
     Worker!rowVars, WorkerP!rowVars, Worker!phoneVars, WorkerP!phoneVars
<1>12. Worker!HandleAnswer => WorkerP!HandleAnswer
  BY DEF Worker!HandleAnswer, WorkerP!HandleAnswer, Worker!Cleared, WorkerP!Cleared,
     Worker!workerVars, WorkerP!workerVars
<1>13. Worker!Flush => WorkerP!Flush
  BY DEF Worker!Flush, WorkerP!Flush, Worker!workerVars, WorkerP!workerVars,
     Worker!phoneVars, WorkerP!phoneVars
<1>14. Worker!LoseStream => WorkerP!LoseStream
  BY DEF Worker!LoseStream, WorkerP!LoseStream, Worker!workerVars, WorkerP!workerVars,
     Worker!phoneVars, WorkerP!phoneVars
<1>15. Worker!OpenStream => WorkerP!OpenStream
  BY DEF Worker!OpenStream, WorkerP!OpenStream, Worker!workerVars, WorkerP!workerVars,
     Worker!phoneVars, WorkerP!phoneVars
<1>16. Worker!Restart => WorkerP!Restart
  BY WorkerFolds DEF Worker!Restart, WorkerP!Restart, Worker!Blank, WorkerP!Blank, Worker!workerVars,
     WorkerP!workerVars
<1>17. Worker!Answer => WorkerP!Answer
  BY DEF Worker!Answer, WorkerP!Answer, Worker!workerVars, WorkerP!workerVars,
     Worker!rowVars, WorkerP!rowVars
<1>18. Worker!Reopen => WorkerP!Reopen
  BY WorkerFolds DEF Worker!Reopen, WorkerP!Reopen, Worker!workerVars, WorkerP!workerVars,
     Worker!rowVars, WorkerP!rowVars
<1>19. Worker!WorkerStep => WorkerP!WorkerStep
  BY <1>1, <1>2, <1>3, <1>4, <1>5, <1>6, <1>7, <1>8, <1>9 DEF Worker!WorkerStep,
     WorkerP!WorkerStep
<1>20. Worker!ServerStep => WorkerP!ServerStep
  BY <1>10, <1>11, <1>12, <1>13, <1>14, <1>15, <1>16 DEF Worker!ServerStep,
     WorkerP!ServerStep
<1>21. Worker!Next => WorkerP!Next
  BY <1>19, <1>20, <1>17, <1>18 DEF Worker!Next, WorkerP!Next
<1>22. UNCHANGED rows => UNCHANGED WorkerP!vars
  BY DEF rows, WorkerP!vars, WorkerP!workerVars, WorkerP!rowVars, WorkerP!phoneVars
<1>23. QED BY <1>21, <1>22

\* Both start alike: nothing said, nothing shown.
LEMMA Starts == (Digest!Init => DigestP!Init) /\ (Worker!Init => WorkerP!Init)
BY DEF Digest!Init, DigestP!Init, Worker!Init, WorkerP!Init, Digest!Blank, DigestP!Blank,
   Worker!Blank, WorkerP!Blank

-----------------------------------------------------------------------------
(* What both say of the row, the badge, the sheet and the Stop button.     *)

\* Without PostgreSQL (store.ts, foldDigest; model.ts, controlCancel).
LEMMA DigestMeans ==
    DigestP!RowIsNewestCall /\ DigestP!BadgeNotStale /\ DigestP!SheetIsLive =>
        Digest!RowIsNewestCall /\ Digest!BadgeNotStale /\ Digest!SheetIsLive
BY DEF Digest!RowIsNewestCall, DigestP!RowIsNewestCall, Digest!BadgeNotStale,
   DigestP!BadgeNotStale, Digest!SheetIsLive, DigestP!SheetIsLive, Digest!Quiet, DigestP!Quiet,
   Digest!Running, DigestP!Running, Digest!Waiting, DigestP!Waiting

\* With it (store.ts, foldDigest settle; model.ts, turnActiveIn).
LEMMA WorkerMeans ==
    WorkerP!TypeOK /\ WorkerP!RowSettles /\ WorkerP!StopButtonOffered =>
        Worker!TypeOK /\ Worker!RowSettles /\ Worker!StopButtonOffered
<1>1. WorkerP!TypeOK => Worker!TypeOK
  BY DEF Worker!TypeOK, WorkerP!TypeOK, Worker!Event, WorkerP!Event, Worker!Kinds, WorkerP!Kinds,
     Worker!Digest, WorkerP!Digest, Worker!Statuses, WorkerP!Statuses
<1>2. WorkerP!RowSettles => Worker!RowSettles
  BY DEF Worker!RowSettles, WorkerP!RowSettles, Worker!Reported, WorkerP!Reported,
     Worker!Quiet, WorkerP!Quiet
<1>3. WorkerP!StopButtonOffered => Worker!StopButtonOffered
  BY DEF Worker!StopButtonOffered, WorkerP!StopButtonOffered, Worker!turnActiveIn,
     WorkerP!turnActiveIn, Worker!ShowsTurn, WorkerP!ShowsTurn, Worker!EndsTurn, WorkerP!EndsTurn
<1>4. QED BY <1>1, <1>2, <1>3

-----------------------------------------------------------------------------
(* The invariants, in the behaviours of either instance.                   *)

\* Without PostgreSQL there is no restart.
NoRestart == lapses["restart"] = 0

DigestInv ==
    /\ DigestP!RowInv /\ DigestP!PhoneInv /\ DigestP!Sheet
    /\ NoRestart

SessionInv ==
    /\ part = "digest" => DigestInv
    /\ part = "worker" => WorkerP!RowInv

\* No step restarts a server that has no PostgreSQL to load from (store.ts, load).
LEMMA RestartsNever ==
    DigestP!TypeOK /\ NoRestart /\ [DigestP!Next]_(DigestP!vars) => NoRestart'
<1> SUFFICES ASSUME DigestP!TypeOK, NoRestart, [DigestP!Next]_(DigestP!vars) PROVE NoRestart'
  OBVIOUS
<1>1. lapses \in [{"detach", "restart", "reopen"} -> Nat]
  BY DEF DigestP!TypeOK
<1>2. ~DigestP!Restart
  BY DEF DigestP!Restart
<1>3. DigestP!LoseStream \/ DigestP!Reopen => lapses'["restart"] = lapses["restart"]
  BY <1>1 DEF DigestP!LoseStream, DigestP!Reopen
<1>4. DigestP!WorkerStep => UNCHANGED lapses
  BY DEF DigestP!WorkerStep, DigestP!StartTurn, DigestP!LocalCommand, DigestP!ReadAnswer,
     DigestP!EndTurn, DigestP!Exit, DigestP!Call, DigestP!Ask, DigestP!AnswerInTerminal,
     DigestP!Finish, DigestP!ServerAndPhone
<1>5. DigestP!ServerStep => DigestP!LoseStream \/ UNCHANGED lapses
  BY <1>2 DEF DigestP!ServerStep, DigestP!Post, DigestP!ResumePost, DigestP!HandleAnswer,
     DigestP!Flush, DigestP!OpenStream
<1>6. DigestP!Answer \/ UNCHANGED DigestP!vars => UNCHANGED lapses
  BY DEF DigestP!Answer, DigestP!vars
<1>7. QED BY <1>3, <1>4, <1>5, <1>6 DEF DigestP!Next, NoRestart

\* A session starts with both invariants true.
LEMMA SessionStart == SessionInit => SessionInv
<1> SUFFICES ASSUME SessionInit PROVE SessionInv
  OBVIOUS
<1>1. ASSUME part = "digest" PROVE DigestInv
  <2>1. DigestP!Init BY <1>1, Starts DEF SessionInit
  <2>2. DigestP!RowInv /\ DigestP!PhoneInv /\ DigestP!Sheet
    BY <2>1, Met, DigestP!RowInit, DigestP!PhoneInit, DigestP!SheetInit DEF DigestP!SheetInv
  <2>3. NoRestart BY <2>1 DEF DigestP!Init, NoRestart
  <2>4. QED BY <2>2, <2>3 DEF DigestInv
<1>2. ASSUME part = "worker" PROVE WorkerP!RowInv
  BY <1>2, Starts, Met, WorkerP!RowInit DEF SessionInit
<1>3. QED BY <1>1, <1>2 DEF SessionInv

\* The steps of a behaviour are those of its instance.
LEMMA PartKept ==
    ASSUME [SessionNext]_<<part, vars, rows, pictures>>
    PROVE  /\ part' = part
           /\ part = "digest" => [Digest!Next]_rows
           /\ part = "worker" => [Worker!Next]_rows
<1>1. CASE SessionNext
  BY <1>1 DEF SessionNext
<1>2. CASE UNCHANGED <<part, vars, rows, pictures>>
  BY <1>2
<1>3. QED BY <1>1, <1>2

\* Every step keeps both.
LEMMA SessionStep == SessionInv /\ [SessionNext]_<<part, vars, rows, pictures>> => SessionInv'
<1> SUFFICES ASSUME SessionInv, [SessionNext]_<<part, vars, rows, pictures>> PROVE SessionInv'
  OBVIOUS
<1>1. ASSUME part = "digest" PROVE DigestInv'
  <2>1. [DigestP!Next]_(DigestP!vars) BY <1>1, PartKept, DigestSteps
  <2>2. DigestInv BY <1>1 DEF SessionInv
  <2>3. DigestP!RowInv' BY <2>1, <2>2, Met, DigestP!RowStep DEF DigestInv
  <2>4. DigestP!PhoneInv' BY <2>1, <2>2, Met, DigestP!PhoneStep DEF DigestInv
  <2>5. DigestP!Sheet'
    BY <2>1, <2>2, Met, DigestP!SheetWorker, DigestP!SheetServer, DigestP!SheetStutter
       DEF DigestInv, DigestP!Next
  <2>6. NoRestart'
    BY <2>1, <2>2, RestartsNever DEF DigestInv, DigestP!RowInv, DigestP!Typing
  <2>7. QED BY <2>3, <2>4, <2>5, <2>6 DEF DigestInv
<1>2. ASSUME part = "worker" PROVE WorkerP!RowInv'
  <2>1. [WorkerP!Next]_(WorkerP!vars) BY <1>2, PartKept, WorkerSteps
  <2>2. WorkerP!RowInv BY <1>2 DEF SessionInv
  <2>3. QED BY <2>1, <2>2, Met, WorkerP!RowStep
<1>3. QED BY <1>1, <1>2, PartKept DEF SessionInv

\* In every behaviour both invariants hold.
LEMMA SessionAlways == SessionSpec => []SessionInv
BY SessionStart, SessionStep, PTL DEF SessionSpec

-----------------------------------------------------------------------------
(* The theorems.                                                           *)

\* In quiet states the worker, the row of the session list and the phone agree,
\* for any calls to visible and hidden tools, batched every way (store.ts,
\* foldDigest; model.ts, controlCancel).
THEOREM RowBadgeAndSheet == SessionSpec => []DigestInStep
<1>1. SessionInv => DigestInStep
  <2> SUFFICES ASSUME DigestInv PROVE Digest!RowIsNewestCall /\ Digest!BadgeNotStale /\ Digest!SheetIsLive
    BY DEF SessionInv, DigestInStep
  <2>1. DigestP!RowIsNewestCall BY DigestP!RowMeans DEF DigestInv, NoRestart
  <2>2. DigestP!BadgeNotStale BY DigestP!BadgeMeans DEF DigestInv
  <2>3. DigestP!SheetIsLive BY DigestP!SheetMeans DEF DigestInv, DigestP!RowInv
  <2>4. QED BY <2>1, <2>2, <2>3, DigestMeans
<1>2. QED BY <1>1, SessionAlways, PTL

\* Once a turn is over and the server was told, the row settles, and a turn the
\* server reports is one a reopened session offers to stop, with PostgreSQL and
\* whatever was lost, restarted, reopened or exited (store.ts, foldDigest settle;
\* model.ts, turnActiveIn).
THEOREM TurnsSettle == SessionSpec => []TurnSettles
<1>1. SessionInv => TurnSettles
  <2> SUFFICES ASSUME WorkerP!RowInv PROVE Worker!TypeOK /\ Worker!RowSettles /\ Worker!StopButtonOffered
    BY DEF SessionInv, TurnSettles
  <2>1. WorkerP!TypeOK /\ WorkerP!RowSettles /\ WorkerP!StopButtonOffered
    BY WorkerP!RowMeans DEF WorkerP!RowInv, WorkerP!Typing
  <2>2. QED BY <2>1, WorkerMeans
<1>2. QED BY <1>1, SessionAlways, PTL
================================================================================
