----------------------------- MODULE ClampProofs -----------------------------
(***************************************************************************)
(* Theorems about Clamp, for any texts, limits and numbers of blocks.      *)
(*                                                                         *)
(* AllText and Others are recursive functions over a result's blocks.  The *)
(* lemmas of the first part show that these exist and grow with the last   *)
(* block; a property of all numbers is the equality of two sets of them.   *)
(***************************************************************************)
EXTENDS Clamp, SequenceTheorems, WellFoundedInduction, TLAPS

(* Numbers. *)

LEMMA LeastNumber ==
  ASSUME NEW T \in SUBSET Nat, T /= {}
  PROVE  \E x \in T : \A y \in T : x <= y
<1>1. PICK x \in T : \A y \in T : <<y, x>> \notin OpToRel(<, Nat)
  BY WFMin, NatLessThanWellFounded
<1>2. \A y \in T : ~(y < x)
  BY <1>1 DEF OpToRel
<1>3. QED BY <1>2

(* Induction: a set with 0 that is closed under successors is Nat. *)
LEMMA AllNumbers ==
  ASSUME NEW S \in SUBSET Nat, 0 \in S, \A n \in S : n + 1 \in S
  PROVE  S = Nat
<1> SUFFICES ASSUME Nat \ S /= {} PROVE FALSE
  OBVIOUS
<1>1. PICK x \in Nat \ S : \A y \in Nat \ S : x <= y
  BY LeastNumber
<1>2. x - 1 \in S
  BY <1>1
<1>3. QED BY <1>1, <1>2

(* A bounded set of numbers has a greatest one. *)
LEMMA GreatestNumber ==
  ASSUME NEW n \in Nat, NEW T \in SUBSET (0..n), T /= {}
  PROVE  \E x \in T : \A y \in T : y <= x
<1> DEFINE rests == {n - y : y \in T}
<1>1. rests \in SUBSET Nat /\ rests /= {}
  <2>1. \A y \in T : n - y \in Nat
    OBVIOUS
  <2>2. PICK y \in T : TRUE
    OBVIOUS
  <2>3. n - y \in rests
    OBVIOUS
  <2>4. QED BY <2>1, <2>3
<1>2. PICK r \in rests : \A q \in rests : r <= q
  <2> HIDE DEF rests
  <2> QED BY <1>1, LeastNumber
<1>3. PICK x \in T : r = n - x
  OBVIOUS
<1>4. \A y \in T : n - x <= n - y
  BY <1>2, <1>3
<1>5. QED BY <1>4

-----------------------------------------------------------------------------
(* Joining sequences. *)

Byte == 0..4

(* f joins the first n members of s, one after the other. *)
Joins(f, s, n) ==
  f = [k \in 1..n |-> IF k = 1 THEN s[k] ELSE f[k - 1] \o s[k]]

LEMMA JoinFirst ==
  ASSUME NEW s, NEW n \in Nat, NEW f, Joins(f, s, n), n >= 1
  PROVE  f[1] = s[1]
BY DEF Joins

LEMMA JoinStep ==
  ASSUME NEW s, NEW n \in Nat, NEW f, Joins(f, s, n),
         NEW l \in 1..n, l /= 1
  PROVE  f[l] = f[l - 1] \o s[l]
BY DEF Joins

LEMMA JoinExists ==
  ASSUME NEW s, NEW n \in Nat
  PROVE  \E f : Joins(f, s, n)
<1> DEFINE S == {m \in Nat : \E f : Joins(f, s, m)}
<1>1. 0 \in S
  <2>1. Joins([k \in 1..0 |-> s[k]], s, 0)
    BY DEF Joins
  <2>2. QED BY <2>1
<1>2. ASSUME NEW m \in S PROVE m + 1 \in S
  <2>1. PICK f : Joins(f, s, m)
    OBVIOUS
  <2> DEFINE g == [k \in 1..m + 1 |->
                     IF k = m + 1 THEN IF k = 1 THEN s[k] ELSE f[m] \o s[k]
                     ELSE f[k]]
  <2>2. \A k \in 1..m + 1 : g[k] = IF k = 1 THEN s[k] ELSE g[k - 1] \o s[k]
    <3>1. \A k \in 1..m : f[k] = IF k = 1 THEN s[k] ELSE f[k - 1] \o s[k]
      BY <2>1 DEF Joins
    <3>2. \A k \in 1..m + 1 : k = m + 1 \/ k \in 1..m
      OBVIOUS
    <3>3. \A k \in 1..m + 1 : k /= 1 => k - 1 \in 1..m + 1 /\ k - 1 /= m + 1
      OBVIOUS
    <3>4. QED BY <3>1, <3>2, <3>3
  <2>3. Joins(g, s, m + 1)
    BY <2>2 DEF Joins
  <2>4. QED BY <2>3
<1>3. S = Nat
  <2> HIDE DEF S
  <2>1. S \in SUBSET Nat
    BY DEF S
  <2>2. QED BY <1>1, <1>2, <2>1, AllNumbers
<1>4. QED BY <1>3

(* What FlattenSeq chooses joins. *)
LEMMA FlattenJoins ==
  ASSUME NEW s, Len(s) \in Nat \ {0}
  PROVE  \E f : Joins(f, s, Len(s)) /\ FlattenSeq(s) = f[Len(s)]
<1> DEFINE f == CHOOSE f : Joins(f, s, Len(s))
<1>1. Joins(f, s, Len(s))
  BY JoinExists
<1>2. FlattenSeq(s) = f[Len(s)]
  BY DEF FlattenSeq, Joins
<1>3. QED BY <1>1, <1>2

(* Every sequence on the way is one of bytes. *)
LEMMA JoinType ==
  ASSUME NEW s \in Seq(Seq(Byte)), NEW f, Joins(f, s, Len(s))
  PROVE  \A k \in 1..Len(s) : f[k] \in Seq(Byte)
<1> DEFINE S == {m \in Nat : m \in 1..Len(s) => f[m] \in Seq(Byte)}
<1>1. Len(s) \in Nat
  OBVIOUS
<1>2. PICK n \in Nat : n = Len(s)
  OBVIOUS
<1>3. ASSUME NEW m \in S PROVE m + 1 \in S
  <2> SUFFICES ASSUME NEW l \in 1..Len(s), l = m + 1 PROVE f[l] \in Seq(Byte)
    OBVIOUS
  <2>1. s[l] \in Seq(Byte)
    OBVIOUS
  <2>2. CASE m = 0
    <3>1. Joins(f, s, n) /\ n >= 1 /\ l = 1
      BY <1>2, <2>2
    <3>2. f[1] = s[1]
      BY <3>1, JoinFirst
    <3>3. QED BY <2>1, <3>1, <3>2
  <2>3. CASE m > 0
    <3>1. f[m] \in Seq(Byte)
      BY <2>3
    <3>2. f[l] = f[m] \o s[l]
      <4>1. Joins(f, s, n) /\ l \in 1..n /\ l /= 1 /\ l - 1 = m
        BY <1>2, <2>3
      <4>2. f[l] = f[l - 1] \o s[l]
        BY <4>1, JoinStep
      <4>3. QED BY <4>1, <4>2
    <3>3. QED BY <2>1, <3>1, <3>2
  <2>4. QED BY <2>2, <2>3
<1>4. S = Nat
  <2>1. S \in SUBSET Nat /\ 0 \in S
    OBVIOUS
  <2> HIDE DEF S
  <2>2. QED BY <1>3, <2>1, AllNumbers
<1>5. QED BY <1>4

(* Two joins agree as far as what they join does. *)
Agree(s, t, n) == \A k \in 1..n : s[k] = t[k]

LEMMA JoinsAgree ==
  ASSUME NEW s, NEW t, NEW n \in Nat, NEW m \in Nat, n <= m,
         Agree(s, t, n), NEW f, Joins(f, s, n), NEW g, Joins(g, t, m)
  PROVE  Agree(f, g, n)
<1> DEFINE S == {k \in Nat : k \in 1..n => f[k] = g[k]}
<1>3. ASSUME NEW k \in S PROVE k + 1 \in S
  <2> SUFFICES ASSUME NEW l \in 1..n, l = k + 1 PROVE f[l] = g[l]
    OBVIOUS
  <2>1. s[l] = t[l]
    BY DEF Agree
  <2>2. CASE k = 0
    <3>1. n >= 1 /\ m >= 1 /\ l = 1
      BY <2>2
    <3>2. f[1] = s[1] /\ g[1] = t[1]
      BY <3>1, JoinFirst
    <3>3. QED BY <2>1, <3>1, <3>2
  <2>3. CASE k > 0
    <3>1. f[k] = g[k]
      BY <2>3
    <3>2. f[l] = f[k] \o s[l] /\ g[l] = g[k] \o t[l]
      <4>1. l \in 1..n /\ l \in 1..m /\ l /= 1 /\ l - 1 = k
        BY <2>3
      <4>2. f[l] = f[l - 1] \o s[l] /\ g[l] = g[l - 1] \o t[l]
        BY <4>1, JoinStep
      <4>3. QED BY <4>1, <4>2
    <3>3. QED BY <2>1, <3>1, <3>2
  <2>4. QED BY <2>2, <2>3
<1>4. S = Nat
  <2>1. S \in SUBSET Nat /\ 0 \in S
    OBVIOUS
  <2> HIDE DEF S
  <2>2. QED BY <1>3, <2>1, AllNumbers
<1>5. QED BY <1>4 DEF Agree

LEMMA FlattenEmpty == FlattenSeq(<<>>) = <<>>
BY DEF FlattenSeq

LEMMA FlattenAppend ==
  ASSUME NEW s \in Seq(Seq(Byte)), NEW t \in Seq(Byte)
  PROVE  /\ FlattenSeq(s) \in Seq(Byte)
         /\ FlattenSeq(Append(s, t)) = FlattenSeq(s) \o t
<1> DEFINE u == Append(s, t)
<1>1. /\ u \in Seq(Seq(Byte)) /\ Len(u) = Len(s) + 1 /\ Len(s) \in Nat
      /\ \A k \in 1..Len(s) : u[k] = s[k]
      /\ u[Len(s) + 1] = t
  OBVIOUS
<1> HIDE DEF u
<1>2. PICK n \in Nat : n = Len(s) + 1
  BY <1>1
<1>3. PICK g : Joins(g, u, n) /\ FlattenSeq(u) = g[n]
  <2>1. Len(u) \in Nat \ {0} /\ Len(u) = n
    BY <1>1, <1>2
  <2>2. QED BY <1>2, <2>1, FlattenJoins
<1>4. g[n] = IF Len(s) = 0 THEN t ELSE g[Len(s)] \o t
  <2>1. u[n] = t
    BY <1>1, <1>2
  <2>2. CASE Len(s) = 0
    <3>1. n = 1
      BY <1>2, <2>2
    <3>2. g[1] = u[1]
      BY <1>3, <3>1, JoinFirst
    <3>3. QED BY <2>1, <2>2, <3>1, <3>2
  <2>3. CASE Len(s) /= 0
    <3>1. n \in 1..n /\ n /= 1 /\ n - 1 = Len(s)
      BY <1>1, <1>2, <2>3
    <3>2. g[n] = g[n - 1] \o u[n]
      BY <1>3, <3>1, JoinStep
    <3>3. QED BY <2>1, <2>3, <3>1, <3>2
  <2>4. QED BY <2>2, <2>3
<1>5. CASE Len(s) = 0
  <2>1. s = <<>>
    BY <1>5
  <2>2. FlattenSeq(s) = <<>> /\ <<>> \o t = t
    BY <2>1, FlattenEmpty
  <2>3. QED BY <1>3, <1>4, <1>5, <2>2 DEF u
<1>6. CASE Len(s) /= 0
  <2>1. Len(s) \in Nat \ {0}
    BY <1>1, <1>6
  <2>2. PICK f : Joins(f, s, Len(s)) /\ FlattenSeq(s) = f[Len(s)]
    BY <2>1, FlattenJoins
  <2>3. f[Len(s)] \in Seq(Byte)
    BY <2>1, <2>2, JoinType
  <2>4. f[Len(s)] = g[Len(s)]
    <3>1. Len(s) \in Nat /\ Len(s) <= n
      BY <1>1, <1>2
    <3>2. \A k \in 1..Len(s) : s[k] = u[k]
      BY <1>1
    <3>3. \A k \in 1..Len(s) : f[k] = g[k]
      <4>1. PICK m \in Nat : m = Len(s)
        BY <3>1
      <4>2. /\ m \in Nat /\ n \in Nat /\ m <= n /\ Joins(f, s, m) /\ Joins(g, u, n)
            /\ Agree(s, u, m)
        BY <1>3, <2>2, <3>1, <3>2, <4>1 DEF Agree
      <4>3. Agree(f, g, m)
        BY <4>2, JoinsAgree
      <4>4. QED BY <4>1, <4>3 DEF Agree
    <3>4. QED BY <2>1, <3>3
  <2>5. QED BY <1>3, <1>4, <1>6, <2>2, <2>3, <2>4 DEF u
<1>7. QED BY <1>5, <1>6

(* What a block of a result, or of an answer, can be. *)
Kept == [kind : {"text", "other", "notice"}, text : Seq(Byte)]

LEMMA AllTextAppend ==
  ASSUME NEW blocks \in Seq(Kept), NEW b \in Kept
  PROVE  /\ AllText(blocks) \in Seq(Byte)
         /\ AllText(Append(blocks, b)) = AllText(blocks) \o b.text
         /\ AllText(<<>>) = <<>>
<1> DEFINE texts(bs) == [k \in DOMAIN bs |-> bs[k].text]
<1>1. texts(blocks) \in Seq(Seq(Byte)) /\ b.text \in Seq(Byte)
  <2>1. /\ DOMAIN blocks = 1..Len(blocks) /\ Len(blocks) \in Nat
        /\ \A k \in 1..Len(blocks) : blocks[k] \in Kept
    OBVIOUS
  <2>2. \A k \in 1..Len(blocks) : blocks[k].text \in Seq(Byte)
    BY <2>1 DEF Kept
  <2>3. texts(blocks) \in [1..Len(blocks) -> Seq(Byte)]
    BY <2>1, <2>2
  <2>4. \A S, n : n \in Nat => [1..n -> S] \subseteq Seq(S)
    OBVIOUS
  <2>5. b.text \in Seq(Byte)
    BY DEF Kept
  <2> HIDE DEF texts
  <2>6. QED BY <2>1, <2>3, <2>4, <2>5
<1>2. texts(Append(blocks, b)) = Append(texts(blocks), b.text)
  <2>1. DOMAIN Append(blocks, b) = 1..Len(blocks) + 1
    OBVIOUS
  <2>2. /\ Len(texts(blocks)) = Len(blocks)
        /\ DOMAIN Append(texts(blocks), b.text) = 1..Len(blocks) + 1
    BY <1>1
  <2>3. \A k \in 1..Len(blocks) + 1 :
          texts(Append(blocks, b))[k] = Append(texts(blocks), b.text)[k]
    BY <1>1, <2>1, <2>2
  <2>4. QED
    BY <1>1, <2>1, <2>2, <2>3
<1>3. texts(<<>>) = <<>>
  OBVIOUS
<1> HIDE DEF texts
<1>4. QED BY <1>1, <1>2, <1>3, FlattenAppend, FlattenEmpty DEF AllText, texts

-----------------------------------------------------------------------------
(* The blocks that are not text. *)

(* f collects them over the first n blocks. *)
Collects(f, blocks, n) ==
  f = [k \in 0..n |->
         IF k = 0 THEN <<>>
         ELSE IF blocks[k].kind = "text" THEN f[k - 1]
         ELSE Append(f[k - 1], blocks[k])]

LEMMA CollectNone ==
  ASSUME NEW blocks, NEW n \in Nat, NEW f, Collects(f, blocks, n)
  PROVE  f[0] = <<>>
BY DEF Collects

LEMMA CollectStep ==
  ASSUME NEW blocks, NEW n \in Nat, NEW f, Collects(f, blocks, n),
         NEW l \in 1..n
  PROVE  f[l] = IF blocks[l].kind = "text" THEN f[l - 1]
                ELSE Append(f[l - 1], blocks[l])
<1>1. \A k \in 0..n : f[k] = IF k = 0 THEN <<>>
                            ELSE IF blocks[k].kind = "text" THEN f[k - 1]
                            ELSE Append(f[k - 1], blocks[k])
  BY DEF Collects
<1>2. l \in 0..n /\ l /= 0
  OBVIOUS
<1>3. QED BY <1>1, <1>2

LEMMA CollectExists ==
  ASSUME NEW blocks, NEW n \in Nat
  PROVE  \E f : Collects(f, blocks, n)
<1> DEFINE S == {m \in Nat : \E f : Collects(f, blocks, m)}
<1>1. 0 \in S
  <2>1. Collects([k \in 0..0 |-> <<>>], blocks, 0)
    BY DEF Collects
  <2>2. QED BY <2>1
<1>2. ASSUME NEW m \in S PROVE m + 1 \in S
  <2>1. PICK f : Collects(f, blocks, m)
    OBVIOUS
  <2> DEFINE g == [k \in 0..m + 1 |->
                     IF k = m + 1
                     THEN IF blocks[k].kind = "text" THEN f[m]
                          ELSE Append(f[m], blocks[k])
                     ELSE f[k]]
  <2>2. \A k \in 0..m + 1 :
          g[k] = IF k = 0 THEN <<>>
                 ELSE IF blocks[k].kind = "text" THEN g[k - 1]
                 ELSE Append(g[k - 1], blocks[k])
    <3>1. \A k \in 0..m :
            f[k] = IF k = 0 THEN <<>>
                   ELSE IF blocks[k].kind = "text" THEN f[k - 1]
                   ELSE Append(f[k - 1], blocks[k])
      BY <2>1 DEF Collects
    <3>2. \A k \in 0..m + 1 : k = m + 1 \/ k \in 0..m
      OBVIOUS
    <3>3. \A k \in 0..m + 1 : k /= 0 => k - 1 \in 0..m + 1 /\ k - 1 /= m + 1
      OBVIOUS
    <3>4. QED BY <3>1, <3>2, <3>3
  <2>3. Collects(g, blocks, m + 1)
    BY <2>2 DEF Collects
  <2>4. QED BY <2>3
<1>3. S = Nat
  <2> HIDE DEF S
  <2>1. S \in SUBSET Nat
    BY DEF S
  <2>2. QED BY <1>1, <1>2, <2>1, AllNumbers
<1>4. QED BY <1>3

LEMMA OthersCollects ==
  ASSUME NEW blocks, Len(blocks) \in Nat
  PROVE  \E f : Collects(f, blocks, Len(blocks)) /\ Others(blocks) = f[Len(blocks)]
<1> DEFINE f == CHOOSE f : Collects(f, blocks, Len(blocks))
<1>1. Collects(f, blocks, Len(blocks))
  BY CollectExists
<1>2. Others(blocks) = f[Len(blocks)]
  BY DEF Others, Collects
<1>3. QED BY <1>1, <1>2

LEMMA CollectType ==
  ASSUME NEW blocks \in Seq(Kept), NEW f, Collects(f, blocks, Len(blocks))
  PROVE  \A k \in 0..Len(blocks) : f[k] \in Seq(Kept)
<1> DEFINE S == {m \in Nat : m \in 0..Len(blocks) => f[m] \in Seq(Kept)}
<1>1. PICK n \in Nat : n = Len(blocks)
  OBVIOUS
<1>2. 0 \in S
  <2>1. f[0] = <<>>
    BY <1>1, CollectNone
  <2>2. <<>> \in Seq(Kept)
    OBVIOUS
  <2>3. f[0] \in Seq(Kept)
    BY <2>1, <2>2
  <2>4. QED BY <2>3
<1>3. ASSUME NEW m \in S PROVE m + 1 \in S
  <2> SUFFICES ASSUME NEW l \in 1..n, l = m + 1 PROVE f[l] \in Seq(Kept)
    BY <1>1
  <2>1. blocks[l] \in Kept /\ Collects(f, blocks, n) /\ l - 1 = m
    BY <1>1
  <2>2. f[m] \in Seq(Kept)
    BY <1>1
  <2>3. f[l] = IF blocks[l].kind = "text" THEN f[l - 1]
               ELSE Append(f[l - 1], blocks[l])
    BY <2>1, CollectStep
  <2>4. QED BY <2>1, <2>2, <2>3
<1>4. S = Nat
  <2>1. S \in SUBSET Nat
    OBVIOUS
  <2> HIDE DEF S
  <2>2. QED BY <1>2, <1>3, <2>1, AllNumbers
<1>5. QED BY <1>4

LEMMA CollectsAgree ==
  ASSUME NEW s, NEW t, NEW n \in Nat, NEW m \in Nat, n <= m,
         Agree(s, t, n), NEW f, Collects(f, s, n), NEW g, Collects(g, t, m)
  PROVE  f[n] = g[n]
<1> DEFINE S == {k \in Nat : k \in 0..n => f[k] = g[k]}
<1>1. 0 \in S
  BY CollectNone
<1>2. ASSUME NEW k \in S PROVE k + 1 \in S
  <2> SUFFICES ASSUME NEW l \in 1..n, l = k + 1 PROVE f[l] = g[l]
    OBVIOUS
  <2>1. s[l] = t[l] /\ f[k] = g[k]
    BY DEF Agree
  <2>2. l \in 1..n /\ l \in 1..m /\ l - 1 = k
    OBVIOUS
  <2>3. /\ f[l] = IF s[l].kind = "text" THEN f[l - 1] ELSE Append(f[l - 1], s[l])
        /\ g[l] = IF t[l].kind = "text" THEN g[l - 1] ELSE Append(g[l - 1], t[l])
    BY <2>2, CollectStep
  <2>4. QED BY <2>1, <2>2, <2>3
<1>3. S = Nat
  <2>1. S \in SUBSET Nat
    OBVIOUS
  <2> HIDE DEF S
  <2>2. QED BY <1>1, <1>2, <2>1, AllNumbers
<1>4. QED BY <1>3

LEMMA OthersEmpty == Others(<<>>) = <<>>
<1>1. PICK f : Collects(f, <<>>, 0) /\ Others(<<>>) = f[0]
  BY OthersCollects
<1>2. QED BY <1>1, CollectNone

LEMMA OthersAppend ==
  ASSUME NEW blocks \in Seq(Kept), NEW b \in Kept
  PROVE  /\ Others(blocks) \in Seq(Kept)
         /\ Others(Append(blocks, b)) =
              IF b.kind = "text" THEN Others(blocks)
              ELSE Append(Others(blocks), b)
<1> DEFINE more == Append(blocks, b)
<1>1. /\ Len(more) = Len(blocks) + 1 /\ Len(blocks) \in Nat
      /\ \A k \in 1..Len(blocks) : more[k] = blocks[k]
      /\ more[Len(blocks) + 1] = b
  OBVIOUS
<1> HIDE DEF more
<1>2. PICK n \in Nat, l \in Nat : n = Len(blocks) /\ l = n + 1
  BY <1>1
<1>3. PICK g : Collects(g, more, l) /\ Others(more) = g[l]
  <2>1. Len(more) \in Nat /\ Len(more) = l
    BY <1>1, <1>2
  <2>2. QED BY <2>1, OthersCollects
<1>4. PICK f : Collects(f, blocks, n) /\ Others(blocks) = f[n]
  BY <1>2, OthersCollects
<1>5. g[l] = IF b.kind = "text" THEN g[n] ELSE Append(g[n], b)
  <2>1. l \in 1..l /\ l - 1 = n /\ more[l] = b
    BY <1>1, <1>2
  <2>2. g[l] = IF more[l].kind = "text" THEN g[l - 1]
               ELSE Append(g[l - 1], more[l])
    BY <1>3, <2>1, CollectStep
  <2>3. QED BY <2>1, <2>2
<1>6. f[n] = g[n]
  <2>1. Agree(blocks, more, n) /\ n <= l
    BY <1>1, <1>2 DEF Agree
  <2>2. QED BY <1>3, <1>4, <2>1, CollectsAgree
<1>7. f[n] \in Seq(Kept)
  BY <1>2, <1>4, CollectType
<1>8. QED BY <1>3, <1>4, <1>5, <1>6, <1>7 DEF more

-----------------------------------------------------------------------------
(* Texts. *)

LEMMA ConcatValid ==
  ASSUME NEW s \in Seq(Byte), NEW t \in Seq(Byte),
         ValidString(s), ValidString(t)
  PROVE  ValidString(s \o t)
<1> DEFINE u == s \o t
           m == Len(s)
<1>1. /\ u \in Seq(Byte) /\ m \in Nat /\ Len(t) \in Nat
      /\ Len(u) = m + Len(t) /\ DOMAIN u = 1..Len(u)
      /\ DOMAIN s = 1..m /\ DOMAIN t = 1..Len(t)
      /\ \A k \in 1..m : u[k] = s[k] /\ s[k] \in Byte
      /\ \A k \in 1..Len(t) : u[m + k] = t[k] /\ t[k] \in Byte
  OBVIOUS
<1>2. /\ \A k \in 1..m :
            IF s[k] > 0
            THEN /\ k + s[k] - 1 <= m
                 /\ \A j \in k + 1 .. k + s[k] - 1 : s[j] = 0
            ELSE \E j \in 1 .. k - 1 : s[j] > 0 /\ j + s[j] - 1 >= k
      /\ \A k \in 1..Len(t) :
            IF t[k] > 0
            THEN /\ k + t[k] - 1 <= Len(t)
                 /\ \A j \in k + 1 .. k + t[k] - 1 : t[j] = 0
            ELSE \E j \in 1 .. k - 1 : t[j] > 0 /\ j + t[j] - 1 >= k
  BY <1>1 DEF ValidString
<1> HIDE DEF u, m
<1> SUFFICES ASSUME NEW k \in 1..Len(u)
             PROVE  IF u[k] > 0
                    THEN /\ k + u[k] - 1 <= Len(u)
                         /\ \A j \in k + 1 .. k + u[k] - 1 : u[j] = 0
                    ELSE \E j \in 1 .. k - 1 : u[j] > 0 /\ j + u[j] - 1 >= k
  BY <1>1 DEF ValidString, u
<1>3. CASE k <= m
  <2>1. k \in 1..m /\ u[k] = s[k] /\ s[k] \in Nat
    BY <1>1, <1>3 DEF Byte
  <2>2. CASE s[k] > 0
    <3>1. k + s[k] - 1 <= m /\ \A j \in k + 1 .. k + s[k] - 1 : s[j] = 0
      BY <1>2, <2>1, <2>2
    <3>2. \A j \in k + 1 .. k + s[k] - 1 : j \in 1..m
      BY <1>1, <2>1, <3>1
    <3>3. \A j \in k + 1 .. k + s[k] - 1 : u[j] = 0
      BY <1>1, <3>1, <3>2
    <3>4. QED BY <1>1, <2>1, <2>2, <3>1, <3>3
  <2>3. CASE ~(s[k] > 0)
    <3>1. PICK j \in 1 .. k - 1 : s[j] > 0 /\ j + s[j] - 1 >= k
      BY <1>2, <2>1, <2>3
    <3>2. j \in 1..m
      BY <1>1, <1>3, <2>1
    <3>3. u[j] = s[j]
      BY <1>1, <3>2
    <3>4. QED BY <2>1, <2>3, <3>1, <3>3
  <2>4. QED BY <2>2, <2>3
<1>4. CASE k > m
  <2>1. PICK l \in 1..Len(t) : k = m + l
    <3>1. k - m \in 1..Len(t) /\ k = m + (k - m)
      BY <1>1, <1>4
    <3>2. QED BY <3>1
  <2>2. u[k] = t[l] /\ t[l] \in Nat
    BY <1>1, <2>1 DEF Byte
  <2>3. CASE t[l] > 0
    <3>1. l + t[l] - 1 <= Len(t) /\ \A j \in l + 1 .. l + t[l] - 1 : t[j] = 0
      BY <1>2, <2>3
    <3>2. ASSUME NEW j \in k + 1 .. k + t[l] - 1 PROVE u[j] = 0
      <4>1. PICK h \in l + 1 .. l + t[l] - 1 : h \in 1..Len(t) /\ j = m + h
        <5>1. j - m \in l + 1 .. l + t[l] - 1 /\ j - m \in 1..Len(t)
              /\ j = m + (j - m)
          BY <1>1, <2>1, <2>2, <3>1
        <5>2. QED BY <5>1
      <4>2. QED BY <1>1, <3>1, <4>1
    <3>3. k + t[l] - 1 <= Len(u)
      BY <1>1, <2>1, <2>2, <3>1
    <3>4. QED BY <2>2, <2>3, <3>2, <3>3
  <2>4. CASE ~(t[l] > 0)
    <3>1. PICK h \in 1 .. l - 1 : t[h] > 0 /\ h + t[h] - 1 >= l
      BY <1>2, <2>4
    <3>2. h \in 1..Len(t) /\ m + h \in 1 .. k - 1
      BY <1>1, <2>1
    <3>3. u[m + h] = t[h] /\ t[h] \in Nat
      <4>1. u[m + h] = t[h] /\ t[h] \in Byte
        BY <1>1, <3>2
      <4>2. QED BY <4>1 DEF Byte
    <3>4. u[m + h] > 0 /\ (m + h) + u[m + h] - 1 >= k
      BY <1>1, <2>1, <3>1, <3>3
    <3>5. QED BY <2>2, <2>4, <3>2, <3>4
  <2>5. QED BY <2>3, <2>4
<1>5. QED BY <1>1, <1>3, <1>4

LEMMA EmptyValid == ValidString(<<>>)
BY DEF ValidString

(* Behind a valid beginning stands the first byte of a rune ... *)
LEMMA RuneStarts ==
  ASSUME NEW s \in Seq(Byte), ValidString(s), NEW k \in 0..Len(s), k < Len(s),
         ValidString(SubSeq(s, 1, k))
  PROVE  s[k + 1] \in Nat /\ s[k + 1] > 0
<1> DEFINE u == SubSeq(s, 1, k)
<1>1. /\ u \in Seq(Byte) /\ Len(u) = k /\ DOMAIN u = 1..k /\ DOMAIN s = 1..Len(s)
      /\ \A j \in 1..k : u[j] = s[j]
      /\ \A j \in 1..Len(s) : s[j] \in Nat
      /\ k + 1 \in 1..Len(s) /\ k \in Nat
  BY DEF Byte
<1> HIDE DEF u
<1> SUFFICES ASSUME ~(s[k + 1] > 0) PROVE FALSE
  BY <1>1
<1>2. PICK j \in 1..k : s[j] > 0 /\ j + s[j] - 1 >= k + 1
  <2>1. PICK j \in 1 .. (k + 1) - 1 : s[j] > 0 /\ j + s[j] - 1 >= k + 1
    BY <1>1 DEF ValidString
  <2>2. QED BY <1>1, <2>1
<1>3. u[j] = s[j] /\ u[j] > 0
  BY <1>1, <1>2
<1>4. j + u[j] - 1 <= k
  BY <1>1, <1>3 DEF ValidString, u
<1>5. s[j] \in Nat
  BY <1>1
<1>6. QED BY <1>2, <1>3, <1>4, <1>5

(* ... and with that rune the beginning is valid again. *)
LEMMA RuneEnds ==
  ASSUME NEW s \in Seq(Byte), ValidString(s), NEW k \in 0..Len(s), k < Len(s),
         ValidString(SubSeq(s, 1, k)),
         NEW n \in Nat, n = k + s[k + 1]
  PROVE  n <= Len(s) /\ ValidString(SubSeq(s, 1, n))
<1> DEFINE u == SubSeq(s, 1, k)
           v == SubSeq(s, 1, n)
<1>1. s[k + 1] \in Nat /\ s[k + 1] > 0
  BY RuneStarts
<1>2. /\ Len(s) \in Nat /\ DOMAIN s = 1..Len(s)
      /\ k \in Nat /\ k + 1 \in 1..Len(s)
      /\ \A j \in 1..Len(s) : s[j] \in Nat
  BY DEF Byte
<1>3. /\ k + 1 + s[k + 1] - 1 <= Len(s)
      /\ \A j \in k + 1 + 1 .. k + 1 + s[k + 1] - 1 : s[j] = 0
  BY <1>1, <1>2 DEF ValidString
<1>4. n <= Len(s) /\ \A j \in k + 2 .. n : s[j] = 0
  BY <1>1, <1>2, <1>3
<1>5. /\ Len(u) = k /\ DOMAIN u = 1..k /\ \A j \in 1..k : u[j] = s[j]
      /\ Len(v) = n /\ DOMAIN v = 1..n /\ \A j \in 1..n : v[j] = s[j]
  BY <1>2, <1>4
<1>6. \A j \in 1..k : IF u[j] > 0
                     THEN /\ j + u[j] - 1 <= k
                          /\ \A h \in j + 1 .. j + u[j] - 1 : u[h] = 0
                     ELSE \E h \in 1 .. j - 1 : u[h] > 0 /\ h + u[h] - 1 >= j
  BY <1>5 DEF ValidString
<1> HIDE DEF u, v
<1>7. ASSUME NEW j \in 1..n
      PROVE  IF v[j] > 0
             THEN /\ j + v[j] - 1 <= n
                  /\ \A h \in j + 1 .. j + v[j] - 1 : v[h] = 0
             ELSE \E h \in 1 .. j - 1 : v[h] > 0 /\ h + v[h] - 1 >= j
  <2>1. CASE j <= k
    <3>1. j \in 1..k /\ u[j] = s[j] /\ v[j] = s[j] /\ s[j] \in Nat
      BY <1>2, <1>4, <1>5, <2>1
    <3>2. CASE s[j] > 0
      <4>1. j + s[j] - 1 <= k /\ \A h \in j + 1 .. j + s[j] - 1 : u[h] = 0
        BY <1>6, <3>1, <3>2
      <4>2. \A h \in j + 1 .. j + s[j] - 1 : h \in 1..k /\ h \in 1..n
        BY <1>1, <1>2, <3>1, <4>1
      <4>3. \A h \in j + 1 .. j + s[j] - 1 : v[h] = 0
        BY <1>5, <4>1, <4>2
      <4>4. QED BY <1>1, <1>2, <3>1, <3>2, <4>1, <4>3
    <3>3. CASE ~(s[j] > 0)
      <4>1. PICK h \in 1 .. j - 1 : u[h] > 0 /\ h + u[h] - 1 >= j
        BY <1>6, <3>1, <3>3
      <4>2. h \in 1..k /\ h \in 1..n
        BY <1>1, <1>2, <3>1
      <4>3. u[h] = v[h]
        BY <1>5, <4>2
      <4>4. QED BY <3>1, <3>3, <4>1, <4>3
    <3>4. QED BY <3>2, <3>3
  <2>2. CASE j = k + 1
    <3>1. v[j] = s[k + 1]
      BY <1>5, <2>2
    <3>2. \A h \in j + 1 .. j + v[j] - 1 : h \in k + 2 .. n /\ h \in 1..n
      BY <1>1, <1>2, <2>2, <3>1
    <3>3. \A h \in j + 1 .. j + v[j] - 1 : v[h] = 0
      BY <1>4, <1>5, <3>2
    <3>4. QED BY <1>1, <1>2, <2>2, <3>1, <3>3
  <2>3. CASE j > k + 1
    <3>1. v[j] = 0
      <4>1. j \in k + 2 .. n
        BY <1>2, <2>3
      <4>2. QED BY <1>4, <1>5, <4>1
    <3>2. k + 1 \in 1 .. j - 1 /\ k + 1 \in 1..n
      BY <1>2, <2>3
    <3>3. v[k + 1] = s[k + 1]
      BY <1>5, <3>2
    <3>4. v[k + 1] > 0 /\ (k + 1) + v[k + 1] - 1 >= j
      BY <1>1, <1>2, <3>3
    <3>5. QED BY <3>1, <3>2, <3>4
  <2>4. QED BY <1>2, <2>1, <2>2, <2>3
<1>8. ValidString(v)
  BY <1>5, <1>7 DEF ValidString
<1>9. QED BY <1>4, <1>8 DEF v

(* truncateUTF8 returns whole runes, and the next one would be too many. *)
LEMMA TruncateLongest ==
  ASSUME NEW s \in Seq(Byte), ValidString(s), NEW n \in Nat, n < Len(s)
  PROVE  \E k \in 0..n : /\ TruncateUTF8(s, n) = SubSeq(s, 1, k)
                         /\ ValidString(SubSeq(s, 1, k))
                         /\ s[k + 1] \in Nat /\ k + s[k + 1] > n
<1> DEFINE Longest(k) == /\ ValidString(SubSeq(s, 1, k))
                         /\ \A l \in k + 1 .. n : ~ValidString(SubSeq(s, 1, l))
           T == {k \in 0..n : ValidString(SubSeq(s, 1, k))}
<1>1. \E k \in 0..n : Longest(k)
  <2>1. SubSeq(s, 1, 0) = <<>>
    OBVIOUS
  <2>2. 0 \in T
    <3>1. ValidString(SubSeq(s, 1, 0))
      BY <2>1, EmptyValid
    <3>2. QED BY <3>1
  <2>3. PICK k \in T : \A l \in T : l <= k
    <3> HIDE DEF T
    <3>1. T \in SUBSET (0..n)
      BY DEF T
    <3>2. QED BY <2>2, <3>1, GreatestNumber
  <2>4. ASSUME NEW l \in k + 1 .. n PROVE ~ValidString(SubSeq(s, 1, l))
    <3>1. l \in 0..n /\ ~(l <= k)
      OBVIOUS
    <3>2. l \notin T
      BY <2>3, <3>1
    <3>3. QED BY <3>1, <3>2
  <2>5. QED BY <2>4
<1> DEFINE k == CHOOSE k \in 0..n : Longest(k)
<1>2. k \in 0..n /\ Longest(k)
  <2> HIDE DEF Longest
  <2> QED BY <1>1
<1>3. TruncateUTF8(s, n) = SubSeq(s, 1, k)
  BY DEF TruncateUTF8
<1> HIDE DEF k
<1>4. k \in 0..Len(s) /\ k < Len(s) /\ k \in Nat
  BY <1>2
<1>5. s[k + 1] \in Nat /\ s[k + 1] > 0
  BY <1>2, <1>4, RuneStarts
<1>6. k + s[k + 1] > n
  <2> SUFFICES ASSUME ~(k + s[k + 1] > n) PROVE FALSE
    OBVIOUS
  <2>1. PICK l \in Nat : l = k + s[k + 1]
    BY <1>4, <1>5
  <2>2. ValidString(SubSeq(s, 1, l))
    BY <1>2, <1>4, <2>1, RuneEnds
  <2>3. l \in k + 1 .. n
    BY <1>4, <1>5, <2>1
  <2>4. QED BY <1>2, <2>2, <2>3
<1>7. QED BY <1>2, <1>3, <1>5, <1>6

-----------------------------------------------------------------------------
(* The budget. *)

(* Of the text `passed` so far `kept` was kept: all of it, with `left` of  *)
(* the budget to spend; or the budget is spent, and rightly.               *)
Budgeted(kept, passed, left, max) ==
  /\ ValidString(kept) /\ Len(kept) <= max
  /\ \/ kept = passed /\ left = max - Len(kept)
     \/ /\ left = 0 /\ IsStrictPrefix(kept, passed)
        /\ Len(kept) + passed[Len(kept) + 1] > max

(* A beginning of what follows is a strict prefix, if it is not all of it. *)
LEMMA BeginningIsPrefix ==
  ASSUME NEW s \in Seq(Byte), NEW t \in Seq(Byte), NEW k \in 0..Len(t), k < Len(t)
  PROVE  /\ IsStrictPrefix(s \o SubSeq(t, 1, k), s \o t)
         /\ Len(s \o SubSeq(t, 1, k)) = Len(s) + k
         /\ (s \o t)[Len(s) + k + 1] = t[k + 1]
<1> DEFINE a == s \o SubSeq(t, 1, k)
           b == s \o t
<1>1. /\ a \in Seq(Byte) /\ Len(a) = Len(s) + k /\ Len(s) \in Nat /\ k \in Nat
      /\ \A j \in 1..Len(s) : a[j] = s[j]
      /\ \A j \in 1..k : a[Len(s) + j] = t[j]
  OBVIOUS
<1>2. /\ b \in Seq(Byte) /\ Len(b) = Len(s) + Len(t) /\ Len(t) \in Nat
      /\ \A j \in 1..Len(s) : b[j] = s[j]
      /\ \A j \in 1..Len(t) : b[Len(s) + j] = t[j]
  OBVIOUS
<1> HIDE DEF a, b
<1>3. ASSUME NEW j \in 1..Len(a) PROVE a[j] = b[j]
  <2>1. CASE j <= Len(s)
    BY <1>1, <1>2, <2>1
  <2>2. CASE j > Len(s)
    <3>1. PICK h \in 1..k : j = Len(s) + h
      <4>1. j - Len(s) \in 1..k /\ j = Len(s) + (j - Len(s))
        BY <1>1, <2>2
      <4>2. QED BY <4>1
    <3>2. h \in 1..Len(t)
      BY <1>1, <1>2
    <3>3. QED BY <1>1, <1>2, <3>1, <3>2
  <2>3. QED BY <1>1, <2>1, <2>2
<1>4. SubSeq(b, 1, Len(a)) = a /\ SubSeq(a, 1, Len(a)) = a
  <2>1. Len(a) \in Nat /\ Len(a) <= Len(b)
    BY <1>1, <1>2
  <2>2. /\ SubSeq(b, 1, Len(a)) \in Seq(Byte) /\ Len(SubSeq(b, 1, Len(a))) = Len(a)
        /\ \A j \in 1..Len(a) : SubSeq(b, 1, Len(a))[j] = b[j]
    BY <1>2, <2>1
  <2>3. \A j \in 1..Len(a) : SubSeq(b, 1, Len(a))[j] = a[j]
    BY <1>3, <2>2
  <2>4. QED BY <1>1, <2>2, <2>3
<1>5. IsStrictPrefix(a, b)
  BY <1>1, <1>2, <1>4 DEF IsStrictPrefix, IsPrefix
<1>6. b[Len(s) + k + 1] = t[k + 1]
  <2>1. k + 1 \in 1..Len(t) /\ Len(s) + k + 1 = Len(s) + (k + 1)
    BY <1>1
  <2>2. QED BY <1>2, <2>1
<1>7. QED BY <1>1, <1>5, <1>6 DEF a, b

(* A strict prefix stays one, with the same next byte, when text follows. *)
LEMMA PrefixExtended ==
  ASSUME NEW kept \in Seq(Byte), NEW s \in Seq(Byte), NEW t \in Seq(Byte),
         IsStrictPrefix(kept, s)
  PROVE  /\ IsStrictPrefix(kept, s \o t)
         /\ (s \o t)[Len(kept) + 1] = s[Len(kept) + 1]
<1> DEFINE b == s \o t
<1>1. Len(kept) <= Len(s) /\ SubSeq(kept, 1, Len(kept)) = SubSeq(s, 1, Len(kept)) /\ kept /= s
  BY DEF IsStrictPrefix, IsPrefix
<1>2. /\ b \in Seq(Byte) /\ Len(b) = Len(s) + Len(t) /\ Len(t) \in Nat
      /\ Len(s) \in Nat /\ Len(kept) \in Nat
      /\ \A j \in 1..Len(s) : b[j] = s[j]
  OBVIOUS
<1>3. SubSeq(kept, 1, Len(kept)) = kept /\ SubSeq(s, 1, Len(s)) = s
  OBVIOUS
<1>4. Len(kept) < Len(s)
  BY <1>1, <1>2, <1>3
<1> HIDE DEF b
<1>5. SubSeq(b, 1, Len(kept)) = SubSeq(s, 1, Len(kept))
  BY <1>2, <1>4
<1>6. IsStrictPrefix(kept, b)
  BY <1>1, <1>2, <1>4, <1>5 DEF IsStrictPrefix, IsPrefix
<1>7. b[Len(kept) + 1] = s[Len(kept) + 1]
  BY <1>2, <1>4
<1>8. QED BY <1>6, <1>7 DEF b

(* With the budget spent the next text can be left out ... *)
LEMMA DropRight ==
  ASSUME NEW kept \in Seq(Byte), NEW passed \in Seq(Byte), NEW max \in Int,
         NEW left \in Nat, Budgeted(kept, passed, left, max),
         NEW t \in Seq(Byte), ValidString(t), left <= 0
  PROVE  Budgeted(kept, passed \o t, left, max)
<1>1. CASE kept = passed /\ left = max - Len(kept)
  <2>1. Len(kept) \in Nat /\ Len(kept) = max
    BY <1>1
  <2>2. CASE t = <<>>
    <3>1. passed \o t = passed
      BY <2>2
    <3>2. QED BY <3>1
  <2>3. CASE t /= <<>>
    <3>1. 0 \in 0..Len(t) /\ 0 < Len(t)
      BY <2>3
    <3>2. SubSeq(t, 1, 0) = <<>>
      OBVIOUS
    <3>3. kept \o <<>> = kept
      OBVIOUS
    <3>4. IsStrictPrefix(kept, kept \o t) /\ (kept \o t)[Len(kept) + 0 + 1] = t[0 + 1]
      BY <3>1, <3>2, <3>3, BeginningIsPrefix
    <3>5. ValidString(SubSeq(t, 1, 0))
      BY <3>2, EmptyValid
    <3>6. t[0 + 1] \in Nat /\ t[0 + 1] > 0
      BY <3>1, <3>5, RuneStarts
    <3>7. Len(kept) + (kept \o t)[Len(kept) + 1] > max
      <4>1. 0 + 1 = 1 /\ Len(kept) + 0 + 1 = Len(kept) + 1
        BY <2>1
      <4>2. (kept \o t)[Len(kept) + 1] = t[1] /\ t[1] \in Nat /\ t[1] > 0
        BY <3>4, <3>6, <4>1
      <4>3. QED BY <2>1, <4>2
    <3>8. QED BY <1>1, <3>4, <3>7 DEF Budgeted
  <2>4. QED BY <2>2, <2>3
<1>2. CASE /\ left = 0 /\ IsStrictPrefix(kept, passed)
           /\ Len(kept) + passed[Len(kept) + 1] > max
  BY <1>2, PrefixExtended DEF Budgeted
<1>3. QED BY <1>1, <1>2 DEF Budgeted

(* ... with room for it, it is kept ... *)
LEMMA KeepRight ==
  ASSUME NEW kept \in Seq(Byte), NEW passed \in Seq(Byte), NEW max \in Int,
         NEW left \in Nat, Budgeted(kept, passed, left, max),
         NEW t \in Seq(Byte), ValidString(t), left > 0, Len(t) <= left
  PROVE  /\ left - Len(t) \in Nat
         /\ Budgeted(kept \o t, passed \o t, left - Len(t), max)
<1>1. kept = passed /\ left = max - Len(kept) /\ ValidString(kept)
  BY DEF Budgeted
<1>2. Len(kept \o t) = Len(kept) + Len(t) /\ Len(kept) \in Nat /\ Len(t) \in Nat
  OBVIOUS
<1>3. ValidString(kept \o t)
  BY <1>1, ConcatValid
<1>4. left - Len(t) = max - Len(kept \o t) /\ Len(kept \o t) <= max
  BY <1>1, <1>2
<1>5. QED BY <1>1, <1>2, <1>3, <1>4 DEF Budgeted

(* ... and without, as much of it as fits. *)
LEMMA CutRight ==
  ASSUME NEW kept \in Seq(Byte), NEW passed \in Seq(Byte), NEW max \in Int,
         NEW left \in Nat, Budgeted(kept, passed, left, max),
         NEW t \in Seq(Byte), ValidString(t), left > 0, Len(t) > left
  PROVE  /\ TruncateUTF8(t, left) \in Seq(Byte)
         /\ Budgeted(kept \o TruncateUTF8(t, left), passed \o t, 0, max)
<1>1. kept = passed /\ left = max - Len(kept) /\ ValidString(kept) /\ Len(kept) \in Nat
  BY DEF Budgeted
<1>2. PICK k \in 0..left : /\ TruncateUTF8(t, left) = SubSeq(t, 1, k)
                          /\ ValidString(SubSeq(t, 1, k))
                          /\ t[k + 1] \in Nat /\ k + t[k + 1] > left
  <2>1. left < Len(t)
    OBVIOUS
  <2>2. QED BY <2>1, TruncateLongest
<1>3. k \in 0..Len(t) /\ k < Len(t) /\ k \in Nat
  OBVIOUS
<1>4. SubSeq(t, 1, k) \in Seq(Byte)
  BY <1>3
<1> DEFINE more == kept \o SubSeq(t, 1, k)
<1>5. /\ IsStrictPrefix(more, kept \o t) /\ Len(more) = Len(kept) + k
      /\ (kept \o t)[Len(kept) + k + 1] = t[k + 1]
  BY <1>3, BeginningIsPrefix
<1>6. ValidString(more)
  BY <1>1, <1>2, <1>4, ConcatValid
<1> HIDE DEF more
<1>7. Len(more) <= max /\ Len(more) + (kept \o t)[Len(more) + 1] > max
  BY <1>1, <1>2, <1>3, <1>5
<1>8. Budgeted(more, kept \o t, 0, max)
  BY <1>5, <1>6, <1>7 DEF Budgeted
<1>9. QED BY <1>1, <1>2, <1>4, <1>8 DEF more

-----------------------------------------------------------------------------
(* The loop. *)

(* The blocks handled so far. *)
Handled == SubSeq(content, 1, i)

TypeOK ==
  /\ content \in Seq(Blocks) /\ maxBytes \in Int
  /\ pc \in {"start", "loop", "done"}
  /\ i \in 0..Len(content)
  /\ clamped \in Seq(Kept)

AtStart == pc = "start" => i = 0 /\ clamped = <<>> /\ remaining = maxBytes

InLoop ==
  pc = "loop" =>
    /\ ~Fits /\ remaining \in Nat
    /\ Others(clamped) = Others(Handled)
    /\ Budgeted(AllText(clamped), AllText(Handled), remaining, maxBytes)

CInv == TypeOK /\ AtStart /\ InLoop /\ LongestTextInBudget /\ OthersUntouched

LEMMA NoticeShape ==
  Notice \in Kept /\ Notice.text = <<>> /\ Notice.kind /= "text"
<1>1. <<>> \in Seq(Byte)
  OBVIOUS
<1>2. QED BY <1>1 DEF Notice, NoText, Kept

LEMMA BlockShape ==
  ASSUME NEW b \in Blocks
  PROVE  /\ b \in Kept /\ b.text \in Seq(Byte) /\ ValidString(b.text)
         /\ b.kind /= "text" => b.text = <<>>
<1>1. CASE b = Image
  <2>1. <<>> \in Seq(Byte) /\ ValidString(<<>>)
    BY EmptyValid
  <2>2. b = [kind |-> "other", text |-> <<>>]
    BY <1>1 DEF Image, NoText
  <2>3. QED BY <2>1, <2>2 DEF Kept
<1>2. ASSUME NEW s \in Texts, b = Text(s)
      PROVE  /\ b \in Kept /\ b.text \in Seq(Byte) /\ ValidString(b.text)
             /\ b.kind /= "text" => b.text = <<>>
  <2>1. s \in Seq(Byte) /\ ValidString(s)
    BY TextsAssumption DEF Byte
  <2>2. b = [kind |-> "text", text |-> s]
    BY <1>2 DEF Text
  <2>3. QED BY <2>1, <2>2 DEF Kept
<1>3. QED BY <1>1, <1>2 DEF Blocks

LEMMA ContentKept ==
  ASSUME NEW s \in Seq(Blocks)
  PROVE  s \in Seq(Kept)
<1>1. Blocks \subseteq Kept
  BY BlockShape
<1>2. QED BY <1>1

LEMMA NextHandled ==
  ASSUME NEW s \in Seq(Blocks), NEW k \in 0..Len(s), k < Len(s)
  PROVE  /\ SubSeq(s, 1, k) \in Seq(Kept)
         /\ s[k + 1] \in Blocks
         /\ SubSeq(s, 1, k + 1) = Append(SubSeq(s, 1, k), s[k + 1])
<1>1. SubSeq(s, 1, k) \in Seq(Blocks)
  OBVIOUS
<1>2. s[k + 1] \in Blocks
  OBVIOUS
<1>3. SubSeq(s, 1, k + 1) = Append(SubSeq(s, 1, k), s[k + 1])
  OBVIOUS
<1>4. QED BY <1>1, <1>2, <1>3, ContentKept

LEMMA AllHandled ==
  ASSUME NEW s \in Seq(Blocks)
  PROVE  SubSeq(s, 1, Len(s)) = s /\ SubSeq(s, 1, 0) = <<>>
OBVIOUS

LEMMA InitInv == Init => CInv
<1> SUFFICES ASSUME Init PROVE CInv
  OBVIOUS
<1>1. content \in Seq(Blocks) /\ Len(content) \in Nat
  BY TextsAssumption DEF Init
<1>2. maxBytes \in Int
  BY TextsAssumption DEF Init
<1>3. clamped \in Seq(Kept)
  BY DEF Init
<1>4. QED
  BY <1>1, <1>2, <1>3
     DEF Init, CInv, TypeOK, AtStart, InLoop, LongestTextInBudget,
         Clamped, OthersUntouched

LEMMA PassThroughInv == CInv /\ PassThrough => CInv'
<1> SUFFICES ASSUME CInv, PassThrough PROVE CInv'
  OBVIOUS
<1>1. TypeOK'
  BY ContentKept DEF CInv, TypeOK, PassThrough, input
<1>2. Fits' /\ pc' = "done" /\ clamped' = content /\ content' = content
  BY DEF PassThrough, Fits, input
<1>3. OthersUntouched'
  <2>1. Others(content) \in Seq(Kept)
    <3>1. content \in Seq(Kept) /\ Notice \in Kept
      BY ContentKept, NoticeShape DEF CInv, TypeOK
    <3>2. QED BY <3>1, OthersAppend
  <2>2. Others(content) \o <<>> = Others(content)
    BY <2>1
  <2>3. QED BY <1>2, <2>2 DEF OthersUntouched
<1>4. QED
  BY <1>1, <1>2, <1>3
     DEF CInv, AtStart, InLoop, LongestTextInBudget, Clamped

LEMMA BeginInv == CInv /\ Begin => CInv'
<1> SUFFICES ASSUME CInv, Begin PROVE CInv'
  OBVIOUS
<1>1. TypeOK'
  BY DEF CInv, TypeOK, Begin, input
<1>2. /\ i = 0 /\ clamped = <<>> /\ remaining = maxBytes /\ ~Fits
      /\ i' = i /\ clamped' = clamped /\ remaining' = remaining
      /\ content' = content /\ maxBytes' = maxBytes /\ pc' = "loop"
  BY DEF CInv, AtStart, Begin, input
<1>3. ~Fits' /\ remaining \in Nat
  BY <1>2 DEF Fits, CInv, TypeOK
<1>4. Handled' = <<>>
  BY <1>2, AllHandled DEF Handled, CInv, TypeOK
<1>5. AllText(<<>>) = <<>>
  <2>1. <<>> \in Seq(Kept) /\ Notice \in Kept
    BY NoticeShape
  <2>2. QED BY <2>1, AllTextAppend
<1>6. Budgeted(<<>>, <<>>, remaining, maxBytes)
  <2>1. Len(<<>>) = 0 /\ remaining = maxBytes - 0 /\ 0 <= maxBytes
    BY <1>2, <1>3
  <2>2. QED BY <2>1, EmptyValid DEF Budgeted
<1>7. InLoop'
  BY <1>2, <1>3, <1>4, <1>5, <1>6 DEF InLoop
<1>8. QED
  BY <1>1, <1>2, <1>7
     DEF CInv, AtStart, LongestTextInBudget, Clamped, OthersUntouched

LEMMA BlockInv == CInv /\ Block => CInv'
<1> SUFFICES ASSUME CInv, Block PROVE CInv'
  OBVIOUS
<1> DEFINE b == content[i + 1]
           kept == AllText(clamped)
           passed == AllText(Handled)
<1>1. /\ pc = "loop" /\ pc' = "loop" /\ i' = i + 1 /\ i < Len(content)
      /\ content' = content /\ maxBytes' = maxBytes
      /\ KeepOther(b) \/ DropText(b) \/ KeepText(b) \/ CutText(b)
  BY DEF Block, input
<1>2. /\ content \in Seq(Blocks) /\ maxBytes \in Int /\ i \in 0..Len(content)
      /\ clamped \in Seq(Kept) /\ ~Fits /\ remaining \in Nat
      /\ Others(clamped) = Others(Handled)
      /\ Budgeted(kept, passed, remaining, maxBytes)
  BY <1>1 DEF CInv, TypeOK, InLoop
<1>3. Handled \in Seq(Kept) /\ b \in Blocks /\ Handled' = Append(Handled, b)
  BY <1>1, <1>2, NextHandled DEF Handled
<1>4. b \in Kept /\ b.text \in Seq(Byte) /\ ValidString(b.text)
  BY <1>3, BlockShape
<1>5. /\ kept \in Seq(Byte) /\ passed \in Seq(Byte)
      /\ AllText(Handled') = passed \o b.text
      /\ Others(Handled') = IF b.kind = "text" THEN Others(Handled)
                            ELSE Append(Others(Handled), b)
  BY <1>2, <1>3, <1>4, AllTextAppend, OthersAppend
<1>6. i' \in 0..Len(content)
  BY <1>1, <1>2
<1>7. ~Fits'
  BY <1>1, <1>2 DEF Fits
<1> HIDE DEF b, kept, passed
<1>8. /\ clamped' \in Seq(Kept) /\ remaining' \in Nat
      /\ Others(clamped') = Others(Handled')
      /\ Budgeted(AllText(clamped'), AllText(Handled'), remaining', maxBytes)
  <2>1. CASE KeepOther(b)
    <3>1. /\ b.kind /= "text" /\ clamped' = Append(clamped, b)
          /\ remaining' = remaining
      BY <2>1 DEF KeepOther
    <3>2. b.text = <<>>
      BY <1>3, <3>1, BlockShape
    <3>3. passed \o b.text = passed /\ kept \o b.text = kept
      BY <1>5, <3>2
    <3>4. AllText(clamped') = kept \o b.text
      BY <1>2, <1>4, <3>1, AllTextAppend DEF kept
    <3>5. Others(clamped') = Append(Others(clamped), b)
      BY <1>2, <1>4, <3>1, OthersAppend
    <3>6. clamped' \in Seq(Kept)
      BY <1>2, <1>4, <3>1
    <3>7. QED BY <1>2, <1>5, <3>1, <3>3, <3>4, <3>5, <3>6
  <2>2. CASE DropText(b)
    <3>1. /\ b.kind = "text" /\ remaining <= 0
          /\ clamped' = clamped /\ remaining' = remaining
      BY <2>2 DEF DropText
    <3>2. Budgeted(kept, passed \o b.text, remaining, maxBytes)
      BY <1>2, <1>4, <1>5, <3>1, DropRight
    <3>3. QED BY <1>2, <1>5, <3>1, <3>2 DEF kept
  <2>3. CASE KeepText(b)
    <3>1. /\ b.kind = "text" /\ remaining > 0 /\ Len(b.text) <= remaining
          /\ clamped' = Append(clamped, b)
          /\ remaining' = remaining - Len(b.text)
      BY <2>3 DEF KeepText
    <3>2. /\ remaining' \in Nat
          /\ Budgeted(kept \o b.text, passed \o b.text, remaining', maxBytes)
      BY <1>2, <1>4, <1>5, <3>1, KeepRight
    <3>3. AllText(clamped') = kept \o b.text
      BY <1>2, <1>4, <3>1, AllTextAppend DEF kept
    <3>4. Others(clamped') = Others(clamped)
      BY <1>2, <1>4, <3>1, OthersAppend
    <3>5. clamped' \in Seq(Kept)
      BY <1>2, <1>4, <3>1
    <3>6. QED BY <1>2, <1>5, <3>1, <3>2, <3>3, <3>4, <3>5
  <2>4. CASE CutText(b)
    <3> DEFINE cut == TruncateUTF8(b.text, remaining)
    <3>1. /\ b.kind = "text" /\ remaining > 0 /\ Len(b.text) > remaining
          /\ clamped' = Append(clamped, Text(cut)) /\ remaining' = 0
      BY <2>4 DEF CutText
    <3>2. /\ cut \in Seq(Byte)
          /\ Budgeted(kept \o cut, passed \o b.text, 0, maxBytes)
      BY <1>2, <1>4, <1>5, <3>1, CutRight
    <3> HIDE DEF cut
    <3>3. Text(cut) \in Kept /\ Text(cut).text = cut /\ Text(cut).kind = "text"
      BY <3>2 DEF Text, Kept
    <3>4. AllText(clamped') = kept \o cut
      BY <1>2, <3>1, <3>3, AllTextAppend DEF kept
    <3>5. Others(clamped') = Others(clamped)
      BY <1>2, <3>1, <3>3, OthersAppend
    <3>6. clamped' \in Seq(Kept)
      BY <1>2, <3>1, <3>3
    <3>7. QED BY <1>2, <1>5, <3>1, <3>2, <3>4, <3>5, <3>6
  <2>5. QED BY <1>1, <2>1, <2>2, <2>3, <2>4 DEF b
<1>9. QED
  BY <1>1, <1>2, <1>6, <1>7, <1>8
     DEF CInv, TypeOK, AtStart, InLoop, LongestTextInBudget, Clamped,
         OthersUntouched

LEMMA FinishInv == CInv /\ Finish => CInv'
<1> SUFFICES ASSUME CInv, Finish PROVE CInv'
  OBVIOUS
<1> DEFINE kept == AllText(clamped)
           all == AllText(content)
<1>1. /\ pc = "loop" /\ pc' = "done" /\ i' = i /\ i = Len(content)
      /\ content' = content /\ maxBytes' = maxBytes
      /\ clamped' = Append(clamped, Notice)
  BY DEF Finish, input
<1>2. /\ content \in Seq(Blocks) /\ maxBytes \in Int /\ i \in 0..Len(content)
      /\ clamped \in Seq(Kept) /\ ~Fits /\ Handled = content
      /\ Others(clamped) = Others(content)
      /\ Budgeted(kept, all, remaining, maxBytes)
  BY <1>1, AllHandled DEF CInv, TypeOK, InLoop, Handled
<1>3. content \in Seq(Kept) /\ Notice \in Kept
  BY <1>2, ContentKept, NoticeShape
<1>4. kept \in Seq(Byte) /\ all \in Seq(Byte) /\ AllText(clamped') = kept
  <2>1. AllText(clamped') = kept \o Notice.text /\ kept \in Seq(Byte)
    BY <1>1, <1>2, <1>3, AllTextAppend
  <2>2. kept \o <<>> = kept
    BY <2>1
  <2>3. all \in Seq(Byte)
    BY <1>3, AllTextAppend
  <2>4. QED BY <2>1, <2>2, <2>3, NoticeShape
<1>5. /\ Others(content) \in Seq(Kept)
      /\ Others(clamped') = Append(Others(content), Notice)
  BY <1>1, <1>2, <1>3, OthersAppend, NoticeShape
<1>6. Fits' = Fits /\ AllText(content') = all
  BY <1>1 DEF Fits
<1> HIDE DEF kept
<1>7. TypeOK'
  BY <1>1, <1>2, <1>3 DEF TypeOK
<1>8. OthersUntouched'
  <2>1. Append(Others(content), Notice) = Others(content) \o <<Notice>>
    BY <1>3, <1>5
  <2>2. QED BY <1>1, <1>2, <1>5, <1>6, <2>1 DEF OthersUntouched
<1>9. LongestTextInBudget'
  <2>1. Len(kept) <= maxBytes /\ maxBytes < Len(all)
    BY <1>2, <1>4 DEF Budgeted, Fits
  <2>2. /\ ValidString(kept) /\ IsStrictPrefix(kept, all)
        /\ Len(kept) + all[Len(kept) + 1] > maxBytes
    BY <1>2, <1>4, <2>1 DEF Budgeted
  <2> HIDE DEF all
  <2>3. QED BY <1>1, <1>4, <1>6, <2>1, <2>2 DEF LongestTextInBudget
<1>10. QED
  BY <1>1, <1>7, <1>8, <1>9 DEF CInv, AtStart, InLoop

LEMMA NextInv == CInv /\ [Next]_vars => CInv'
<1>1. CASE UNCHANGED vars
  BY <1>1
     DEF vars, input, CInv, TypeOK, AtStart, InLoop, Handled, Fits,
         LongestTextInBudget, Clamped, OthersUntouched
<1>2. QED
  BY <1>1, PassThroughInv, BeginInv, BlockInv, FinishInv DEF Next

(* Whatever the texts, the limit and the number of blocks, a clamped       *)
(* answer carries the longest beginning of the result's text that fits the *)
(* budget in whole runes.  (clampResponse, truncateUTF8)                   *)
THEOREM CutIsLongest == Spec => []LongestTextInBudget
<1>1. CInv => LongestTextInBudget
  BY DEF CInv
<1>2. QED BY <1>1, InitInv, NextInv, PTL DEF Spec

(* Blocks that are not text come through whole and in order, and only the  *)
(* notice is added to them.                                                *)
THEOREM OthersStay == Spec => []OthersUntouched
<1>1. CInv => OthersUntouched
  BY DEF CInv
<1>2. QED BY <1>1, InitInv, NextInv, PTL DEF Spec
=============================================================================
