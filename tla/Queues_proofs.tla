--------------------------- MODULE Queues_proofs ---------------------------
(***************************************************************************)
(* Facts about queues that the proofs share: counting certain members, and *)
(* what is in a queue that is appended to, taken from or continued by      *)
(* another one.                                                            *)
(***************************************************************************)
EXTENDS Integers, SequenceTheorems, FiniteSetTheorems, TLAPS

(***************************************************************************)
(* Counting the members of a set in a queue.                               *)
(***************************************************************************)

HitsAt(q, S) == {i \in DOMAIN q : q[i] \in S}
Hits(q, S) == Cardinality(HitsAt(q, S))

\* The count is a number, and zero when no member is in the queue.
LEMMA HitsType ==
    ASSUME NEW X, NEW q \in Seq(X), NEW S
    PROVE  /\ IsFiniteSet(HitsAt(q, S)) /\ Hits(q, S) \in Nat
           /\ Hits(q, S) = 0 <=> \A i \in DOMAIN q : q[i] \notin S
  <1>1. DOMAIN q = 1 .. Len(q) /\ Len(q) \in Nat
    BY LenProperties
  <1>2. IsFiniteSet(DOMAIN q)
    BY <1>1, FS_Interval
  <1>3. HitsAt(q, S) \in SUBSET DOMAIN q
    BY DEF HitsAt
  <1>4. IsFiniteSet(HitsAt(q, S))
    BY <1>2, <1>3, FS_Subset
  <1>5. Hits(q, S) \in Nat
    BY <1>4, FS_CardinalityType DEF Hits
  <1>6. Hits(q, S) = 0 <=> HitsAt(q, S) = {}
    BY <1>4, FS_EmptySet DEF Hits
  <1> QED
    BY <1>4, <1>5, <1>6 DEF HitsAt

\* What appending to a queue and taking from it do to the count.
LEMMA HitsEmpty == \A S : Hits(<<>>, S) = 0
  <1>1. \A S : HitsAt(<<>>, S) = {}
    BY DEF HitsAt
  <1> QED
    BY <1>1, FS_EmptySet DEF Hits

\* Appending counts what was appended.
LEMMA HitsAppend ==
    ASSUME NEW X, NEW q \in Seq(X), NEW x \in X, NEW S
    PROVE  Hits(Append(q, x), S) = Hits(q, S) + IF x \in S THEN 1 ELSE 0
  <1> DEFINE n == Len(q) + 1
             p == Append(q, x)
  <1>1. /\ n \in Nat /\ p \in Seq(X) /\ Len(p) = n /\ p[n] = x
        /\ DOMAIN q = 1 .. Len(q) /\ DOMAIN p = 1 .. n
        /\ \A i \in 1 .. Len(q) : p[i] = q[i]
        /\ Len(q) \in Nat
    BY AppendProperties, LenProperties
  <1> HIDE DEF p
  <1>2. n \notin HitsAt(q, S)
    BY <1>1 DEF HitsAt
  <1>3. CASE x \in S
    <2>1. HitsAt(p, S) = HitsAt(q, S) \cup {n}
      BY <1>1, <1>3 DEF HitsAt
    <2>2. Cardinality(HitsAt(p, S)) = Cardinality(HitsAt(q, S)) + 1
      BY <1>2, <2>1, HitsType, FS_AddElement
    <2> QED
      BY <1>3, <2>2 DEF Hits, p
  <1>4. CASE x \notin S
    <2>1. HitsAt(p, S) = HitsAt(q, S)
      BY <1>1, <1>4 DEF HitsAt
    <2>2. Hits(q, S) \in Nat
      BY HitsType
    <2> QED
      BY <1>4, <2>1, <2>2 DEF Hits, p
  <1> QED
    BY <1>3, <1>4

\* Taking the head counts it no longer.
LEMMA HitsTail ==
    ASSUME NEW X, NEW q \in Seq(X), q # <<>>, NEW S
    PROVE  Hits(Tail(q), S) = Hits(q, S) - IF Head(q) \in S THEN 1 ELSE 0
  <1> DEFINE p == Tail(q)
             rest == HitsAt(q, S) \ {1}
             f == [i \in HitsAt(p, S) |-> i + 1]
  <1>1. Len(q) \in Nat \ {0}
    BY EmptySeq
  <1>2. /\ p \in Seq(X) /\ Head(q) = q[1]
        /\ DOMAIN q = 1 .. Len(q) /\ DOMAIN p = 1 .. Len(q) - 1
        /\ \A i \in DOMAIN p : p[i] = q[i + 1]
    BY <1>1, HeadTailProperties, LenProperties
  <1> HIDE DEF p
  <1>3. f \in Bijection(HitsAt(p, S), rest)
    <2>1. f \in [HitsAt(p, S) -> rest]
      BY <1>1, <1>2 DEF HitsAt
    <2>2. \A i, j \in HitsAt(p, S) : f[i] = f[j] => i = j
      BY <1>1, <1>2 DEF HitsAt
    <2>3. ASSUME NEW k \in rest PROVE \E i \in HitsAt(p, S) : f[i] = k
      <3>1. k - 1 \in HitsAt(p, S) /\ f[k - 1] = k
        BY <1>1, <1>2 DEF HitsAt
      <3> QED
        BY <3>1
    <2> QED
      BY <2>1, <2>2, <2>3 DEF Bijection, Injection, Surjection, IsInjective
  <1>4. Cardinality(rest) = Cardinality(HitsAt(p, S))
    <2>1. IsFiniteSet(HitsAt(p, S))
      BY <1>2, HitsType
    <2> QED
      BY <1>3, <2>1, FS_Bijection DEF ExistsBijection
  <1>5. /\ IsFiniteSet(HitsAt(q, S)) /\ Hits(q, S) \in Nat
    BY HitsType
  <1>6. 1 \in HitsAt(q, S) <=> Head(q) \in S
    BY <1>1, <1>2 DEF HitsAt
  <1>7. Cardinality(rest) = IF 1 \in HitsAt(q, S) THEN Cardinality(HitsAt(q, S)) - 1
                            ELSE Cardinality(HitsAt(q, S))
    BY <1>5, FS_RemoveElement
  <1>8. Cardinality(rest) = Hits(q, S) - IF Head(q) \in S THEN 1 ELSE 0
    BY <1>5, <1>6, <1>7 DEF Hits
  <1> QED
    BY <1>4, <1>8 DEF Hits, p

(***************************************************************************)
(* Queues that are appended to, taken from and put together.               *)
(***************************************************************************)

\* What they do to the members,
LEMMA RangeAppend ==
    ASSUME NEW X, NEW q \in Seq(X), NEW x \in X
    PROVE  Range(Append(q, x)) = Range(q) \cup {x}
  <1>1. /\ Len(q) \in Nat /\ DOMAIN q = 1 .. Len(q)
        /\ DOMAIN Append(q, x) = 1 .. Len(q) + 1
        /\ \A i \in 1 .. Len(q) : Append(q, x)[i] = q[i]
        /\ Append(q, x)[Len(q) + 1] = x
    BY AppendProperties, LenProperties
  <1>2. \A i \in 1 .. Len(q) + 1 : i \in 1 .. Len(q) \/ i = Len(q) + 1
    BY <1>1
  <1>3. Len(q) + 1 \in 1 .. Len(q) + 1 /\ \A i \in 1 .. Len(q) : i \in 1 .. Len(q) + 1
    BY <1>1
  <1> QED
    BY <1>1, <1>2, <1>3 DEF Range

\* What is in a queue is its head and the rest.
LEMMA RangeTail ==
    ASSUME NEW X, NEW q \in Seq(X), q # <<>>
    PROVE  Range(q) = Range(Tail(q)) \cup {Head(q)}
  <1>1. /\ Len(q) \in Nat \ {0} /\ DOMAIN q = 1 .. Len(q)
        /\ DOMAIN Tail(q) = 1 .. Len(q) - 1
        /\ \A i \in 1 .. Len(q) - 1 : Tail(q)[i] = q[i + 1]
        /\ Head(q) = q[1]
    BY HeadTailProperties, LenProperties, EmptySeq
  <1>2. 1 \in 1 .. Len(q) /\ \A i \in 1 .. Len(q) - 1 : i + 1 \in 1 .. Len(q)
    BY <1>1
  <1>3. ASSUME NEW x \in Range(q) PROVE x \in Range(Tail(q)) \cup {Head(q)}
    <2>1. PICK i \in 1 .. Len(q) : x = q[i]
      BY <1>1 DEF Range
    <2>2. CASE i = 1
      BY <1>1, <2>1, <2>2
    <2>3. CASE i # 1
      <3>1. i - 1 \in DOMAIN Tail(q) /\ Tail(q)[i - 1] = x
        BY <1>1, <2>1, <2>3
      <3> QED
        BY <3>1 DEF Range
    <2> QED
      BY <2>2, <2>3
  <1>4. ASSUME NEW x \in Range(Tail(q)) PROVE x \in Range(q)
    BY <1>1, <1>2 DEF Range
  <1>5. Head(q) \in Range(q)
    BY <1>1, <1>2 DEF Range
  <1> QED
    BY <1>3, <1>4, <1>5

\* What is in two queues, one after the other.
LEMMA RangeConcat ==
    ASSUME NEW X, NEW b \in Seq(X), NEW q \in Seq(X)
    PROVE  Range(b \o q) = Range(b) \cup Range(q)
  <1>1. /\ Len(b) \in Nat /\ DOMAIN b = 1 .. Len(b)
        /\ Len(q) \in Nat /\ DOMAIN q = 1 .. Len(q)
        /\ DOMAIN (b \o q) = 1 .. Len(b) + Len(q)
        /\ \A i \in 1 .. Len(b) + Len(q) :
             (b \o q)[i] = IF i <= Len(b) THEN b[i] ELSE q[i - Len(b)]
    BY ConcatProperties, LenProperties
  <1>2. \A i \in DOMAIN b : i \in DOMAIN (b \o q) /\ (b \o q)[i] = b[i]
    BY <1>1
  <1>3. \A i \in DOMAIN q :
          Len(b) + i \in DOMAIN (b \o q) /\ (b \o q)[Len(b) + i] = q[i]
    BY <1>1
  <1>4. \A i \in DOMAIN (b \o q) :
          \/ i \in DOMAIN b /\ (b \o q)[i] = b[i]
          \/ i - Len(b) \in DOMAIN q /\ (b \o q)[i] = q[i - Len(b)]
    BY <1>1
  <1> DEFINE w == b \o q
  <1> HIDE DEF w
  <1>5. ASSUME NEW x \in Range(b) PROVE x \in Range(w)
    BY <1>2 DEF Range, w
  <1>6. ASSUME NEW x \in Range(q) PROVE x \in Range(w)
    <2>1. PICK i \in DOMAIN q : x = q[i]
      BY DEF Range
    <2>2. Len(b) + i \in DOMAIN w /\ w[Len(b) + i] = x
      BY <1>3, <2>1 DEF w
    <2> QED
      BY <2>2 DEF Range
  <1>7. ASSUME NEW x \in Range(w) PROVE x \in Range(b) \cup Range(q)
    <2>1. PICK i \in DOMAIN w : x = w[i]
      BY DEF Range
    <2>2. \/ i \in DOMAIN b /\ x = b[i]
          \/ i - Len(b) \in DOMAIN q /\ x = q[i - Len(b)]
      BY <1>4, <2>1 DEF w
    <2> QED
      BY <2>2 DEF Range
  <1> QED
    BY <1>5, <1>6, <1>7 DEF w

\* and to two queues that are read as one.
LEMMA ConcatAppend ==
    ASSUME NEW X, NEW b \in Seq(X), NEW q \in Seq(X), NEW x \in X
    PROVE  b \o Append(q, x) = Append(b \o q, x)
  <1> DEFINE l == b \o Append(q, x)
             r == Append(b \o q, x)
  <1>1. /\ Len(b) \in Nat /\ Len(q) \in Nat
        /\ Append(q, x) \in Seq(X) /\ Len(Append(q, x)) = Len(q) + 1
        /\ \A i \in 1 .. Len(q) : Append(q, x)[i] = q[i]
        /\ Append(q, x)[Len(q) + 1] = x
    BY AppendProperties, LenProperties
  <1>2. /\ b \o q \in Seq(X) /\ Len(b \o q) = Len(b) + Len(q)
        /\ \A i \in 1 .. Len(b) + Len(q) :
             (b \o q)[i] = IF i <= Len(b) THEN b[i] ELSE q[i - Len(b)]
    BY ConcatProperties
  <1>3. /\ l \in Seq(X) /\ Len(l) = Len(b) + (Len(q) + 1)
        /\ \A i \in 1 .. Len(b) + (Len(q) + 1) :
             l[i] = IF i <= Len(b) THEN b[i] ELSE Append(q, x)[i - Len(b)]
    BY <1>1, ConcatProperties
  <1>4. /\ r \in Seq(X) /\ Len(r) = Len(b) + Len(q) + 1
        /\ \A i \in 1 .. Len(b) + Len(q) : r[i] = (b \o q)[i]
        /\ r[Len(b) + Len(q) + 1] = x
    BY <1>2, AppendProperties
  <1> HIDE DEF l, r
  <1>5. ASSUME NEW i \in 1 .. Len(l) PROVE l[i] = r[i]
    <2>1. CASE i <= Len(b)
      <3>1. /\ i \in 1 .. Len(b) + Len(q)
            /\ i \in 1 .. Len(b) + (Len(q) + 1)
        BY <1>1, <1>3, <2>1
      <3>2. l[i] = b[i] /\ (b \o q)[i] = b[i]
        BY <1>2, <1>3, <2>1, <3>1
      <3> QED
        BY <1>4, <3>1, <3>2
    <2>2. CASE i > Len(b) /\ i <= Len(b) + Len(q)
      <3>1. i - Len(b) \in 1 .. Len(q) /\ i \in 1 .. Len(b) + Len(q)
        BY <1>1, <2>2
      <3>2. l[i] = Append(q, x)[i - Len(b)] /\ (b \o q)[i] = q[i - Len(b)]
        BY <1>1, <1>2, <1>3, <2>2, <3>1
      <3> QED
        BY <1>1, <1>4, <3>1, <3>2
    <2>3. CASE i = Len(b) + Len(q) + 1
      <3>1. ~(i <= Len(b)) /\ i - Len(b) = Len(q) + 1
        BY <1>1, <2>3
      <3> QED
        BY <1>1, <1>3, <1>4, <2>3, <3>1
    <2> QED
      BY <1>1, <1>3, <2>1, <2>2, <2>3
  <1>6. l = r
    BY <1>1, <1>3, <1>4, <1>5, SeqEqual
  <1> QED
    BY <1>6 DEF l, r

\* Taking the head of the first of two queues takes the head of both.
LEMMA ConcatTail ==
    ASSUME NEW X, NEW b \in Seq(X), NEW q \in Seq(X), b # <<>>
    PROVE  /\ Tail(b) \o q = Tail(b \o q)
           /\ Head(b \o q) = Head(b)
           /\ b \o q # <<>>
  <1> DEFINE l == Tail(b) \o q
             w == b \o q
             r == Tail(w)
  <1>1. /\ Len(b) \in Nat \ {0} /\ Len(q) \in Nat
        /\ Tail(b) \in Seq(X) /\ Len(Tail(b)) = Len(b) - 1
        /\ \A i \in 1 .. Len(b) - 1 : Tail(b)[i] = b[i + 1]
        /\ Head(b) = b[1]
    BY HeadTailProperties, LenProperties, EmptySeq
  <1>2. /\ w \in Seq(X) /\ Len(w) = Len(b) + Len(q)
        /\ \A i \in 1 .. Len(b) + Len(q) :
             w[i] = IF i <= Len(b) THEN b[i] ELSE q[i - Len(b)]
    BY ConcatProperties
  <1>3. /\ l \in Seq(X) /\ Len(l) = (Len(b) - 1) + Len(q)
        /\ \A i \in 1 .. (Len(b) - 1) + Len(q) :
             l[i] = IF i <= Len(b) - 1 THEN Tail(b)[i] ELSE q[i - (Len(b) - 1)]
    BY <1>1, ConcatProperties
  <1> HIDE DEF l, w
  <1>4. w # <<>> /\ Head(w) = Head(b)
    BY <1>1, <1>2, EmptySeq
  <1>5. /\ r \in Seq(X) /\ Len(r) = Len(w) - 1
        /\ \A i \in 1 .. Len(r) : r[i] = w[i + 1]
    BY <1>2, <1>4, HeadTailProperties
  <1> HIDE DEF r
  <1>6. ASSUME NEW i \in 1 .. Len(l) PROVE l[i] = r[i]
    <2>1. i \in 1 .. Len(r) /\ i + 1 \in 1 .. Len(b) + Len(q)
      BY <1>1, <1>2, <1>3, <1>5
    <2>2. CASE i <= Len(b) - 1
      BY <1>1, <1>2, <1>3, <1>5, <2>1, <2>2
    <2>3. CASE i > Len(b) - 1
      <3>1. ~(i + 1 <= Len(b)) /\ (i + 1) - Len(b) = i - (Len(b) - 1)
        BY <1>1, <2>3
      <3>2. i \in 1 .. (Len(b) - 1) + Len(q) /\ ~(i <= Len(b) - 1)
        BY <1>1, <1>3, <2>3
      <3>3. l[i] = q[i - (Len(b) - 1)] /\ w[i + 1] = q[(i + 1) - Len(b)]
        BY <1>2, <1>3, <2>1, <3>1, <3>2
      <3> QED
        BY <1>5, <2>1, <3>1, <3>3
    <2> QED
      BY <1>1, <2>2, <2>3
  <1>7. Len(l) = Len(r)
    BY <1>1, <1>2, <1>3, <1>5
  <1>8. l = r
    BY <1>3, <1>5, <1>6, <1>7, SeqEqual
  <1> QED
    BY <1>4, <1>8 DEF l, r, w

=============================================================================
