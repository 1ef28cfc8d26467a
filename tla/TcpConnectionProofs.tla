------------------------- MODULE TcpConnectionProofs -------------------------
(***************************************************************************)
(* TcpConnection.tla for any messages, sizes and buffers: the types, the   *)
(* order and completeness of the stream, that HandleWrite always finds a   *)
(* buffer, and that no FIN comes before data that was accepted.            *)
(*                                                                         *)
(* First sequences: what FlattenSeq makes of a sequence that grows at its  *)
(* end and shrinks at its front, by induction over its length, and how an  *)
(* order on units carries over to concatenations.                          *)
(*                                                                         *)
(* A handler is a composition of operators on the record Now, so what the  *)
(* proof needs of a state is said of such records, in two layers with a    *)
(* lemma for each operator: Sound (data waits only where EPOLLOUT is asked *)
(* for) and, on top of it, Flow (the stream, and the count of sends).      *)
(***************************************************************************)
EXTENDS TcpConnection, SequenceTheorems, WellFoundedInduction, TLAPS

(* A set of numbers has a least one; and, with it, induction over a set. *)
LEMMA Least ==
  ASSUME NEW T, T \subseteq Nat, T # {}
  PROVE  \E x \in T : \A y \in T : x <= y
<1>. DEFINE R == OpToRel(<, Nat)
<1>1. \A x, y \in Nat : y < x => <<y, x>> \in R
  BY DEF OpToRel
<1>2. PICK x \in T : \A y \in T : ~(<<y, x>> \in R)
  BY NatLessThanWellFounded, WFMin
<1>. HIDE DEF R
<1>3. \A y \in T : ~ (y < x)
  BY <1>1, <1>2, Zenon
<1>4. x \in Nat /\ \A y \in T : y \in Nat
  OBVIOUS
<1>5. \A y \in T : x <= y
  BY <1>3, <1>4
<1>. QED BY <1>5

LEMMA Induction ==
  ASSUME NEW T, T \subseteq Nat, 0 \in T, \A n \in T : n + 1 \in T
  PROVE  \A n \in Nat : n \in T
<1>1. ASSUME NEW n \in Nat \ T PROVE FALSE
  <2>1. PICK x \in Nat \ T : \A y \in Nat \ T : x <= y
    BY <1>1, Least
  <2>2. x - 1 \in Nat /\ x - 1 \in T
    BY <2>1
  <2> QED BY <2>1, <2>2
<1> QED BY <1>1

(* g[i] is what the first i sequences of q make. *)
IsSum(S, q, g) ==
  /\ g \in [0 .. Len(q) -> Seq(S)] /\ g[0] = <<>>
  /\ \A i \in 1 .. Len(q) : g[i] = g[i - 1] \o q[i]

LEMMA SumExists ==
  ASSUME NEW S, NEW q \in Seq(Seq(S))
  PROVE  \E g : IsSum(S, q, g)
<1>. DEFINE Sum(n, g) == /\ g \in [0 .. n -> Seq(S)] /\ g[0] = <<>>
                         /\ \A i \in 1 .. n : g[i] = g[i - 1] \o q[i]
            P(n) == n <= Len(q) => \E g : Sum(n, g)
            T == {n \in Nat : P(n)}
<1>0. Len(q) \in Nat
  BY LenProperties
<1>1. P(0)
  <2>1. Sum(0, [i \in 0 .. 0 |-> <<>>])
    BY EmptySeq
  <2>. HIDE DEF Sum
  <2>. QED BY <2>1
<1>2. ASSUME NEW n \in Nat, P(n) PROVE P(n + 1)
  <2>. SUFFICES ASSUME n + 1 <= Len(q) PROVE \E g : Sum(n + 1, g)
    OBVIOUS
  <2>. HIDE DEF Sum
  <2>1. n <= Len(q) /\ n + 1 \in 1 .. Len(q)
    BY <1>0
  <2>2. PICK g : Sum(n, g)
    BY <1>2, <2>1
  <2>3. q[n + 1] \in Seq(S)
    BY <2>1, ElementOfSeq
  <2>. DEFINE z == g[n] \o q[n + 1]
              h == [i \in 0 .. n + 1 |-> IF i = n + 1 THEN z ELSE g[i]]
  <2>4. z \in Seq(S)
    BY <2>2, <2>3, ConcatProperties DEF Sum
  <2>. HIDE DEF z
  <2>5. h[n + 1] = z /\ \A i \in 0 .. n : h[i] = g[i]
    OBVIOUS
  <2>6. h \in [0 .. n + 1 -> Seq(S)] /\ h[0] = <<>>
    BY <2>2, <2>4 DEF Sum
  <2>. HIDE DEF h
  <2>7. ASSUME NEW i \in 1 .. n + 1 PROVE h[i] = h[i - 1] \o q[i]
    <3>1. CASE i = n + 1
      <4>1. i - 1 = n /\ n \in 0 .. n
        BY <3>1
      <4>. QED BY <2>5, <3>1, <4>1 DEF z
    <3>2. CASE i # n + 1
      <4>1. i \in 1 .. n /\ i \in 0 .. n /\ i - 1 \in 0 .. n
        BY <3>2
      <4>2. g[i] = g[i - 1] \o q[i]
        BY <2>2, <4>1 DEF Sum
      <4>. QED BY <2>5, <4>1, <4>2
    <3>. QED BY <3>1, <3>2
  <2>8. Sum(n + 1, h)
    BY <2>6, <2>7 DEF Sum
  <2>. QED BY <2>8
<1>. HIDE DEF P
<1>3. \A n \in Nat : n \in T
  <2>. HIDE DEF T
  <2>1. T \subseteq Nat /\ 0 \in T /\ \A n \in T : n + 1 \in T
    BY <1>1, <1>2 DEF T
  <2>. QED BY <2>1, Induction
<1>4. P(Len(q))
  BY <1>0, <1>3
<1>5. PICK g : Sum(Len(q), g)
  <2>. HIDE DEF Sum
  <2>. QED BY <1>0, <1>4 DEF P
<1>6. IsSum(S, q, g)
  BY <1>5 DEF IsSum
<1>. QED BY <1>6

(* FlattenSeq is the last of these. *)
LEMMA FlattenIsSum ==
  ASSUME NEW S, NEW q \in Seq(Seq(S)), NEW g, IsSum(S, q, g)
  PROVE  FlattenSeq(q) = g[Len(q)]
<1>. DEFINE N == Len(q)
<1>0. N \in Nat
  BY LenProperties
<1>1. CASE N = 0
  <2>1. q = <<>>
    BY <1>1, EmptySeq
  <2>2. g[Len(q)] = <<>>
    BY <1>1 DEF IsSum
  <2>. QED BY <1>1, <2>1, <2>2 DEF FlattenSeq
<1>2. CASE N # 0
  <2>. DEFINE Is(f) == f = [i \in 1 .. N |-> IF i = 1 THEN q[i] ELSE f[i - 1] \o q[i]]
              h == [i \in 1 .. N |-> g[i]]
              flatten == CHOOSE f : Is(f)
  <2>1. Is(h)
    <3>1. ASSUME NEW i \in 1 .. N PROVE g[i] = IF i = 1 THEN q[i] ELSE h[i - 1] \o q[i]
      <4>1. g[i] = g[i - 1] \o q[i]
        BY DEF IsSum
      <4>2. CASE i = 1
        <5>1. q[i] \in Seq(S)
          BY ElementOfSeq
        <5>2. <<>> \o q[i] = q[i]
          BY <5>1, ConcatEmptySeq
        <5>3. g[i - 1] = <<>>
          BY <4>2 DEF IsSum
        <5>. QED BY <4>1, <4>2, <5>2, <5>3
      <4>3. CASE i # 1
        <5>1. i - 1 \in 1 .. N
          BY <1>0, <4>3
        <5>. QED BY <4>1, <4>3, <5>1
      <4>. QED BY <4>2, <4>3
    <3>. QED BY <3>1
  <2>2. Is(flatten)
    <3>. HIDE DEF Is, h
    <3>. QED BY <2>1
  <2>3. FlattenSeq(q) = flatten[N]
    BY <1>2 DEF FlattenSeq
  <2>. HIDE DEF flatten
  <2>. DEFINE P(n) == n + 1 <= N => flatten[n + 1] = g[n + 1]
              T == {n \in Nat : P(n)}
  <2>4. P(0)
    <3>. SUFFICES ASSUME 1 <= N PROVE flatten[1] = g[1]
      OBVIOUS
    <3>1. 1 \in 1 .. N
      BY <1>0
    <3>2. flatten[1] = q[1]
      BY <2>2, <3>1
    <3>3. h[1] = q[1]
      BY <2>1, <3>1
    <3>. QED BY <3>1, <3>2, <3>3
  <2>5. ASSUME NEW n \in Nat, P(n) PROVE P(n + 1)
    <3>. SUFFICES ASSUME n + 2 <= N PROVE flatten[n + 2] = g[n + 2]
      OBVIOUS
    <3>1. n + 1 \in 1 .. N /\ n + 2 \in 1 .. N /\ n + 2 # 1 /\ (n + 2) - 1 = n + 1
      BY <1>0
    <3>2. flatten[n + 2] = flatten[n + 1] \o q[n + 2]
      BY <2>2, <3>1
    <3>3. g[n + 2] = g[n + 1] \o q[n + 2]
      BY <3>1 DEF IsSum
    <3>4. flatten[n + 1] = g[n + 1]
      BY <2>5, <3>1
    <3>. QED BY <3>2, <3>3, <3>4
  <2>. HIDE DEF P, Is, h
  <2>6. \A n \in Nat : n \in T
    <3>1. T \subseteq Nat /\ 0 \in T /\ \A n \in T : n + 1 \in T
      BY <2>4, <2>5
    <3>. HIDE DEF T
    <3>. QED BY <3>1, Induction
  <2>7. N - 1 \in Nat
    BY <1>0, <1>2
  <2>8. P(N - 1)
    BY <2>6, <2>7
  <2>. QED BY <1>0, <2>3, <2>7, <2>8 DEF P
<1>. QED BY <1>1, <1>2

(* FlattenSeq at the end of a sequence ... *)
LEMMA FlattenAppend ==
  ASSUME NEW S, NEW q \in Seq(Seq(S)), NEW x \in Seq(S)
  PROVE  /\ FlattenSeq(q) \in Seq(S)
         /\ FlattenSeq(Append(q, x)) = FlattenSeq(q) \o x
<1>. DEFINE N == Len(q)
            r == Append(q, x)
<1>1. PICK g : IsSum(S, q, g)
  BY SumExists
<1>. DEFINE z == g[N] \o x
            h == [i \in 0 .. N + 1 |-> IF i = N + 1 THEN z ELSE g[i]]
<1>2. FlattenSeq(q) = g[N] /\ N \in Nat
  BY <1>1, FlattenIsSum, LenProperties
<1>3. /\ r \in Seq(Seq(S)) /\ Len(r) = N + 1
      /\ r[N + 1] = x /\ \A i \in 1 .. N : r[i] = q[i]
  BY AppendProperties
<1>4. g[N] \in Seq(S) /\ z \in Seq(S)
  BY <1>1, <1>2, ConcatProperties DEF IsSum
<1>5. g \in [0 .. N -> Seq(S)] /\ g[0] = <<>>
  BY <1>1 DEF IsSum
<1>. HIDE DEF r, z
<1>6. h[N + 1] = z /\ \A i \in 0 .. N : h[i] = g[i]
  BY <1>2
<1>7. h \in [0 .. N + 1 -> Seq(S)] /\ h[0] = <<>>
  BY <1>2, <1>4, <1>5
<1>. HIDE DEF h
<1>8. ASSUME NEW i \in 1 .. N + 1 PROVE h[i] = h[i - 1] \o r[i]
  <2>1. CASE i = N + 1
    <3>1. i - 1 = N /\ N \in 0 .. N
      BY <1>2, <2>1
    <3>. QED BY <1>3, <1>6, <2>1, <3>1 DEF z
  <2>2. CASE i # N + 1
    <3>1. i \in 1 .. N /\ i \in 0 .. N /\ i - 1 \in 0 .. N
      BY <1>2, <2>2
    <3>2. g[i] = g[i - 1] \o q[i]
      BY <1>1, <3>1 DEF IsSum
    <3>. QED BY <1>3, <1>6, <3>1, <3>2
  <2>. QED BY <2>1, <2>2
<1>9. IsSum(S, r, h)
  BY <1>3, <1>7, <1>8 DEF IsSum
<1>10. FlattenSeq(r) = h[N + 1]
  BY <1>3, <1>9, FlattenIsSum
<1>. QED BY <1>2, <1>4, <1>6, <1>10 DEF r, z

(* ... and at its front. *)
LEMMA FlattenTail ==
  ASSUME NEW S, NEW q \in Seq(Seq(S)), q # <<>>
  PROVE  FlattenSeq(q) = Head(q) \o FlattenSeq(Tail(q))
<1>. DEFINE r == Tail(q)
            N == Len(r)
<1>1. /\ r \in Seq(Seq(S)) /\ N \in Nat /\ Len(q) = N + 1
      /\ \A i \in 1 .. N : r[i] = q[i + 1]
      /\ Head(q) = q[1]
  BY HeadTailProperties, EmptySeq
<1>2. q[1] \in Seq(S)
  BY <1>1, ElementOfSeq
<1>3. PICK g : IsSum(S, r, g)
  BY <1>1, SumExists
<1>. DEFINE Lead(x) == q[1] \o x
            h == [i \in 0 .. N + 1 |-> IF i = 0 THEN <<>> ELSE Lead(g[i - 1])]
<1>. HIDE DEF r, N, Lead
<1>0. N \in Nat
  BY <1>1
<1>4. g \in [0 .. N -> Seq(S)] /\ g[0] = <<>>
  BY <1>3 DEF IsSum, N
<1>5. h[0] = <<>> /\ \A i \in 1 .. N + 1 : h[i] = Lead(g[i - 1])
  BY <1>0
<1>6. ASSUME NEW i \in 1 .. N + 1 PROVE Lead(g[i - 1]) \in Seq(S)
  <2>1. g[i - 1] \in Seq(S)
    BY <1>1, <1>4
  <2>. QED BY <1>2, <2>1, ConcatProperties DEF Lead
<1>7. h \in [0 .. N + 1 -> Seq(S)]
  BY <1>1, <1>6, EmptySeq
<1>. HIDE DEF h
<1>8. ASSUME NEW i \in 1 .. N + 1 PROVE h[i] = h[i - 1] \o q[i]
  <2>1. CASE i = 1
    <3>1. h[1] = q[1] \o <<>> /\ i - 1 = 0
      <4>1. h[1] = Lead(g[0]) /\ i - 1 = 0
        BY <1>0, <1>5, <2>1
      <4>. QED BY <1>4, <4>1 DEF Lead
    <3>2. q[1] \o <<>> = q[1] /\ <<>> \o q[1] = q[1]
      BY <1>2, ConcatEmptySeq
    <3>. QED BY <1>5, <2>1, <3>1, <3>2
  <2>2. CASE i # 1
    <3>. DEFINE j == i - 1
    <3>1. j \in 1 .. N /\ j \in 1 .. N + 1 /\ j - 1 \in 0 .. N /\ i = j + 1
      BY <1>1, <2>2
    <3>. HIDE DEF j
    <3>2. g[j] = g[j - 1] \o q[i]
      BY <1>1, <1>3, <3>1 DEF IsSum, N
    <3>3. g[j - 1] \in Seq(S) /\ q[i] \in Seq(S)
      BY <1>1, <1>4, <3>1, ElementOfSeq
    <3>4. q[1] \o (g[j - 1] \o q[i]) = (q[1] \o g[j - 1]) \o q[i]
      <4>. DEFINE a == q[1]
                  b == g[j - 1]
                  c == q[i]
      <4>1. a \in Seq(S) /\ b \in Seq(S) /\ c \in Seq(S)
        BY <1>2, <3>3
      <4>. HIDE DEF a, b, c
      <4>2. (a \o b) \o c = a \o (b \o c)
        BY <4>1, SMTT(40)
      <4>. QED BY <4>2 DEF a, b, c
    <3>5. h[i] = q[1] \o g[j] /\ h[j] = q[1] \o g[j - 1]
      BY <1>5, <3>1 DEF j, Lead
    <3>. QED BY <3>2, <3>4, <3>5 DEF j
  <2>. QED BY <2>1, <2>2
<1>9. IsSum(S, q, h)
  BY <1>1, <1>5, <1>7, <1>8 DEF IsSum
<1>10. FlattenSeq(q) = h[N + 1] /\ FlattenSeq(r) = g[N]
  BY <1>1, <1>3, <1>9, FlattenIsSum DEF N
<1>11. h[N + 1] = q[1] \o g[N]
  <2>1. N + 1 \in 1 .. N + 1 /\ (N + 1) - 1 = N
    BY <1>0
  <2>. QED BY <1>5, <2>1 DEF Lead
<1>. QED BY <1>1, <1>10, <1>11 DEF r
(* Nothing is made of nothing only. *)
LEMMA FlattenEmpty ==
  ASSUME NEW S, NEW q \in Seq(Seq(S))
  PROVE  FlattenSeq(q) = <<>> <=> \A i \in 1 .. Len(q) : q[i] = <<>>
<1>. DEFINE N == Len(q)
<1>1. PICK g : IsSum(S, q, g)
  BY SumExists
<1>2. FlattenSeq(q) = g[N] /\ N \in Nat
  BY <1>1, FlattenIsSum, LenProperties
<1>3. /\ g \in [0 .. N -> Seq(S)] /\ g[0] = <<>>
      /\ \A i \in 1 .. N : g[i] = g[i - 1] \o q[i] /\ q[i] \in Seq(S)
  BY <1>1, ElementOfSeq DEF IsSum
<1>. HIDE DEF N
<1>. DEFINE P(n) == n <= N => (g[n] = <<>> <=> \A i \in 1 .. n : q[i] = <<>>)
            T == {n \in Nat : P(n)}
<1>4. P(0)
  BY <1>3
<1>5. ASSUME NEW n \in Nat, P(n) PROVE P(n + 1)
  <2>. SUFFICES ASSUME n + 1 <= N
                PROVE  g[n + 1] = <<>> <=> \A i \in 1 .. n + 1 : q[i] = <<>>
    OBVIOUS
  <2>1. n <= N /\ n \in 0 .. N /\ n + 1 \in 1 .. N /\ (n + 1) - 1 = n
    BY <1>2
  <2>2. g[n + 1] = g[n] \o q[n + 1] /\ g[n] \in Seq(S) /\ q[n + 1] \in Seq(S)
    BY <1>3, <2>1
  <2>3. g[n + 1] = <<>> <=> g[n] = <<>> /\ q[n + 1] = <<>>
    BY <2>2, ConcatEqualIffEmpty
  <2>4. g[n] = <<>> <=> \A i \in 1 .. n : q[i] = <<>>
    BY <1>5, <2>1
  <2>5. \A i \in 1 .. n + 1 : i = n + 1 \/ i \in 1 .. n
    OBVIOUS
  <2>6. n + 1 \in 1 .. n + 1 /\ \A i \in 1 .. n : i \in 1 .. n + 1
    OBVIOUS
  <2>. QED BY <2>3, <2>4, <2>5, <2>6
<1>. HIDE DEF P
<1>6. \A n \in Nat : n \in T
  <2>1. T \subseteq Nat /\ 0 \in T /\ \A n \in T : n + 1 \in T
    BY <1>4, <1>5
  <2>. HIDE DEF T
  <2>. QED BY <2>1, Induction
<1>7. P(N)
  BY <1>2, <1>6
<1>. QED BY <1>2, <1>7 DEF P, N

-----------------------------------------------------------------------------
(* What holds of a stream: InOrder of what it is put together from.           *)
Crosses(calls, a, b) ==
  \A i \in DOMAIN a, j \in DOMAIN b : Before(calls, a[i], b[j])

LEMMA ToSetConcat ==
  ASSUME NEW S, NEW a \in Seq(S), NEW b \in Seq(S)
  PROVE  ToSet(a \o b) = ToSet(a) \cup ToSet(b)
<1>1. Range(a \o b) = Range(a) \cup Range(b)
  BY RangeConcatenation
<1>2. \A f : ToSet(f) = Range(f)
  BY DEF ToSet, Range
<1>. QED BY <1>1, <1>2

LEMMA InOrderConcat ==
  ASSUME NEW calls, NEW S, NEW a \in Seq(S), NEW b \in Seq(S)
  PROVE  InOrder(calls, a \o b)
           <=> InOrder(calls, a) /\ InOrder(calls, b) /\ Crosses(calls, a, b)
<1>. DEFINE c == a \o b
<1>1. /\ Len(a) \in Nat /\ Len(b) \in Nat /\ Len(c) = Len(a) + Len(b)
      /\ DOMAIN a = 1 .. Len(a) /\ DOMAIN b = 1 .. Len(b) /\ DOMAIN c = 1 .. Len(a) + Len(b)
  BY ConcatProperties, LenProperties
<1>2. /\ \A i \in 1 .. Len(a) : i \in DOMAIN c /\ c[i] = a[i]
      /\ \A j \in 1 .. Len(b) : Len(a) + j \in DOMAIN c /\ c[Len(a) + j] = b[j]
  BY <1>1
<1>3. \A k \in DOMAIN c : \/ k \in 1 .. Len(a)
                          \/ \E j \in 1 .. Len(b) : k = Len(a) + j
  <2>1. ASSUME NEW k \in DOMAIN c, k \notin 1 .. Len(a)
        PROVE  \E j \in 1 .. Len(b) : k = Len(a) + j
    <3>1. k - Len(a) \in 1 .. Len(b) /\ k = Len(a) + (k - Len(a))
      BY <1>1, <2>1
    <3>. QED BY <3>1
  <2>. QED BY <2>1
<1>. HIDE DEF c
<1>5. ASSUME InOrder(calls, c)
      PROVE  InOrder(calls, a) /\ InOrder(calls, b) /\ Crosses(calls, a, b)
  <2>1. InOrder(calls, a)
    BY <1>1, <1>2, <1>5 DEF InOrder
  <2>2. ASSUME NEW i \in DOMAIN b, NEW j \in DOMAIN b, i < j
        PROVE  Before(calls, b[i], b[j])
    <3>1. Len(a) + i < Len(a) + j
      BY <1>1, <2>2
    <3>. QED BY <1>1, <1>2, <1>5, <3>1 DEF InOrder
  <2>3. ASSUME NEW i \in DOMAIN a, NEW j \in DOMAIN b
        PROVE  Before(calls, a[i], b[j])
    <3>1. i < Len(a) + j
      BY <1>1
    <3>. QED BY <1>1, <1>2, <1>5, <3>1 DEF InOrder
  <2>. QED BY <2>1, <2>2, <2>3 DEF InOrder, Crosses
<1>6. ASSUME InOrder(calls, a), InOrder(calls, b), Crosses(calls, a, b),
             NEW i \in DOMAIN c, NEW j \in DOMAIN c, i < j
      PROVE  Before(calls, c[i], c[j])
  <2>1. CASE i \in 1 .. Len(a) /\ j \in 1 .. Len(a)
    BY <1>1, <1>2, <1>6, <2>1 DEF InOrder
  <2>2. CASE i \in 1 .. Len(a) /\ \E k \in 1 .. Len(b) : j = Len(a) + k
    BY <1>1, <1>2, <1>6, <2>2 DEF Crosses
  <2>3. CASE /\ \E h \in 1 .. Len(b) : i = Len(a) + h
             /\ \E k \in 1 .. Len(b) : j = Len(a) + k
    <3>1. PICK h \in 1 .. Len(b), k \in 1 .. Len(b) : i = Len(a) + h /\ j = Len(a) + k
      BY <2>3
    <3>2. h < k
      BY <1>1, <1>6, <3>1
    <3>. QED BY <1>1, <1>2, <1>6, <3>1, <3>2 DEF InOrder
  <2>4. CASE j \in 1 .. Len(a) /\ i \notin 1 .. Len(a)
    <3>1. i <= Len(a) /\ i \in 1 .. Len(a) + Len(b)
      BY <1>1, <1>6, <2>4
    <3>. QED BY <1>1, <2>4, <3>1
  <2>. QED BY <1>3, <2>1, <2>2, <2>3, <2>4
<1>. QED BY <1>5, <1>6 DEF InOrder, c

(* No message is sent twice. *)
Once(calls) == \A a, b \in DOMAIN calls : calls[a] = calls[b] => a = b

(* stream is what Send was given, without what is gone. *)
Fits(calls, gone, stream) ==
  /\ gone \subseteq ToSet(calls) \X (1 .. Size)
  /\ ToSet(stream) = (ToSet(calls) \X (1 .. Size)) \ gone
  /\ InOrder(calls, stream)

(* Something may be taken out of the middle. *)
LEMMA FitsCut ==
  ASSUME NEW calls \in Seq(Msgs), Once(calls), NEW gone,
         NEW a \in Seq(Units), NEW b \in Seq(Units), NEW c \in Seq(Units),
         Fits(calls, gone, a \o (b \o c))
  PROVE  Fits(calls, gone \cup ToSet(b), a \o c)
<1>. DEFINE bc == b \o c
<1>1. bc \in Seq(Units) /\ InOrder(calls, a \o bc)
  BY ConcatProperties DEF Fits
<1>. HIDE DEF bc
<1>2. InOrder(calls, a) /\ InOrder(calls, bc) /\ Crosses(calls, a, bc)
  BY <1>1, InOrderConcat
<1>3. InOrder(calls, b) /\ InOrder(calls, c) /\ Crosses(calls, b, c)
  <2>1. InOrder(calls, b \o c)
    BY <1>2 DEF bc
  <2>. QED BY <2>1, InOrderConcat, SMTT(30)
<1>4. ToSet(a \o bc) = ToSet(a) \cup ToSet(bc) /\ ToSet(bc) = ToSet(b) \cup ToSet(c)
  <2>1. ToSet(a \o bc) = ToSet(a) \cup ToSet(bc)
    BY <1>1, ToSetConcat
  <2>2. ToSet(b \o c) = ToSet(b) \cup ToSet(c)
    BY ToSetConcat
  <2>. QED BY <2>1, <2>2 DEF bc
<1>5. ASSUME NEW u, NEW v, Before(calls, u, v), u \in Units, v \in Units PROVE u # v
  <2>1. PICK i, j \in DOMAIN calls :
          /\ calls[i] = u[1] /\ calls[j] = v[1]
          /\ i < j \/ (i = j /\ u[2] < v[2])
    BY <1>5 DEF Before
  <2>2. DOMAIN calls = 1 .. Len(calls) /\ Len(calls) \in Nat
    BY LenProperties
  <2>3. u[2] \in Nat /\ v[2] \in Nat
    BY <1>5, ConnectionAssumption DEF Units
  <2>. QED BY <2>1, <2>2, <2>3 DEF Once
<1>6. ASSUME NEW x \in Seq(Units), NEW y \in Seq(Units), Crosses(calls, x, y)
      PROVE  ToSet(x) \cap ToSet(y) = {}
  <2>1. ASSUME NEW i \in DOMAIN x, NEW j \in DOMAIN y PROVE x[i] # y[j]
    <3>1. x[i] \in Units /\ y[j] \in Units
      BY LenProperties, ElementOfSeq
    <3>. QED BY <1>5, <1>6, <3>1 DEF Crosses
  <2>. QED BY <2>1 DEF ToSet
<1>7. ASSUME NEW x \in Seq(Units), NEW y, ToSet(y) \subseteq ToSet(bc)
      PROVE  Crosses(calls, x, bc) => Crosses(calls, x, y)
  BY <1>7 DEF Crosses, ToSet
<1>8. Crosses(calls, a, b) /\ Crosses(calls, a, c)
  BY <1>2, <1>4, <1>7
<1>9. ToSet(a) \cap ToSet(b) = {} /\ ToSet(b) \cap ToSet(c) = {}
  BY <1>3, <1>6, <1>8
<1>10. InOrder(calls, a \o c) /\ ToSet(a \o c) = ToSet(a) \cup ToSet(c)
  BY <1>2, <1>3, <1>8, InOrderConcat, ToSetConcat
<1>11. /\ gone \subseteq ToSet(calls) \X (1 .. Size)
       /\ ToSet(a) \cup (ToSet(b) \cup ToSet(c)) = (ToSet(calls) \X (1 .. Size)) \ gone
  BY <1>4 DEF Fits, bc
<1>. HIDE DEF Units
<1>. QED BY <1>9, <1>10, <1>11 DEF Fits

LEMMA OnceCall ==
  ASSUME NEW calls \in Seq(Msgs), Once(calls), NEW m \in Msgs \ ToSet(calls)
  PROVE  /\ Append(calls, m) \in Seq(Msgs) /\ Once(Append(calls, m))
         /\ ToSet(Append(calls, m)) = ToSet(calls) \cup {m}
         /\ \A u, v : Before(calls, u, v) => Before(Append(calls, m), u, v)
<1>. DEFINE c == Append(calls, m)
            N == Len(calls)
<1>1. /\ N \in Nat /\ c \in Seq(Msgs) /\ DOMAIN calls = 1 .. N /\ DOMAIN c = 1 .. N + 1
      /\ c[N + 1] = m /\ \A i \in 1 .. N : c[i] = calls[i]
  BY AppendProperties, LenProperties
<1>. HIDE DEF c, N
<1>2. \A i \in 1 .. N : calls[i] # m
  BY <1>1 DEF ToSet
<1>3. \A i \in 1 .. N + 1 : i = N + 1 \/ i \in 1 .. N
  BY <1>1
<1>4. Once(c)
  BY <1>1, <1>2, <1>3 DEF Once
<1>5. \A i \in 1 .. N : i \in 1 .. N + 1
  BY <1>1
<1>6. N + 1 \in 1 .. N + 1
  BY <1>1
<1>7. ToSet(c) = ToSet(calls) \cup {m}
  BY <1>1, <1>3, <1>5, <1>6 DEF ToSet
<1>8. \A u, v : Before(calls, u, v) => Before(c, u, v)
  BY <1>1, <1>5 DEF Before
<1>. QED BY <1>1, <1>4, <1>7, <1>8 DEF c

LEMMA BodyUnits ==
  ASSUME NEW m \in Msgs
  PROVE  /\ Body(m) \in Seq(Units) /\ DOMAIN Body(m) = 1 .. Size
         /\ ToSet(Body(m)) = {m} \X (1 .. Size)
<1>1. Size \in Nat
  BY ConnectionAssumption
<1>2. Body(m) \in [1 .. Size -> Units]
  BY DEF Body, Units
<1>3. Body(m) \in Seq(Units)
  BY <1>1, <1>2, SeqDef
<1>4. ToSet(Body(m)) = {m} \X (1 .. Size)
  BY DEF ToSet, Body
<1>. QED BY <1>3, <1>4 DEF Body

(* A new call puts a message at the end, ... *)
LEMMA FitsCall ==
  ASSUME NEW calls \in Seq(Msgs), Once(calls), NEW gone, NEW a \in Seq(Units),
         Fits(calls, gone, a), NEW m \in Msgs \ ToSet(calls)
  PROVE  Fits(Append(calls, m), gone, a \o Body(m))
<1>. DEFINE c == Append(calls, m)
            N == Len(calls)
<1>1. /\ N \in Nat /\ DOMAIN calls = 1 .. N /\ DOMAIN c = 1 .. N + 1
      /\ c[N + 1] = m /\ \A i \in 1 .. N : c[i] = calls[i]
  BY AppendProperties, LenProperties
<1>2. /\ ToSet(c) = ToSet(calls) \cup {m}
      /\ \A u, v : Before(calls, u, v) => Before(c, u, v)
  BY OnceCall
<1>. HIDE DEF c, N
<1>3. Body(m) \in Seq(Units) /\ DOMAIN Body(m) = 1 .. Size /\ ToSet(Body(m)) = {m} \X (1 .. Size)
  BY BodyUnits
<1>4. InOrder(c, a)
  BY <1>2 DEF Fits, InOrder
<1>5. N + 1 \in DOMAIN c
  BY <1>1
<1>6. InOrder(c, Body(m))
  <2>1. ASSUME NEW i \in 1 .. Size, NEW j \in 1 .. Size, i < j
        PROVE  Before(c, Body(m)[i], Body(m)[j])
    <3>1. /\ Body(m)[i][1] = m /\ Body(m)[i][2] = i
          /\ Body(m)[j][1] = m /\ Body(m)[j][2] = j
      BY DEF Body
    <3>. QED BY <1>1, <1>5, <2>1, <3>1 DEF Before
  <2>. QED BY <1>3, <2>1 DEF InOrder
<1>7. Crosses(c, a, Body(m))
  <2>1. ASSUME NEW i \in DOMAIN a, NEW j \in 1 .. Size
        PROVE  Before(c, a[i], Body(m)[j])
    <3>1. a[i] \in ToSet(a)
      BY DEF ToSet
    <3>2. a[i] \in ToSet(calls) \X (1 .. Size)
      BY <3>1 DEF Fits
    <3>3. PICK k \in 1 .. N : calls[k] = a[i][1]
      BY <1>1, <3>2 DEF ToSet
    <3>4. k \in DOMAIN c /\ c[k] = a[i][1] /\ k < N + 1
      BY <1>1, <3>3
    <3>5. c[N + 1] = Body(m)[j][1]
      BY <1>1 DEF Body
    <3>. QED BY <1>5, <3>4, <3>5 DEF Before
  <2>. QED BY <1>3, <2>1 DEF Crosses
<1>8. InOrder(c, a \o Body(m)) /\ ToSet(a \o Body(m)) = ToSet(a) \cup ToSet(Body(m))
  BY <1>3, <1>4, <1>6, <1>7, InOrderConcat, ToSetConcat
<1>. HIDE DEF Units
<1>9. /\ gone \subseteq ToSet(calls) \X (1 .. Size)
      /\ ToSet(a) = (ToSet(calls) \X (1 .. Size)) \ gone
  BY DEF Fits
<1>10. /\ ToSet(c) \X (1 .. Size) = (ToSet(calls) \X (1 .. Size)) \cup ({m} \X (1 .. Size))
       /\ (ToSet(calls) \X (1 .. Size)) \cap ({m} \X (1 .. Size)) = {}
  BY <1>2
<1>11. Fits(c, gone, a \o Body(m))
  BY <1>3, <1>8, <1>9, <1>10 DEF Fits
<1>. QED BY <1>11 DEF c

(* ... unless what it was given is discarded. *)
LEMMA FitsDrop ==
  ASSUME NEW calls \in Seq(Msgs), Once(calls), NEW gone, NEW a \in Seq(Units),
         Fits(calls, gone, a), NEW m \in Msgs \ ToSet(calls)
  PROVE  Fits(Append(calls, m), gone \cup ToSet(Body(m)), a)
<1>. DEFINE c == Append(calls, m)
<1>1. Fits(c, gone, a \o Body(m)) /\ c \in Seq(Msgs) /\ Once(c)
  BY FitsCall, OnceCall
<1>2. Body(m) \in Seq(Units) /\ <<>> \in Seq(Units)
  BY BodyUnits, EmptySeq
<1>3. a \o (Body(m) \o <<>>) = a \o Body(m) /\ a \o <<>> = a
  BY <1>2, ConcatEmptySeq
<1>. HIDE DEF c
<1>4. Fits(c, gone \cup ToSet(Body(m)), a \o <<>>)
  BY <1>1, <1>2, <1>3, FitsCut
<1>. QED BY <1>3, <1>4 DEF c

-----------------------------------------------------------------------------
(* What the functors hold, and which of them send. *)
Functors == [op : {"Send", "Shutdown", "ForceClose", "Complete"}, data : Seq(Units)]

Data(q) == FlattenSeq([i \in DOMAIN q |-> q[i].data])

Mark(f) == IF f.op = "Send" THEN <<"Send">> ELSE <<>>

Marks(q) == FlattenSeq([i \in DOMAIN q |-> Mark(q[i])])

Mapped(F, q) == FlattenSeq([i \in DOMAIN q |-> F[q[i]]])

LEMMA MapAppend ==
  ASSUME NEW S, NEW D, NEW q \in Seq(S), NEW f \in S, NEW F, \A x \in S : F[x] \in Seq(D)
  PROVE  /\ Mapped(F, q) \in Seq(D)
         /\ Mapped(F, Append(q, f)) = Mapped(F, q) \o F[f]
<1>. DEFINE r == Append(q, f)
            h == [i \in DOMAIN q |-> F[q[i]]]
            k == [i \in DOMAIN r |-> F[r[i]]]
            N == Len(q)
<1>1. /\ N \in Nat /\ DOMAIN q = 1 .. N /\ DOMAIN r = 1 .. N + 1
      /\ r[N + 1] = f /\ \A i \in 1 .. N : r[i] = q[i] /\ q[i] \in S
  BY AppendProperties, LenProperties, ElementOfSeq
<1>. HIDE DEF r, N
<1>2. h \in Seq(Seq(D)) /\ Len(h) = N
  <2>1. h \in [1 .. N -> Seq(D)]
    BY <1>1
  <2>. HIDE DEF h
  <2>. QED BY <1>1, <2>1, SeqDef, LenProperties
<1>3. k = Append(h, F[f])
  <2>1. k \in [1 .. N + 1 -> Seq(D)]
    <3>1. \A i \in 1 .. N + 1 : i = N + 1 \/ i \in 1 .. N
      BY <1>1
    <3>. QED BY <1>1, <3>1
  <2>2. k \in Seq(Seq(D)) /\ Len(k) = N + 1
    <3>. HIDE DEF k
    <3>. QED BY <1>1, <2>1, SeqDef, LenProperties
  <2>3. /\ Append(h, F[f]) \in Seq(Seq(D)) /\ Len(Append(h, F[f])) = N + 1
        /\ Append(h, F[f])[N + 1] = F[f]
        /\ \A i \in 1 .. N : Append(h, F[f])[i] = h[i]
    <3>. HIDE DEF h
    <3>. QED BY <1>2, AppendProperties
  <2>4. \A i \in 1 .. N : h[i] = F[q[i]]
    BY <1>1
  <2>5. k[N + 1] = F[f] /\ \A i \in 1 .. N : k[i] = F[q[i]]
    BY <1>1
  <2>. HIDE DEF k, h
  <2>6. \A i \in 1 .. N + 1 : i = N + 1 \/ i \in 1 .. N
    BY <1>1
  <2>7. \A i \in 1 .. Len(k) : k[i] = Append(h, F[f])[i]
    BY <2>2, <2>3, <2>4, <2>5, <2>6
  <2>. QED BY <2>2, <2>3, <2>7, SeqEqual
<1>. HIDE DEF h, k
<1>4. FlattenSeq(h) \in Seq(D) /\ FlattenSeq(Append(h, F[f])) = FlattenSeq(h) \o F[f]
  BY <1>2, FlattenAppend
<1>. QED BY <1>3, <1>4 DEF Mapped, h, k, r

LEMMA MapTail ==
  ASSUME NEW S, NEW D, NEW q \in Seq(S), q # <<>>, NEW F, \A x \in S : F[x] \in Seq(D)
  PROVE  /\ Tail(q) \in Seq(S) /\ Head(q) \in S
         /\ Mapped(F, q) = F[Head(q)] \o Mapped(F, Tail(q))
<1>. DEFINE r == Tail(q)
            h == [i \in DOMAIN q |-> F[q[i]]]
            k == [i \in DOMAIN r |-> F[r[i]]]
            N == Len(r)
<1>1. /\ r \in Seq(S) /\ N \in Nat /\ DOMAIN r = 1 .. N /\ Len(q) = N + 1
      /\ DOMAIN q = 1 .. N + 1 /\ Head(q) = q[1]
      /\ \A i \in 1 .. N : r[i] = q[i + 1]
  BY HeadTailProperties, LenProperties, EmptySeq
<1>2. /\ \A i \in 1 .. N : r[i] \in S
      /\ \A i \in 1 .. N + 1 : q[i] \in S
  BY <1>1, ElementOfSeq
<1>. HIDE DEF r, N
<1>3. h \in Seq(Seq(D)) /\ Len(h) = N + 1 /\ h # <<>>
  <2>1. h \in [1 .. N + 1 -> Seq(D)]
    BY <1>1, <1>2
  <2>. HIDE DEF h
  <2>. QED BY <1>1, <2>1, SeqDef, LenProperties
<1>4. k \in Seq(Seq(D)) /\ Len(k) = N
  <2>1. k \in [1 .. N -> Seq(D)]
    BY <1>1, <1>2
  <2>. HIDE DEF k
  <2>. QED BY <1>1, <2>1, SeqDef, LenProperties
<1>5. h[1] = F[q[1]] /\ \A i \in 1 .. N : h[i + 1] = F[q[i + 1]] /\ k[i] = F[q[i + 1]]
  BY <1>1
<1>. HIDE DEF h, k
<1>6. /\ Tail(h) \in Seq(Seq(D)) /\ Len(Tail(h)) = N /\ Head(h) = h[1]
      /\ \A i \in 1 .. N : Tail(h)[i] = h[i + 1]
  <2>1. Len(Tail(h)) = Len(h) - 1 /\ Tail(h) \in Seq(Seq(D))
        /\ \A i \in 1 .. Len(Tail(h)) : Tail(h)[i] = h[i + 1]
    BY <1>3, HeadTailProperties
  <2>2. Len(Tail(h)) = N
    BY <1>1, <1>3, <2>1
  <2>. QED BY <1>3, <2>1, <2>2
<1>7. k = Tail(h)
  <2>1. Len(k) = Len(Tail(h)) /\ \A i \in 1 .. Len(k) : k[i] = Tail(h)[i]
    BY <1>4, <1>5, <1>6
  <2>. QED BY <1>4, <1>6, <2>1, SeqEqual, SMTT(30)
<1>8. FlattenSeq(h) = Head(h) \o FlattenSeq(Tail(h))
  BY <1>3, FlattenTail
<1>9. Head(q) \in S
  BY <1>1, <1>2
<1>. QED BY <1>1, <1>5, <1>6, <1>7, <1>8, <1>9 DEF Mapped, h, k, r

LEMMA DataOf ==
  ASSUME NEW q \in Seq(Functors)
  PROVE  /\ Data(q) \in Seq(Units)
         /\ \A f \in Functors : Data(Append(q, f)) = Data(q) \o f.data
         /\ q # <<>> => /\ Tail(q) \in Seq(Functors) /\ Head(q) \in Functors
                        /\ Data(q) = Head(q).data \o Data(Tail(q))
<1>. DEFINE F == [x \in Functors |-> x.data]
<1>1. \A x \in Functors : F[x] \in Seq(Units)
  BY DEF Functors
<1>2. ASSUME NEW r \in Seq(Functors) PROVE Data(r) = Mapped(F, r)
  <2>1. \A i \in DOMAIN r : F[r[i]] = r[i].data
    BY LenProperties, ElementOfSeq
  <2>2. [i \in DOMAIN r |-> r[i].data] = [i \in DOMAIN r |-> F[r[i]]]
    BY <2>1
  <2>. QED BY <2>2 DEF Data, Mapped
<1>3. \A x \in Functors : F[x] = x.data
  OBVIOUS
<1>. HIDE DEF F
<1>4. ASSUME NEW f \in Functors
      PROVE  Data(q) \in Seq(Units) /\ Data(Append(q, f)) = Data(q) \o f.data
  <2>. DEFINE r == Append(q, f)
  <2>1. Mapped(F, q) \in Seq(Units) /\ Mapped(F, r) = Mapped(F, q) \o F[f]
    BY <1>1, MapAppend
  <2>2. r \in Seq(Functors)
    BY AppendProperties
  <2>3. Data(r) = Mapped(F, r) /\ Data(q) = Mapped(F, q)
    BY <1>2, <2>2
  <2>. QED BY <1>3, <2>1, <2>3
<1>5. \E f : f \in Functors
  <2>1. [op |-> "Complete", data |-> <<>>] \in Functors
    BY EmptySeq DEF Functors
  <2>. QED BY <2>1
<1>6. ASSUME q # <<>>
      PROVE  /\ Tail(q) \in Seq(Functors) /\ Head(q) \in Functors
             /\ Data(q) = Head(q).data \o Data(Tail(q))
  <2>. DEFINE r == Tail(q)
  <2>1. r \in Seq(Functors) /\ Head(q) \in Functors /\ Mapped(F, q) = F[Head(q)] \o Mapped(F, r)
    BY <1>1, <1>6, MapTail
  <2>2. Data(r) = Mapped(F, r) /\ Data(q) = Mapped(F, q)
    BY <1>2, <2>1
  <2>. QED BY <1>3, <2>1, <2>2
<1>. QED BY <1>4, <1>5, <1>6

LEMMA MarkSeq == ASSUME NEW f PROVE Mark(f) \in Seq({"Send"})
<1>1. <<"Send">> \in Seq({"Send"}) /\ <<>> \in Seq({"Send"})
  OBVIOUS
<1>. QED BY <1>1 DEF Mark

LEMMA MarksOf ==
  ASSUME NEW q \in Seq(Functors)
  PROVE  /\ Marks(q) \in Seq({"Send"})
         /\ \A f \in Functors : Marks(Append(q, f)) = Marks(q) \o Mark(f)
         /\ q # <<>> => Marks(q) = Mark(Head(q)) \o Marks(Tail(q))
<1>. DEFINE F == [x \in Functors |-> Mark(x)]
<1>1. \A x \in Functors : F[x] \in Seq({"Send"})
  BY MarkSeq
<1>2. ASSUME NEW r \in Seq(Functors) PROVE Marks(r) = Mapped(F, r)
  <2>1. \A i \in DOMAIN r : F[r[i]] = Mark(r[i])
    BY LenProperties, ElementOfSeq
  <2>2. [i \in DOMAIN r |-> Mark(r[i])] = [i \in DOMAIN r |-> F[r[i]]]
    BY <2>1
  <2>. QED BY <2>2 DEF Marks, Mapped
<1>3. \A x \in Functors : F[x] = Mark(x)
  OBVIOUS
<1>. HIDE DEF F
<1>4. ASSUME NEW f \in Functors
      PROVE  Marks(q) \in Seq({"Send"}) /\ Marks(Append(q, f)) = Marks(q) \o Mark(f)
  <2>. DEFINE r == Append(q, f)
  <2>1. Mapped(F, q) \in Seq({"Send"}) /\ Mapped(F, r) = Mapped(F, q) \o F[f]
    BY <1>1, MapAppend
  <2>2. r \in Seq(Functors)
    BY AppendProperties
  <2>3. Marks(r) = Mapped(F, r) /\ Marks(q) = Mapped(F, q)
    BY <1>2, <2>2
  <2>. QED BY <1>3, <2>1, <2>3
<1>5. \E f : f \in Functors
  <2>1. [op |-> "Complete", data |-> <<>>] \in Functors
    BY EmptySeq DEF Functors
  <2>. QED BY <2>1
<1>6. ASSUME q # <<>>
      PROVE  Marks(q) = Mark(Head(q)) \o Marks(Tail(q))
  <2>. DEFINE r == Tail(q)
  <2>1. r \in Seq(Functors) /\ Head(q) \in Functors /\ Mapped(F, q) = F[Head(q)] \o Mapped(F, r)
    BY <1>1, <1>6, MapTail
  <2>2. Marks(r) = Mapped(F, r) /\ Marks(q) = Mapped(F, q)
    BY <1>2, <2>1
  <2>. QED BY <1>3, <2>1, <2>2
<1>. QED BY <1>4, <1>5, <1>6

(* Only sends hold data. *)
Plain(q) == \A i \in DOMAIN q : q[i].op # "Send" => q[i].data = <<>>

(* Without a send in the queue there is no data in it. *)
LEMMA NoMarkNoData ==
  ASSUME NEW q \in Seq(Functors), Plain(q), Marks(q) = <<>>
  PROVE  Data(q) = <<>>
<1>. DEFINE N == Len(q)
            h == [i \in DOMAIN q |-> Mark(q[i])]
            k == [i \in DOMAIN q |-> q[i].data]
<1>1. N \in Nat /\ DOMAIN q = 1 .. N /\ \A i \in 1 .. N : q[i] \in Functors
  BY LenProperties, ElementOfSeq
<1>2. \A i \in 1 .. N : Mark(q[i]) \in Seq({"Send"}) /\ q[i].data \in Seq(Units)
  BY <1>1, MarkSeq DEF Functors
<1>3. h \in Seq(Seq({"Send"})) /\ Len(h) = N
  <2>1. h \in [1 .. N -> Seq({"Send"})]
    BY <1>1, <1>2
  <2>. HIDE DEF h
  <2>. QED BY <1>1, <2>1, SeqDef, LenProperties
<1>4. k \in Seq(Seq(Units)) /\ Len(k) = N
  <2>1. k \in [1 .. N -> Seq(Units)]
    BY <1>1, <1>2
  <2>. HIDE DEF k
  <2>. QED BY <1>1, <2>1, SeqDef, LenProperties
<1>5. \A i \in 1 .. N : h[i] = Mark(q[i]) /\ k[i] = q[i].data
  BY <1>1
<1>. HIDE DEF h, k
<1>6. \A i \in 1 .. N : h[i] = <<>>
  BY <1>3, FlattenEmpty DEF Marks, h
<1>7. \A i \in 1 .. N : q[i].op # "Send"
  <2>1. <<"Send">> # <<>>
    OBVIOUS
  <2>. QED BY <1>5, <1>6, <2>1 DEF Mark
<1>8. \A i \in 1 .. N : k[i] = <<>>
  BY <1>1, <1>5, <1>7 DEF Plain
<1>9. FlattenSeq(k) = <<>>
  BY <1>4, <1>8, FlattenEmpty
<1>. QED BY <1>9 DEF Data, k

LEMMA PlainOf ==
  ASSUME NEW q \in Seq(Functors), Plain(q)
  PROVE  /\ \A f \in Functors : (f.op # "Send" => f.data = <<>>) => Plain(Append(q, f))
         /\ q # <<>> => Plain(Tail(q)) /\ (Head(q).op # "Send" => Head(q).data = <<>>)
<1>1. Len(q) \in Nat /\ DOMAIN q = 1 .. Len(q)
  BY LenProperties
<1>2. ASSUME NEW f \in Functors, f.op # "Send" => f.data = <<>> PROVE Plain(Append(q, f))
  <2>. DEFINE r == Append(q, f)
  <2>1. /\ DOMAIN r = 1 .. Len(q) + 1 /\ r[Len(q) + 1] = f
        /\ \A i \in 1 .. Len(q) : r[i] = q[i]
    BY AppendProperties, LenProperties
  <2>. HIDE DEF r
  <2>2. \A i \in 1 .. Len(q) + 1 : i = Len(q) + 1 \/ i \in 1 .. Len(q)
    BY <1>1
  <2>3. Plain(r)
    BY <1>1, <1>2, <2>1, <2>2 DEF Plain
  <2>. QED BY <2>3 DEF r
<1>3. ASSUME q # <<>>
      PROVE  Plain(Tail(q)) /\ (Head(q).op # "Send" => Head(q).data = <<>>)
  <2>. DEFINE r == Tail(q)
  <2>1. /\ DOMAIN r = 1 .. Len(q) - 1 /\ Head(q) = q[1] /\ Len(q) # 0
        /\ \A i \in 1 .. Len(q) - 1 : r[i] = q[i + 1]
    BY <1>1, <1>3, HeadTailProperties, LenProperties, EmptySeq
  <2>. HIDE DEF r
  <2>2. \A i \in 1 .. Len(q) - 1 : i + 1 \in 1 .. Len(q)
    BY <1>1
  <2>3. Plain(r)
    BY <1>1, <2>1, <2>2 DEF Plain
  <2>4. 1 \in DOMAIN q
    BY <1>1, <2>1
  <2>. QED BY <2>1, <2>3, <2>4 DEF Plain, r
<1>. QED BY <1>2, <1>3

-----------------------------------------------------------------------------
Shape(c, k) ==
  /\ {"state", "reading", "writing", "buffered", "buffer", "capacity"} \subseteq DOMAIN c
  /\ {"wire", "room", "wanted", "unread", "eof", "reset", "error", "shut", "edge"}
       \subseteq DOMAIN k

(* Data waits only where EPOLLOUT is asked for, or the connection is closed;  *)
(* and the FIN is behind it.                                                  *)
Waits(c, k) ==
  /\ c.writing => c.buffered
  /\ c.state # "kDisconnected" /\ ~c.writing => c.buffer = <<>>
  /\ k.shut => c.state # "kConnected" /\ ~c.writing /\ c.buffer = <<>>

Sound(s) ==
  /\ {"conn", "sock"} \subseteq DOMAIN s
  /\ Shape(s.conn, s.sock) /\ Waits(s.conn, s.sock)

IInv == Shape(conn, sock) /\ Waits(conn, sock)

(* An operator that leaves the connection and the FIN alone. *)
Alike(s, t) ==
  /\ {"conn", "sock"} \subseteq DOMAIN t /\ DOMAIN s.sock \subseteq DOMAIN t.sock
  /\ t.conn = s.conn /\ t.sock.shut = s.sock.shut

LEMMA AlikeIsSound == ASSUME NEW s, NEW t, Sound(s), Alike(s, t) PROVE Sound(t)
<1>1. Shape(t.conn, t.sock)
  BY DEF Sound, Alike, Shape
<1>2. Waits(t.conn, t.sock)
  BY DEF Sound, Alike, Waits
<1>. QED
  BY <1>1, <1>2 DEF Sound, Alike

LEMMA UpdateAlike == ASSUME NEW s, Sound(s) PROVE Alike(s, Update(s))
BY DEF Update, Sound, Shape, Alike

LEMMA WrittenAlike == ASSUME NEW s, Sound(s), NEW data PROVE Alike(s, Written(s, data))
BY DEF Written, Sound, Shape, Alike

LEMMA QueueAlike ==
  ASSUME NEW s, Sound(s), NEW op, NEW data PROVE Alike(s, QueueInLoop(s, op, data))
BY DEF QueueInLoop, Sound, Shape, Alike

-----------------------------------------------------------------------------
(* Data that is kept is in a buffer, and EPOLLOUT is asked for. *)
LEMMA KeepSound ==
  ASSUME NEW s, Sound(s), s.conn.state = "kConnected", NEW rest
  PROVE  Sound(Keep(s, rest))
<1>. DEFINE fresh == IF s.conn.buffered THEN s
                     ELSE [s EXCEPT !.conn.buffered = TRUE, !.conn.buffer = <<>>,
                                    !.conn.capacity = Capacity]
            stored == Store(fresh, rest)
<1>1. ~s.sock.shut
  BY DEF Sound, Waits
<1>2. /\ {"conn", "sock"} \subseteq DOMAIN fresh /\ Shape(fresh.conn, fresh.sock)
      /\ fresh.conn.buffered /\ fresh.conn.writing = s.conn.writing
      /\ fresh.sock = s.sock
  BY DEF Sound, Shape
<1>3. /\ {"conn", "sock"} \subseteq DOMAIN stored /\ Shape(stored.conn, stored.sock)
      /\ stored.conn.buffered
      /\ stored.sock = s.sock
  <2>. HIDE DEF fresh
  <2>. QED BY <1>2 DEF Store, Shape
<1>4. CASE stored.conn.writing
  <2>1. Keep(s, rest) = s \/ Keep(s, rest) = stored
    BY <1>4 DEF Keep
  <2>. HIDE DEF stored
  <2>. QED BY <1>1, <1>3, <1>4, <2>1 DEF Sound, Waits
<1>5. CASE ~stored.conn.writing
  <2>1. Keep(s, rest) = s \/ Keep(s, rest) = EnableWriting(stored)
    BY <1>5 DEF Keep
  <2>. HIDE DEF stored
  <2>2. Sound(EnableWriting(stored))
    <3>. DEFINE w == [stored EXCEPT !.conn.writing = TRUE]
    <3>1. /\ {"conn", "sock"} \subseteq DOMAIN w /\ Shape(w.conn, w.sock)
          /\ w.conn.buffered /\ w.conn.writing = TRUE /\ ~w.sock.shut
      BY <1>1, <1>3 DEF Shape
    <3>. HIDE DEF w
    <3>2. Sound(w)
      BY <3>1 DEF Sound, Waits
    <3>3. Sound(Update(w))
      BY <3>2, UpdateAlike, AlikeIsSound
    <3>. QED BY <3>3 DEF EnableWriting, w
  <2>. QED BY <2>1, <2>2
<1>. QED
  BY <1>4, <1>5

LEMMA SendInLoopSound == ASSUME NEW s, Sound(s), NEW data PROVE Sound(SendInLoop(s, data))
<1>1. CASE s.conn.state # "kConnected"
  <2>1. Alike(s, [s EXCEPT !.lost = @ \cup ToSet(data)])
    BY DEF Sound, Shape, Alike
  <2>. QED BY <1>1, <2>1, AlikeIsSound DEF SendInLoop
<1>2. CASE s.conn.state = "kConnected" /\ ~Direct(s)
  <2>1. SendInLoop(s, data) = Keep(s, data)
    BY <1>2 DEF SendInLoop
  <2>. QED BY <1>2, <2>1, KeepSound
<1>3. CASE s.conn.state = "kConnected" /\ Direct(s) /\ s.sock.reset
  <2>. DEFINE t == [s EXCEPT !.sock.error = FALSE, !.lost = @ \cup ToSet(data)]
  <2>1. SendInLoop(s, data) = t
    BY <1>3 DEF SendInLoop
  <2>2. Alike(s, t)
    BY DEF Sound, Shape, Alike
  <2>. HIDE DEF t
  <2>. QED BY <2>1, <2>2, AlikeIsSound
<1>4. CASE s.conn.state = "kConnected" /\ Direct(s) /\ ~s.sock.reset
  <2>. DEFINE n == Accepted(s, data)
              w == Written(s, data)
              rest == SubSeq(data, n + 1, Len(data))
  <2>1. SendInLoop(s, data) = IF n = Len(data) THEN QueueInLoop(w, "Complete", <<>>)
                              ELSE Keep(w, rest)
    BY <1>4 DEF SendInLoop
  <2>2. Sound(w) /\ w.conn.state = "kConnected"
    BY <1>4, WrittenAlike, AlikeIsSound DEF Alike
  <2>. HIDE DEF n, w, rest
  <2>3. Sound(QueueInLoop(w, "Complete", <<>>))
    BY <2>2, QueueAlike, AlikeIsSound
  <2>4. Sound(Keep(w, rest))
    BY <2>2, KeepSound
  <2>. QED BY <2>1, <2>3, <2>4
<1>. QED
  BY <1>1, <1>2, <1>3, <1>4

(* Send, and the echo of the default handler. *)
LEMMA SendSound ==
  ASSUME NEW s, Sound(s), NEW m
  PROVE  Sound(Send(s, m)) /\ Sound(Echo(s, m))
<1>. DEFINE c == Calls(s, m)
            counted == [c EXCEPT !.sends = @ + 1]
            dropped == [c EXCEPT !.sends = @ + 1, !.lost = @ \cup ToSet(Body(m))]
<1>1. Alike(s, c)
  BY DEF Calls, Sound, Shape, Alike
<1>2. Sound(c)
  BY <1>1, AlikeIsSound
<1>. HIDE DEF c
<1>3. Alike(c, counted) /\ Alike(c, dropped)
  BY <1>2 DEF Sound, Shape, Alike
<1>4. Sound(counted) /\ Sound(dropped)
  <2>. HIDE DEF counted, dropped
  <2>. QED BY <1>2, <1>3, AlikeIsSound
<1>5. /\ Sound(QueueInLoop(counted, "Send", Body(m)))
      /\ Sound(QueueInLoop(dropped, "Send", <<>>))
  <2>. HIDE DEF counted, dropped
  <2>. QED BY <1>4, QueueAlike, AlikeIsSound
<1>6. Sound(SendInLoop(c, Body(m)))
  BY <1>2, SendInLoopSound
<1>7. /\ Send(s, m) = IF MustQueue(s) THEN QueueInLoop(counted, "Send", Body(m))
                      ELSE SendInLoop(c, Body(m))
      /\ Echo(s, m) = IF MustQueue(s) THEN QueueInLoop(dropped, "Send", <<>>)
                      ELSE SendInLoop(c, Body(m))
  BY DEF Send, Echo, c
<1>. HIDE DEF counted, dropped
<1>. QED
  BY <1>5, <1>6, <1>7

-----------------------------------------------------------------------------
(* The FIN is sent when nothing waits, or not at all. *)
LEMMA ShutdownSound == ASSUME NEW s, Sound(s) PROVE Sound(Shutdown(s))
<1>1. CASE s.conn.state # "kConnected"
  BY <1>1 DEF Shutdown
<1>2. CASE s.conn.state = "kConnected" /\ s.conn.writing
  <2>. DEFINE t == [s EXCEPT !.conn.state = "kDisconnecting"]
  <2>1. Shutdown(s) = t
    BY <1>2 DEF Shutdown
  <2>2. /\ {"conn", "sock"} \subseteq DOMAIN t /\ Shape(t.conn, t.sock)
        /\ t.conn.writing = s.conn.writing /\ t.conn.buffered = s.conn.buffered
        /\ t.sock = s.sock
    BY DEF Sound, Shape
  <2>3. ~s.sock.shut
    BY <1>2 DEF Sound, Waits
  <2>. HIDE DEF t
  <2>4. Waits(t.conn, t.sock)
    BY <1>2, <2>2, <2>3 DEF Sound, Waits
  <2>. QED BY <2>1, <2>2, <2>4 DEF Sound
<1>3. CASE s.conn.state = "kConnected" /\ ~s.conn.writing
  <2>. DEFINE t == [s EXCEPT !.conn.state = "kDisconnecting",
                             !.sock.shut = ~s.sock.reset, !.threw = @ \/ s.sock.reset]
  <2>1. Shutdown(s) = t
    BY <1>3 DEF Shutdown
  <2>2. /\ {"conn", "sock"} \subseteq DOMAIN t /\ Shape(t.conn, t.sock)
        /\ t.conn.state = "kDisconnecting"
        /\ t.conn.writing = s.conn.writing /\ t.conn.buffer = s.conn.buffer
    BY DEF Sound, Shape
  <2>3. s.conn.buffer = <<>>
    BY <1>3 DEF Sound, Waits
  <2>. HIDE DEF t
  <2>4. Waits(t.conn, t.sock)
    BY <1>3, <2>2, <2>3 DEF Waits
  <2>. QED BY <2>1, <2>2, <2>4 DEF Sound
<1>. QED
  BY <1>1, <1>2, <1>3

LEMMA HandleCloseSound == ASSUME NEW s, Sound(s) PROVE Sound(HandleClose(s))
<1>. DEFINE t == HandleClose(s)
<1>1. /\ {"conn", "sock"} \subseteq DOMAIN t /\ Shape(t.conn, t.sock)
      /\ t.conn.state = "kDisconnected" /\ t.conn.writing = FALSE
      /\ t.conn.buffer = s.conn.buffer /\ t.sock.shut = s.sock.shut
  BY DEF HandleClose, DisableAll, Sound, Shape
<1>. HIDE DEF t
<1>2. Waits(t.conn, t.sock)
  BY <1>1 DEF Sound, Waits
<1>. QED
  BY <1>1, <1>2 DEF Sound, t

LEMMA ForceCloseSound == ASSUME NEW s, Sound(s) PROVE Sound(ForceClose(s))
BY HandleCloseSound DEF ForceClose

(* Whatever a handler of the application does. *)
LEMMA AppSound == ASSUME NEW s, Sound(s) PROVE \A t \in AppCode(s) : Sound(t)
<1>1. ASSUME NEW r, Sound(r), NEW t \in AppOnce(r) PROVE Sound(t)
  BY <1>1, SendSound, ShutdownSound, ForceCloseSound DEF AppOnce
<1>. QED
  BY <1>1 DEF AppCode

-----------------------------------------------------------------------------
LEMMA HandleReadSound == ASSUME NEW s, Sound(s) PROVE \A t \in HandleRead(s) : Sound(t)
<1>1. ASSUME NEW n PROVE Sound([s EXCEPT !.sock.unread = @ - n])
  <2>. DEFINE r == [s EXCEPT !.sock.unread = @ - n]
  <2>1. Alike(s, r)
    BY DEF Sound, Shape, Alike
  <2>. HIDE DEF r
  <2>2. Sound(r)
    BY <2>1, AlikeIsSound
  <2>. QED BY <2>2 DEF r
<1>2. Sound([s EXCEPT !.sock.error = FALSE])
  <2>. DEFINE r == [s EXCEPT !.sock.error = FALSE]
  <2>1. Alike(s, r)
    BY DEF Sound, Shape, Alike
  <2>. HIDE DEF r
  <2>2. Sound(r)
    BY <2>1, AlikeIsSound
  <2>. QED BY <2>2 DEF r
<1>3. Sound(HandleClose(s))
  BY HandleCloseSound
<1>4. CASE s.sock.unread > 0
  <2>1. ASSUME NEW t \in HandleRead(s) PROVE Sound(t)
    <3>1. PICK n \in 1 .. s.sock.unread : t \in AppCode([s EXCEPT !.sock.unread = @ - n])
      BY <1>4 DEF HandleRead
    <3>. QED BY <1>1, <3>1, AppSound
  <2>. QED BY <2>1
<1>5. CASE ~(s.sock.unread > 0)
  BY <1>2, <1>3, <1>5 DEF HandleRead
<1>. QED
  BY <1>4, <1>5

LEMMA HandleWriteSound == ASSUME NEW s, Sound(s) PROVE \A t \in HandleWrite(s) : Sound(t)
<1>1. CASE ~s.conn.writing
  BY <1>1 DEF HandleWrite
<1>2. CASE s.conn.writing /\ s.conn.buffer = <<>>
  <2>. DEFINE f == [s EXCEPT !.conn.buffered = FALSE]
              o == [f EXCEPT !.conn.writing = FALSE]
              e == DisableWriting(f)
  <2>1. /\ {"conn", "sock"} \subseteq DOMAIN o /\ Shape(o.conn, o.sock)
        /\ o.conn.writing = FALSE /\ o.conn.buffer = <<>>
        /\ o.sock = s.sock
    BY <1>2 DEF Sound, Shape
  <2>2. ~s.sock.shut
    BY <1>2 DEF Sound, Waits
  <2>3. e = Update(o)
    BY DEF DisableWriting
  <2>. HIDE DEF o
  <2>4. Sound(o)
    BY <2>1, <2>2 DEF Sound, Waits
  <2>5. Sound(e)
    <3>. HIDE DEF e
    <3>. QED BY <2>3, <2>4, UpdateAlike, AlikeIsSound
  <2>6. HandleWrite(s) = {IF t.conn.state = "kDisconnecting" THEN Shutdown(t) ELSE t :
                            t \in AppCode(e)}
    BY <1>2 DEF HandleWrite
  <2>. HIDE DEF e
  <2>7. \A t \in AppCode(e) : Sound(t) /\ Sound(Shutdown(t))
    BY <2>5, AppSound, ShutdownSound
  <2>. QED BY <2>6, <2>7
<1>3. CASE s.conn.writing /\ s.conn.buffer # <<>> /\ s.sock.reset
  <2>. DEFINE r == [s EXCEPT !.sock.error = FALSE]
  <2>1. Alike(s, r)
    BY DEF Sound, Shape, Alike
  <2>2. HandleWrite(s) = {r}
    BY <1>3 DEF HandleWrite
  <2>. HIDE DEF r
  <2>. QED BY <2>1, <2>2, AlikeIsSound
<1>4. CASE s.conn.writing /\ s.conn.buffer # <<>> /\ ~s.sock.reset
  <2>. DEFINE w == Written(s, s.conn.buffer)
              r == [w EXCEPT !.conn.buffer = SubSeq(@, Accepted(s, @) + 1, Len(@))]
  <2>1. Alike(s, w) /\ Sound(w)
    BY WrittenAlike, AlikeIsSound
  <2>2. HandleWrite(s) = {r}
    BY <1>4 DEF HandleWrite
  <2>. HIDE DEF w
  <2>3. /\ {"conn", "sock"} \subseteq DOMAIN r /\ Shape(r.conn, r.sock)
        /\ r.conn.writing = w.conn.writing /\ r.conn.buffered = w.conn.buffered
        /\ r.sock = w.sock
    BY <2>1 DEF Sound, Shape
  <2>. HIDE DEF r
  <2>4. w.conn.writing /\ w.conn.buffered /\ ~w.sock.shut
    BY <1>4, <2>1 DEF Alike, Sound, Waits
  <2>5. Waits(r.conn, r.sock)
    BY <2>3, <2>4 DEF Waits
  <2>. QED BY <2>2, <2>3, <2>5 DEF Sound
<1>. QED
  BY <1>1, <1>2, <1>3, <1>4

-----------------------------------------------------------------------------
LEMMA NowSound == ASSUME IInv PROVE Sound(Now)
BY DEF IInv, Sound, Now

LEMMA BecomeInvariant == ASSUME NEW s, Sound(s), Become(s) PROVE IInv'
BY DEF Become, Sound, IInv, Shape, Waits

(* The socket changes, but not its shut. *)
LEMMA SocketInvariant ==
  ASSUME IInv, DOMAIN sock \subseteq DOMAIN sock', sock'.shut = sock.shut, conn' = conn
  PROVE  IInv'
BY DEF IInv, Shape, Waits

LEMMA InitInvariant == Init => IInv
BY DEF Init, IInv, Shape, Waits

LEMMA HandleEventInvariant == ASSUME IInv, HandleEvent PROVE IInv'
<1>. DEFINE cleared == [Now EXCEPT !.sock.error = @ /\ ~event.err]
<1>1. Sound(Now)
  BY NowSound
<1>2. Alike(Now, cleared)
  BY <1>1 DEF Sound, Shape, Alike
<1>3. PICK t \in (IF event.in THEN HandleRead(cleared) ELSE {cleared}) :
        \E u \in (IF event.out THEN HandleWrite(t) ELSE {t}) : Become(u)
  BY DEF HandleEvent
<1>. HIDE DEF cleared
<1>4. Sound(cleared)
  BY <1>1, <1>2, AlikeIsSound
<1>5. Sound(t)
  BY <1>3, <1>4, HandleReadSound
<1>6. PICK u \in (IF event.out THEN HandleWrite(t) ELSE {t}) : Become(u)
  BY <1>3
<1>7. Sound(u)
  BY <1>5, <1>6, HandleWriteSound
<1>. QED
  BY <1>6, <1>7, BecomeInvariant

LEMMA RunFunctorInvariant == ASSUME IInv, RunFunctor PROVE IInv'
<1>. DEFINE f == Head(queue)
            s == [Now EXCEPT !.queue = Tail(@)]
            sent == SendInLoop(s, f.data)
            counted == [sent EXCEPT !.sends = @ - 1]
<1>1. Sound(Now)
  BY NowSound
<1>2. Alike(Now, s)
  BY <1>1 DEF Sound, Shape, Alike
<1>3. \/ Become(counted)
      \/ Become(Shutdown(s))
      \/ Become(ForceClose(s))
      \/ \E t \in AppCode(s) : Become(t)
  BY DEF RunFunctor
<1>. HIDE DEF s
<1>4. Sound(s)
  BY <1>1, <1>2, AlikeIsSound
<1>5. Sound(counted)
  <2>1. Sound(sent)
    BY <1>4, SendInLoopSound
  <2>. HIDE DEF sent
  <2>2. Alike(sent, counted)
    BY <2>1 DEF Sound, Shape, Alike
  <2>. HIDE DEF counted
  <2>. QED BY <2>1, <2>2, AlikeIsSound
<1>. HIDE DEF counted
<1>. QED
  BY <1>3, <1>4, <1>5, ShutdownSound, ForceCloseSound, AppSound, BecomeInvariant

(* A call of another thread only queues. *)
LEMMA OtherInvariant == ASSUME IInv, OtherStep PROVE IInv'
<1>1. Sound(Now)
  BY NowSound
<1>2. CASE \E m \in Msgs : OtherSends(m)
  <2>1. PICK m \in Msgs : OtherSends(m)
    BY <1>2
  <2>. DEFINE c == Calls(Now, m)
              counted == [c EXCEPT !.sends = @ + 1]
  <2>2. Alike(Now, c)
    BY <1>1 DEF Calls, Sound, Shape, Alike
  <2>3. Become(QueueInLoop(counted, "Send", Body(m)))
    BY <2>1 DEF OtherSends
  <2>. HIDE DEF c
  <2>4. Sound(c)
    BY <1>1, <2>2, AlikeIsSound
  <2>5. Alike(c, counted)
    BY <2>4 DEF Sound, Shape, Alike
  <2>. HIDE DEF counted
  <2>6. Sound(QueueInLoop(counted, "Send", Body(m)))
    BY <2>4, <2>5, AlikeIsSound, QueueAlike
  <2>. QED BY <2>3, <2>6, BecomeInvariant
<1>3. CASE \E op \in {"Shutdown", "ForceClose"} : OtherCloses(op)
  <2>1. PICK op \in {"Shutdown", "ForceClose"} : Become(QueueInLoop(Now, op, <<>>))
    BY <1>3 DEF OtherCloses
  <2>. QED BY <1>1, <2>1, QueueAlike, AlikeIsSound, BecomeInvariant
<1>. QED
  BY <1>2, <1>3 DEF OtherStep

(* The peer changes what can be read or written, and edges. *)
LEMMA EnvironmentInvariant == ASSUME IInv, Environment PROVE IInv'
<1>1. ASSUME NEW k, NEW p, PeerStep(k, p), DOMAIN k = DOMAIN sock, k.shut = sock.shut
      PROVE  IInv'
  <2>1. sock' = [k EXCEPT !.edge = conn.reading] /\ conn' = conn
    BY <1>1 DEF PeerStep
  <2>2. DOMAIN sock' = DOMAIN sock /\ sock'.shut = sock.shut
    BY <1>1, <2>1 DEF IInv, Shape
  <2>. QED BY <2>1, <2>2, SocketInvariant
<1>2. /\ "shut" \in DOMAIN sock
  BY DEF IInv, Shape
<1>3. CASE PeerSends
  <2>. DEFINE k == [sock EXCEPT !.unread = @ + 1]
  <2>1. PeerStep(k, peer) /\ DOMAIN k = DOMAIN sock /\ k.shut = sock.shut
    BY <1>2, <1>3 DEF PeerSends
  <2>. HIDE DEF k
  <2>. QED BY <1>1, <2>1
<1>4. CASE PeerShuts
  <2>. DEFINE k == [sock EXCEPT !.eof = TRUE]
  <2>1. PICK p \in {"shut", "gone"} : PeerStep(k, p)
    BY <1>4 DEF PeerShuts
  <2>2. DOMAIN k = DOMAIN sock /\ k.shut = sock.shut
    BY <1>2
  <2>. HIDE DEF k
  <2>. QED BY <1>1, <2>1, <2>2
<1>5. CASE Reset \/ KeepAlive
  <2>. DEFINE k == [sock EXCEPT !.reset = TRUE, !.error = TRUE]
  <2>1. PeerStep(k, "gone") /\ DOMAIN k = DOMAIN sock /\ k.shut = sock.shut
    BY <1>2, <1>5 DEF Reset, KeepAlive
  <2>. HIDE DEF k
  <2>. QED BY <1>1, <2>1
<1>6. CASE PeerCloses
  BY <1>6 DEF PeerCloses, IInv, Shape, Waits
<1>7. CASE PeerReads
  <2>1. /\ DOMAIN sock' = DOMAIN sock /\ sock'.shut = sock.shut /\ conn' = conn
    BY <1>2, <1>7 DEF PeerReads
  <2>. QED BY <2>1, SocketInvariant
<1>. QED
  BY <1>3, <1>4, <1>5, <1>6, <1>7 DEF Environment

LEMMA StepInvariant == ASSUME IInv, [Next]_vars PROVE IInv'
<1>1. CASE Select
  <2>1. /\ conn' = conn
        /\ sock' = sock \/ sock' = [sock EXCEPT !.edge = FALSE]
    BY <1>1 DEF Select
  <2>2. DOMAIN sock' = DOMAIN sock /\ sock'.shut = sock.shut
    BY <2>1 DEF IInv, Shape
  <2>. QED BY <2>1, <2>2, SocketInvariant
<1>2. CASE FunctorsDone
  BY <1>2 DEF FunctorsDone, IInv, Shape, Waits
<1>3. CASE UNCHANGED vars
  BY <1>3 DEF vars, IInv, Shape, Waits
<1>. QED
  BY <1>1, <1>2, <1>3, HandleEventInvariant, RunFunctorInvariant, OtherInvariant,
     EnvironmentInvariant DEF Next, LoopStep

(* HandleWrite, called with EPOLLOUT enabled, finds a buffer to take the front *)
(* of, whatever handlers and other threads send, shut and close.               *)
THEOREM WritingAlwaysHasBuffer == SafeSpec => []WritingHasBuffer
<1>1. IInv => WritingHasBuffer
  BY DEF IInv, Waits, WritingHasBuffer
<1>. QED
  BY <1>1, InitInvariant, StepInvariant, PTL DEF SafeSpec

(* While a connection is not closed, what waits in write_buffer_ waits for an  *)
(* event that is asked for: no handler leaves data behind with EPOLLOUT off.   *)
THEOREM BufferedAlwaysWatched ==
  SafeSpec => [](conn.buffer # <<>> => conn.writing \/ conn.state = "kDisconnected")
<1>1. IInv => (conn.buffer # <<>> => conn.writing \/ conn.state = "kDisconnected")
  BY DEF IInv, Waits
<1>. QED
  BY <1>1, InitInvariant, StepInvariant, PTL DEF SafeSpec

(* Shutdown sends the FIN when all that Send accepted is with the kernel. *)
THEOREM FinIsAlwaysLast == SafeSpec => []FinIsLast
<1>1. IInv => FinIsLast
  BY DEF IInv, Waits, FinIsLast
<1>. QED
  BY <1>1, InitInvariant, StepInvariant, PTL DEF SafeSpec
-----------------------------------------------------------------------------
(* The types of what a handler reads and writes. *)
Conns == [state : {"kConnected", "kDisconnecting", "kDisconnected"},
          reading : BOOLEAN, writing : BOOLEAN,
          buffered : BOOLEAN, buffer : Seq(Units), capacity : Nat]

Socks == [wire : Seq(Units), room : 0 .. SendBuffer, wanted : BOOLEAN,
          unread : 0 .. MaxUnread, eof : BOOLEAN, reset : BOOLEAN, error : BOOLEAN,
          shut : BOOLEAN, edge : BOOLEAN]

States == [conn : Conns, sock : Socks, queue : Seq(Functors), sends : Nat,
           called : Seq(Msgs), lost : SUBSET Units, threw : BOOLEAN]

(* All that is on its way, with data that a handler has in its hands. *)
Stream(s, data) == s.sock.wire \o (s.conn.buffer \o (data \o Data(s.queue)))

(* The stream is intact, and send_count_ counts the sends that wait, and the  *)
(* k that the loop is about to do.                                            *)
Flow(s, data, k) ==
  /\ s \in States /\ data \in Seq(Units) /\ k \in Nat
  /\ Once(s.called) /\ Plain(s.queue)
  /\ s.sends = Len(Marks(s.queue)) + k
  /\ Fits(s.called, s.lost, Stream(s, data))

(* An operator that moves no data. *)
Same(s, t) ==
  /\ t \in States
  /\ t.sock.wire = s.sock.wire /\ t.conn.buffer = s.conn.buffer
  /\ t.queue = s.queue /\ t.sends = s.sends /\ t.called = s.called /\ t.lost = s.lost

LEMMA SameFlow ==
  ASSUME NEW s, NEW data, NEW k, Flow(s, data, k), NEW t, Same(s, t)
  PROVE  Flow(t, data, k)
BY DEF Flow, Same, Stream

LEMMA SetConn ==
  ASSUME NEW s \in States, NEW c \in Conns, c.buffer = s.conn.buffer
  PROVE  Same(s, [s EXCEPT !.conn = c])
BY DEF Same, States

LEMMA SetSock ==
  ASSUME NEW s \in States, NEW k \in Socks, k.wire = s.sock.wire
  PROVE  Same(s, [s EXCEPT !.sock = k])
BY DEF Same, States

LEMMA UpdateSame == ASSUME NEW s \in States PROVE Same(s, Update(s))
<1>. DEFINE e == s.sock.edge \/ Readable(s) \/ Writable(s)
            k == [s.sock EXCEPT !.edge = e]
<1>1. s.sock \in Socks /\ s.sock.edge \in BOOLEAN
  BY DEF States, Socks
<1>2. e \in BOOLEAN
  OBVIOUS
<1>. HIDE DEF e
<1>3. k \in Socks /\ k.wire = s.sock.wire
  BY <1>1, <1>2 DEF Socks
<1>4. Update(s) = [s EXCEPT !.sock = k]
  BY DEF Update, e
<1>. QED BY <1>3, <1>4, SetSock

LEMMA SetWriting ==
  ASSUME NEW s \in States, NEW w \in BOOLEAN
  PROVE  Same(s, [s EXCEPT !.conn.writing = w])
<1>. DEFINE c == [s.conn EXCEPT !.writing = w]
<1>1. s.conn \in Conns
  BY DEF States
<1>2. c \in Conns /\ c.buffer = s.conn.buffer
  BY <1>1 DEF Conns
<1>. HIDE DEF c
<1>3. Same(s, [s EXCEPT !.conn = c])
  BY <1>2, SetConn
<1>. QED BY <1>3 DEF c

LEMMA SetState ==
  ASSUME NEW s \in States, NEW v \in {"kConnected", "kDisconnecting", "kDisconnected"}
  PROVE  Same(s, [s EXCEPT !.conn.state = v])
<1>. DEFINE c == [s.conn EXCEPT !.state = v]
<1>1. s.conn \in Conns
  BY DEF States
<1>2. c \in Conns /\ c.buffer = s.conn.buffer
  BY <1>1 DEF Conns
<1>. HIDE DEF c
<1>3. Same(s, [s EXCEPT !.conn = c])
  BY <1>2, SetConn
<1>. QED BY <1>3 DEF c

LEMMA SetError ==
  ASSUME NEW s \in States, NEW v \in BOOLEAN
  PROVE  Same(s, [s EXCEPT !.sock.error = v])
<1>. DEFINE k == [s.sock EXCEPT !.error = v]
<1>1. s.sock \in Socks
  BY DEF States
<1>2. k \in Socks /\ k.wire = s.sock.wire
  BY <1>1 DEF Socks
<1>. HIDE DEF k
<1>3. Same(s, [s EXCEPT !.sock = k])
  BY <1>2, SetSock
<1>. QED BY <1>3 DEF k

LEMMA SameTwice ==
  ASSUME NEW s, NEW t, NEW u, Same(s, t), Same(t, u)
  PROVE  Same(s, u)
BY DEF Same

LEMMA ShutdownSame == ASSUME NEW s \in States PROVE Same(s, Shutdown(s))
<1>. DEFINE d == [s EXCEPT !.conn.state = "kDisconnecting"]
            k == [s.sock EXCEPT !.shut = ~s.sock.reset]
            f == [d EXCEPT !.sock = k]
            t == [f EXCEPT !.threw = @ \/ s.sock.reset]
<1>1. Same(s, d) /\ d \in States
  BY SetState DEF Same
<1>2. k \in Socks /\ k.wire = d.sock.wire
  BY DEF States, Socks
<1>. HIDE DEF k
<1>3. Same(d, f) /\ f \in States
  <2>. HIDE DEF d
  <2>. QED BY <1>1, <1>2, SetSock DEF Same
<1>4. Same(f, t)
  <2>. HIDE DEF f
  <2>1. f.threw \in BOOLEAN /\ (f.threw \/ s.sock.reset) \in BOOLEAN
    BY <1>3 DEF States
  <2>. QED BY <1>3, <2>1 DEF Same, States
<1>5. [s EXCEPT !.conn.state = "kDisconnecting",
                !.sock.shut = ~s.sock.reset, !.threw = @ \/ s.sock.reset] = t
  BY DEF k, States
<1>6. Same(s, s)
  BY DEF Same
<1>7. Shutdown(s) \in {s, d, t}
  BY <1>5 DEF Shutdown
<1>8. Same(s, f) /\ Same(s, t)
  <2>. HIDE DEF d, f, t
  <2>. QED BY <1>1, <1>3, <1>4, SameTwice
<1>. HIDE DEF d, f, t
<1>. QED BY <1>1, <1>6, <1>7, <1>8

LEMMA HandleCloseSame == ASSUME NEW s \in States PROVE Same(s, HandleClose(s))
<1>. DEFINE c == [s.conn EXCEPT !.reading = FALSE, !.writing = FALSE, !.state = "kDisconnected"]
            k == [s.sock EXCEPT !.edge = FALSE]
            t == [s EXCEPT !.conn = c]
<1>1. c \in Conns /\ c.buffer = s.conn.buffer /\ k \in Socks /\ k.wire = s.sock.wire
  BY DEF States, Conns, Socks
<1>2. HandleClose(s) = [t EXCEPT !.sock = k]
  BY DEF HandleClose, DisableAll, States
<1>. HIDE DEF c, k
<1>3. Same(s, t) /\ t \in States /\ t.sock = s.sock
  BY <1>1, SetConn DEF Same, States
<1>. HIDE DEF t
<1>4. Same(t, [t EXCEPT !.sock = k])
  BY <1>1, <1>3, SetSock
<1>. QED BY <1>2, <1>3, <1>4, SameTwice

LEMMA ForceCloseSame == ASSUME NEW s \in States PROVE Same(s, ForceClose(s))
<1>1. Same(s, s)
  BY DEF Same
<1>. QED BY <1>1, HandleCloseSame DEF ForceClose

-----------------------------------------------------------------------------
LEMMA SplitSeq ==
  ASSUME NEW S, NEW d \in Seq(S), NEW n \in 0 .. Len(d)
  PROVE  /\ SubSeq(d, 1, n) \in Seq(S) /\ SubSeq(d, n + 1, Len(d)) \in Seq(S)
         /\ SubSeq(d, 1, n) \o SubSeq(d, n + 1, Len(d)) = d
<1>1. Len(d) \in Nat
  BY LenProperties
<1>2. SubSeq(d, 1, n) \in Seq(S) /\ SubSeq(d, n + 1, Len(d)) \in Seq(S)
  BY <1>1, SubSeqProperties, ElementOfSeq
<1>3. CASE Len(d) = 0
  BY <1>1, <1>3, EmptySeq, ConcatEmptySeq, SubSeqEmpty
<1>4. CASE Len(d) # 0
  <2>1. SubSeq(d, 1, n) \o SubSeq(d, n + 1, Len(d)) = SubSeq(d, 1, Len(d))
    <3>1. 1 \in 1 .. Len(d) + 1 /\ n \in 1 - 1 .. Len(d) /\ Len(d) \in n .. Len(d)
      BY <1>1, <1>4
    <3>. QED BY <3>1, ConcatAdjacentSubSeq
  <2>. QED BY <1>2, <2>1, SubSeqFull
<1>. QED BY <1>2, <1>3, <1>4

(* What write() takes goes from the hands of the handler to the wire. *)
LEMMA WrittenState ==
  ASSUME NEW s \in States, NEW d \in Seq(Units)
  PROVE  LET n == Accepted(s, d)
             w == Written(s, d)
         IN /\ n \in 0 .. Len(d)
            /\ w \in States /\ w.conn = s.conn /\ w.queue = s.queue /\ w.sends = s.sends
            /\ w.called = s.called /\ w.lost = s.lost
            /\ w.sock.wire = s.sock.wire \o SubSeq(d, 1, n)
            /\ w.sock.reset = s.sock.reset
<1>. DEFINE n == Accepted(s, d)
            z == s.sock.wire \o SubSeq(d, 1, n)
            x == s.sock.wanted \/ n < Len(d)
            k == [s.sock EXCEPT !.wire = z, !.room = @ - n, !.wanted = x]
<1>1. s.sock \in Socks /\ s.sock.wire \in Seq(Units) /\ s.sock.room \in 0 .. SendBuffer
      /\ SendBuffer \in Nat /\ Len(d) \in Nat
  BY ConnectionAssumption, LenProperties DEF States, Socks
<1>2. n \in 0 .. Len(d) /\ s.sock.room - n \in 0 .. SendBuffer
  BY <1>1 DEF Accepted
<1>. HIDE DEF n
<1>3. z \in Seq(Units) /\ x \in BOOLEAN
  BY <1>1, <1>2, SplitSeq, ConcatProperties
<1>4. Written(s, d) = [s EXCEPT !.sock = k]
  BY DEF Written, n
<1>. HIDE DEF z, x
<1>5. k \in Socks /\ k.wire = z /\ k.reset = s.sock.reset
  BY <1>1, <1>2, <1>3 DEF Socks
<1>. HIDE DEF k
<1>. QED BY <1>2, <1>4, <1>5 DEF n, z, States

LEMMA WrittenFlow ==
  ASSUME NEW s, NEW d, NEW k, Flow(s, d, k), s.conn.buffer = <<>>
  PROVE  LET n == Accepted(s, d)
         IN Flow(Written(s, d), SubSeq(d, n + 1, Len(d)), k)
<1>. DEFINE n == Accepted(s, d)
            w == Written(s, d)
            a == SubSeq(d, 1, n)
            b == SubSeq(d, n + 1, Len(d))
            q == Data(s.queue)
            x == s.sock.wire
<1>1. s \in States /\ d \in Seq(Units)
  BY DEF Flow
<1>2. /\ n \in 0 .. Len(d) /\ w \in States /\ w.conn = s.conn /\ w.queue = s.queue
      /\ w.sends = s.sends /\ w.called = s.called /\ w.lost = s.lost
      /\ w.sock.wire = x \o a
  BY <1>1, WrittenState
<1>3. q \in Seq(Units) /\ x \in Seq(Units)
  BY <1>1, DataOf DEF States, Socks
<1>. HIDE DEF n, w
<1>4. a \in Seq(Units) /\ b \in Seq(Units) /\ a \o b = d
  BY <1>1, <1>2, SplitSeq
<1>. HIDE DEF a, b, q, x
<1>5. (x \o a) \o (<<>> \o (b \o q)) = x \o (<<>> \o ((a \o b) \o q))
  <2>1. x \in Seq(Units) /\ a \in Seq(Units) /\ b \in Seq(Units) /\ q \in Seq(Units)
    BY <1>3, <1>4
  <2>2. b \o q \in Seq(Units) /\ (a \o b) \o q \in Seq(Units)
    BY <2>1, ConcatProperties
  <2>3. <<>> \o (b \o q) = b \o q /\ <<>> \o ((a \o b) \o q) = (a \o b) \o q
    BY <2>2, ConcatEmptySeq
  <2>4. (x \o a) \o (b \o q) = x \o (a \o (b \o q))
    BY <2>1
  <2>5. (a \o b) \o q = a \o (b \o q)
    BY <2>1
  <2>. QED BY <2>3, <2>4, <2>5
<1>6. Stream(w, b) = Stream(s, d)
  BY <1>2, <1>4, <1>5 DEF Stream, q, x
<1>7. Flow(w, b, k)
  BY <1>2, <1>4, <1>6 DEF Flow
<1>. QED BY <1>7 DEF n, w, b

(* What the kernel took leaves write_buffer_. *)
LEMMA FlushFlow ==
  ASSUME NEW s, NEW k, Flow(s, <<>>, k)
  PROVE  Flow([Written(s, s.conn.buffer) EXCEPT !.conn.buffer =
                 SubSeq(@, Accepted(s, @) + 1, Len(@))], <<>>, k)
<1>. DEFINE d == s.conn.buffer
            n == Accepted(s, d)
            w == Written(s, d)
            a == SubSeq(d, 1, n)
            b == SubSeq(d, n + 1, Len(d))
            q == Data(s.queue)
            x == s.sock.wire
            c == [w.conn EXCEPT !.buffer = b]
            t == [w EXCEPT !.conn = c]
<1>1. s \in States /\ d \in Seq(Units)
  BY DEF Flow, States, Conns
<1>2. /\ n \in 0 .. Len(d) /\ w \in States /\ w.conn = s.conn /\ w.queue = s.queue
      /\ w.sends = s.sends /\ w.called = s.called /\ w.lost = s.lost
      /\ w.sock.wire = x \o a
  BY <1>1, WrittenState
<1>3. q \in Seq(Units) /\ x \in Seq(Units)
  BY <1>1, DataOf DEF States, Socks
<1>4. [w EXCEPT !.conn.buffer = SubSeq(@, Accepted(s, @) + 1, Len(@))] = t
  BY <1>2
<1>. HIDE DEF n, w
<1>5. a \in Seq(Units) /\ b \in Seq(Units) /\ a \o b = d
  BY <1>1, <1>2, SplitSeq
<1>. HIDE DEF a, b
<1>6. c \in Conns /\ c.buffer = b
  BY <1>2, <1>5 DEF States, Conns
<1>. HIDE DEF c
<1>7. /\ t \in States /\ t.conn.buffer = b /\ t.queue = s.queue
      /\ t.sends = s.sends /\ t.called = s.called /\ t.lost = s.lost
      /\ t.sock.wire = x \o a
  BY <1>2, <1>6 DEF States
<1>. HIDE DEF t, q, x, d
<1>8. (x \o a) \o (b \o (<<>> \o q)) = x \o ((a \o b) \o (<<>> \o q))
  <2>1. x \in Seq(Units) /\ a \in Seq(Units) /\ b \in Seq(Units) /\ q \in Seq(Units)
    BY <1>3, <1>5
  <2>2. <<>> \o q = q
    BY <2>1, ConcatEmptySeq
  <2>3. (x \o a) \o (b \o q) = x \o (a \o (b \o q))
    BY <2>1
  <2>4. (a \o b) \o q = a \o (b \o q)
    BY <2>1
  <2>. QED BY <2>2, <2>3, <2>4
<1>9. Stream(t, <<>>) = Stream(s, <<>>)
  BY <1>5, <1>7, <1>8 DEF Stream, q, x, d
<1>10. Flow(t, <<>>, k)
  BY <1>7, <1>9 DEF Flow
<1>. QED BY <1>4, <1>10 DEF w, d, n

(* Data that is discarded is out of the stream. *)
LEMMA LoseFlow ==
  ASSUME NEW s, NEW d, NEW k, Flow(s, d, k)
  PROVE  Flow([s EXCEPT !.lost = @ \cup ToSet(d)], <<>>, k)
<1>. DEFINE t == [s EXCEPT !.lost = @ \cup ToSet(d)]
            q == Data(s.queue)
            x == s.sock.wire
            y == s.conn.buffer
<1>1. s \in States /\ d \in Seq(Units) /\ s.called \in Seq(Msgs) /\ s.queue \in Seq(Functors)
      /\ x \in Seq(Units) /\ y \in Seq(Units)
  BY DEF Flow, States, Socks, Conns
<1>2. ToSet(d) \subseteq Units
  BY <1>1, LenProperties, ElementOfSeq DEF ToSet
<1>3. /\ t \in States /\ t.lost = s.lost \cup ToSet(d)
      /\ t.conn = s.conn /\ t.sock = s.sock
      /\ t.queue = s.queue /\ t.sends = s.sends /\ t.called = s.called
  BY <1>1, <1>2 DEF States
<1>4. q \in Seq(Units) /\ <<>> \in Seq(Units)
  BY <1>1, DataOf, EmptySeq
<1>. HIDE DEF t, q, x, y
<1>5. /\ x \o (y \o (d \o q)) = (x \o y) \o (d \o q)
      /\ x \o (y \o (<<>> \o q)) = (x \o y) \o q
      /\ x \o y \in Seq(Units)
  <2>1. x \in Seq(Units) /\ y \in Seq(Units) /\ d \in Seq(Units) /\ q \in Seq(Units)
    BY <1>1, <1>4
  <2>2. <<>> \o q = q
    BY <2>1, ConcatEmptySeq
  <2>3. (x \o y) \o (d \o q) = x \o (y \o (d \o q))
    BY <2>1
  <2>4. (x \o y) \o q = x \o (y \o q)
    BY <2>1
  <2>5. x \o y \in Seq(Units)
    BY <2>1
  <2>. QED BY <2>2, <2>3, <2>4, <2>5
<1>6. Stream(s, d) = (x \o y) \o (d \o q) /\ Stream(t, <<>>) = (x \o y) \o q
  BY <1>3, <1>5 DEF Stream, q, x, y
<1>7. Fits(s.called, s.lost \cup ToSet(d), (x \o y) \o q)
  BY <1>1, <1>4, <1>5, <1>6, FitsCut DEF Flow
<1>8. Flow(t, <<>>, k)
  BY <1>3, <1>4, <1>6, <1>7 DEF Flow
<1>. QED BY <1>8 DEF t

(* MsgBuffer::Write, with or without growth. *)
LEMMA StoreFlow ==
  ASSUME NEW s, NEW d, NEW k, Flow(s, d, k)
  PROVE  Flow(Store(s, d), <<>>, k)
<1>. DEFINE used == Len(s.conn.buffer)
            size == s.conn.capacity
            q == Data(s.queue)
            x == s.sock.wire
            y == s.conn.buffer
<1>1. s \in States /\ d \in Seq(Units) /\ s.called \in Seq(Msgs) /\ s.queue \in Seq(Functors)
      /\ x \in Seq(Units) /\ y \in Seq(Units) /\ s.conn \in Conns /\ size \in Nat
  BY DEF Flow, States, Socks, Conns
<1>2. used \in Nat /\ Len(d) \in Nat
  BY <1>1, LenProperties
<1>3. q \in Seq(Units) /\ <<>> \in Seq(Units)
  BY <1>1, DataOf, EmptySeq
<1>4. CASE used + Len(d) <= size
  <2>. DEFINE c == [s.conn EXCEPT !.buffer = y \o d]
              t == [s EXCEPT !.conn = c]
  <2>1. y \o d \in Seq(Units)
    BY <1>1, ConcatProperties
  <2>2. c \in Conns /\ c.buffer = y \o d
    BY <1>1, <2>1 DEF Conns
  <2>3. Store(s, d) = t
    BY <1>4 DEF Store
  <2>. HIDE DEF c
  <2>4. /\ t \in States /\ t.conn.buffer = y \o d /\ t.sock = s.sock /\ t.lost = s.lost
        /\ t.queue = s.queue /\ t.sends = s.sends /\ t.called = s.called
    BY <1>1, <2>2 DEF States
  <2>. HIDE DEF t, q, x, y
  <2>5. x \o ((y \o d) \o (<<>> \o q)) = x \o (y \o (d \o q))
    <3>1. x \in Seq(Units) /\ y \in Seq(Units) /\ d \in Seq(Units) /\ q \in Seq(Units)
      BY <1>1, <1>3
    <3>2. <<>> \o q = q
      BY <3>1, ConcatEmptySeq
    <3>3. (y \o d) \o q = y \o (d \o q)
      BY <3>1, SMTT(30)
    <3>. QED BY <3>2, <3>3
  <2>6. Stream(t, <<>>) = Stream(s, d)
    BY <2>4, <2>5 DEF Stream, q, x, y
  <2>7. Flow(t, <<>>, k)
    BY <1>3, <2>4, <2>6 DEF Flow
  <2>. QED BY <2>3, <2>7
<1>5. CASE ~(used + Len(d) <= size)
  <2>. DEFINE big == IF 2 * size > used + Len(d) THEN 2 * size ELSE used + Len(d)
              c == [s.conn EXCEPT !.buffer = d, !.capacity = big]
              f == [s EXCEPT !.conn = c]
              t == [f EXCEPT !.lost = @ \cup ToSet(y)]
  <2>1. big \in Nat
    BY <1>1, <1>2
  <2>2. Store(s, d) = t
    BY <1>1, <1>5 DEF Store, States
  <2>. HIDE DEF big, used, size
  <2>3. c \in Conns /\ c.buffer = d
    BY <1>1, <2>1 DEF Conns
  <2>. HIDE DEF c
  <2>4. ToSet(y) \subseteq Units
    BY <1>1, LenProperties, ElementOfSeq DEF ToSet
  <2>5. /\ t \in States /\ t.conn.buffer = d /\ t.sock = s.sock /\ t.lost = s.lost \cup ToSet(y)
        /\ t.queue = s.queue /\ t.sends = s.sends /\ t.called = s.called
    BY <1>1, <2>3, <2>4 DEF States
  <2>. HIDE DEF t, q, x, y
  <2>6. x \o (d \o (<<>> \o q)) = x \o (d \o q) /\ d \o q \in Seq(Units)
    BY <1>1, <1>3
  <2>7. Stream(t, <<>>) = x \o (d \o q) /\ Stream(s, d) = x \o (y \o (d \o q))
    BY <2>5, <2>6 DEF Stream, q, x, y
  <2>8. Fits(s.called, s.lost \cup ToSet(y), x \o (d \o q))
    BY <1>1, <2>6, <2>7, FitsCut DEF Flow
  <2>9. Flow(t, <<>>, k)
    BY <1>3, <2>5, <2>7, <2>8 DEF Flow
  <2>. QED BY <2>2, <2>9
<1>. QED BY <1>4, <1>5

-----------------------------------------------------------------------------
(* A functor without data is queued. *)
LEMMA QueueFlow ==
  ASSUME NEW s, NEW k, Flow(s, <<>>, k), NEW op \in {"Shutdown", "ForceClose", "Complete"}
  PROVE  Flow(QueueInLoop(s, op, <<>>), <<>>, k)
<1>. DEFINE f == [op |-> op, data |-> <<>>]
            q == Append(s.queue, f)
            t == [s EXCEPT !.queue = q]
<1>1. s \in States /\ s.queue \in Seq(Functors) /\ Plain(s.queue) /\ <<>> \in Seq(Units)
  BY EmptySeq DEF Flow, States
<1>2. f \in Functors /\ f.data = <<>> /\ f.op # "Send"
  BY <1>1 DEF Functors
<1>3. q \in Seq(Functors)
  BY <1>1, <1>2, AppendProperties
<1>4. QueueInLoop(s, op, <<>>) = t
  BY DEF QueueInLoop
<1>. HIDE DEF f
<1>5. Plain(q)
  BY <1>1, <1>2, PlainOf
<1>6. Data(q) = Data(s.queue) /\ Marks(q) = Marks(s.queue)
  <2>1. Data(s.queue) \in Seq(Units) /\ Data(q) = Data(s.queue) \o <<>>
    BY <1>1, <1>2, DataOf
  <2>2. Marks(s.queue) \in Seq({"Send"}) /\ Marks(q) = Marks(s.queue) \o <<>>
    BY <1>1, <1>2, MarksOf DEF Mark
  <2>. QED BY <2>1, <2>2, ConcatEmptySeq
<1>. HIDE DEF q
<1>7. /\ t \in States /\ t.queue = q /\ t.conn = s.conn /\ t.sock = s.sock
      /\ t.sends = s.sends /\ t.called = s.called /\ t.lost = s.lost
  BY <1>1, <1>3 DEF States
<1>. HIDE DEF t
<1>8. Stream(t, <<>>) = Stream(s, <<>>)
  BY <1>6, <1>7 DEF Stream
<1>9. Flow(t, <<>>, k)
  BY <1>5, <1>6, <1>7, <1>8 DEF Flow
<1>. QED BY <1>4, <1>9

LEMMA KeepFlow ==
  ASSUME NEW s, NEW d, NEW k, Flow(s, d, k), Sound(s), s.conn.state = "kConnected"
  PROVE  Flow(Keep(s, d), <<>>, k)
<1>. DEFINE c == [s.conn EXCEPT !.buffered = TRUE, !.buffer = <<>>, !.capacity = Capacity]
            new == [s EXCEPT !.conn = c]
            fresh == IF s.conn.buffered THEN s ELSE new
            stored == Store(fresh, d)
<1>1. s \in States /\ s.conn \in Conns /\ <<>> \in Seq(Units) /\ Capacity \in Nat
  BY EmptySeq, ConnectionAssumption DEF Flow, States
<1>2. Same(s, s)
  BY <1>1 DEF Same
<1>3. ASSUME ~s.conn.buffered PROVE Same(s, new)
  <2>1. s.conn.buffer = <<>>
    BY <1>3 DEF Sound, Waits
  <2>2. c \in Conns /\ c.buffer = s.conn.buffer
    BY <1>1, <2>1 DEF Conns
  <2>. HIDE DEF c
  <2>. QED BY <1>1, <2>2, SetConn
<1>4. fresh = IF s.conn.buffered THEN s
              ELSE [s EXCEPT !.conn.buffered = TRUE, !.conn.buffer = <<>>,
                             !.conn.capacity = Capacity]
  BY <1>1 DEF States
<1>5. Keep(s, d) = IF d = <<>> THEN s
                   ELSE IF stored.conn.writing THEN stored ELSE EnableWriting(stored)
  BY <1>4 DEF Keep
<1>. HIDE DEF new
<1>6. Flow(fresh, d, k)
  BY <1>2, <1>3, SameFlow
<1>. HIDE DEF fresh
<1>7. Flow(stored, <<>>, k) /\ stored \in States
  BY <1>6, StoreFlow DEF Flow
<1>. HIDE DEF stored
<1>8. Flow(EnableWriting(stored), <<>>, k)
  <2>. DEFINE w == [stored EXCEPT !.conn.writing = TRUE]
  <2>1. Same(stored, w) /\ w \in States
    BY <1>7, SetWriting DEF Same
  <2>. HIDE DEF w
  <2>2. Same(w, Update(w))
    BY <2>1, UpdateSame
  <2>3. Flow(Update(w), <<>>, k)
    BY <1>7, <2>1, <2>2, SameFlow
  <2>. QED BY <2>3 DEF EnableWriting, w
<1>. QED BY <1>5, <1>7, <1>8

LEMMA SendInLoopFlow ==
  ASSUME NEW s, NEW d, NEW k, Flow(s, d, k), Sound(s)
  PROVE  Flow(SendInLoop(s, d), <<>>, k)
<1>0. s \in States /\ d \in Seq(Units)
  BY DEF Flow
<1>1. CASE s.conn.state # "kConnected"
  BY <1>1, LoseFlow DEF SendInLoop
<1>2. CASE s.conn.state = "kConnected" /\ ~Direct(s)
  <2>1. SendInLoop(s, d) = Keep(s, d)
    BY <1>2 DEF SendInLoop
  <2>. QED BY <1>2, <2>1, KeepFlow
<1>3. CASE s.conn.state = "kConnected" /\ Direct(s) /\ s.sock.reset
  <2>. DEFINE e == [s EXCEPT !.sock.error = FALSE]
  <2>1. Same(s, e)
    BY <1>0, SetError
  <2>2. SendInLoop(s, d) = [e EXCEPT !.lost = @ \cup ToSet(d)]
    BY <1>0, <1>3 DEF SendInLoop, States
  <2>. HIDE DEF e
  <2>3. Flow(e, d, k)
    BY <2>1, SameFlow
  <2>4. Flow([e EXCEPT !.lost = @ \cup ToSet(d)], <<>>, k)
    BY <2>3, LoseFlow, Zenon
  <2>. QED BY <2>2, <2>4
<1>4. CASE s.conn.state = "kConnected" /\ Direct(s) /\ ~s.sock.reset
  <2>. DEFINE n == Accepted(s, d)
              w == Written(s, d)
              rest == SubSeq(d, n + 1, Len(d))
  <2>1. SendInLoop(s, d) = IF n = Len(d) THEN QueueInLoop(w, "Complete", <<>>)
                           ELSE Keep(w, rest)
    BY <1>4 DEF SendInLoop
  <2>2. s.conn.buffer = <<>>
    BY <1>4 DEF Sound, Waits, Direct
  <2>3. Flow(w, rest, k)
    BY <2>2, WrittenFlow
  <2>4. Sound(w) /\ w.conn.state = "kConnected"
    BY <1>4, WrittenAlike, AlikeIsSound DEF Alike
  <2>5. n = Len(d) => rest = <<>>
    <3>1. Len(d) \in Nat
      BY <1>0, LenProperties
    <3>. QED BY <3>1, SubSeqEmpty
  <2>. HIDE DEF n, w, rest
  <2>6. n = Len(d) => Flow(QueueInLoop(w, "Complete", <<>>), <<>>, k)
    BY <2>3, <2>5, QueueFlow
  <2>7. Flow(Keep(w, rest), <<>>, k)
    BY <2>3, <2>4, KeepFlow
  <2>. QED BY <2>1, <2>6, <2>7
<1>. QED BY <1>1, <1>2, <1>3, <1>4

-----------------------------------------------------------------------------
(* The call of another thread, or behind one: the message waits its turn. *)
LEMMA QueueSendFlow ==
  ASSUME NEW s, Flow(s, <<>>, 0), NEW m \in Msgs \ ToSet(s.called)
  PROVE  Flow(QueueInLoop([Calls(s, m) EXCEPT !.sends = @ + 1], "Send", Body(m)), <<>>, 0)
<1>. DEFINE f == [op |-> "Send", data |-> Body(m)]
            q == Append(s.queue, f)
            c == Append(s.called, m)
            t == [s EXCEPT !.called = c, !.sends = @ + 1, !.queue = q]
<1>1. s \in States /\ s.queue \in Seq(Functors) /\ s.called \in Seq(Msgs) /\ Once(s.called)
      /\ Plain(s.queue) /\ s.sends \in Nat /\ s.sends = Len(Marks(s.queue)) + 0
  BY DEF Flow, States
<1>2. Body(m) \in Seq(Units)
  BY BodyUnits
<1>3. f \in Functors /\ f.data = Body(m) /\ f.op = "Send"
  BY <1>2 DEF Functors
<1>4. QueueInLoop([Calls(s, m) EXCEPT !.sends = @ + 1], "Send", Body(m)) = t
  BY <1>1 DEF QueueInLoop, Calls, States
<1>. HIDE DEF f
<1>5. q \in Seq(Functors) /\ Plain(q)
  BY <1>1, <1>3, PlainOf, AppendProperties
<1>6. Data(q) = Data(s.queue) \o Body(m) /\ Data(s.queue) \in Seq(Units)
  BY <1>1, <1>3, DataOf
<1>7. s.sends + 1 = Len(Marks(q))
  <2>1. Marks(s.queue) \in Seq({"Send"}) /\ Marks(q) = Marks(s.queue) \o <<"Send">>
    BY <1>1, <1>3, MarksOf DEF Mark
  <2>2. Len(Marks(s.queue) \o <<"Send">>) = Len(Marks(s.queue)) + 1
    BY <2>1
  <2>. QED BY <1>1, <2>1, <2>2, LenProperties
<1>8. c \in Seq(Msgs) /\ Once(c)
  BY <1>1, OnceCall
<1>9. Stream(s, <<>>) \in Seq(Units)
  BY <1>1, <1>6, EmptySeq, ConcatProperties DEF Stream, States, Socks, Conns
<1>10. Fits(c, s.lost, Stream(s, <<>>) \o Body(m))
  BY <1>1, <1>9, FitsCall DEF Flow
<1>. HIDE DEF q, c
<1>11. /\ t \in States /\ t.queue = q /\ t.called = c /\ t.sends = s.sends + 1
       /\ t.conn = s.conn /\ t.sock = s.sock /\ t.lost = s.lost
  <2>1. s.sends + 1 \in Nat
    BY <1>1
  <2>2. t.queue = q /\ t.called = c /\ t.sends = s.sends + 1
    BY <1>1 DEF States
  <2>3. t \in States
    BY <1>1, <1>5, <1>8, <2>1 DEF States
  <2>. QED BY <1>1, <2>2, <2>3 DEF States
<1>. HIDE DEF t
<1>12. Stream(t, <<>>) = Stream(s, <<>>) \o Body(m)
  <2>. DEFINE x == s.sock.wire
              y == s.conn.buffer
              z == Data(s.queue)
              b == Body(m)
  <2>1. x \in Seq(Units) /\ y \in Seq(Units) /\ z \in Seq(Units) /\ b \in Seq(Units)
    BY <1>1, <1>2, <1>6 DEF States, Socks, Conns
  <2>2. Stream(t, <<>>) = x \o (y \o (<<>> \o (z \o b)))
    BY <1>6, <1>11 DEF Stream
  <2>3. Stream(s, <<>>) = x \o (y \o (<<>> \o z))
    BY DEF Stream
  <2>. HIDE DEF x, y, z, b
  <2>4. z \o b \in Seq(Units) /\ y \o z \in Seq(Units)
    BY <2>1, ConcatProperties
  <2>5. <<>> \o z = z /\ <<>> \o (z \o b) = z \o b
    BY <2>1, <2>4, ConcatEmptySeq
  <2>6. (x \o (y \o z)) \o b = x \o ((y \o z) \o b)
    BY <2>1, <2>4
  <2>7. (y \o z) \o b = y \o (z \o b)
    BY <2>1
  <2>8. Stream(t, <<>>) = Stream(s, <<>>) \o b
    BY <2>2, <2>3, <2>5, <2>6, <2>7
  <2>. QED BY <2>8 DEF b
<1>13. Len(Marks(q)) + 0 = Len(Marks(q))
  BY <1>1, <1>7
<1>14. Flow(t, <<>>, 0)
  BY <1>5, <1>7, <1>8, <1>10, <1>11, <1>12, <1>13, EmptySeq DEF Flow
<1>. QED BY <1>4, <1>14

(* The echo that waits: its data is gone when its turn comes. *)
LEMMA QueueEchoFlow ==
  ASSUME NEW s, Flow(s, <<>>, 0), NEW m \in Msgs \ ToSet(s.called)
  PROVE  Flow(QueueInLoop([Calls(s, m) EXCEPT !.sends = @ + 1,
                                              !.lost = @ \cup ToSet(Body(m))],
                          "Send", <<>>), <<>>, 0)
<1>. DEFINE f == [op |-> "Send", data |-> <<>>]
            q == Append(s.queue, f)
            c == Append(s.called, m)
            g == s.lost \cup ToSet(Body(m))
            t == [s EXCEPT !.called = c, !.sends = @ + 1, !.lost = g, !.queue = q]
<1>1. s \in States /\ s.queue \in Seq(Functors) /\ s.called \in Seq(Msgs) /\ Once(s.called)
      /\ Plain(s.queue) /\ s.sends \in Nat /\ s.sends = Len(Marks(s.queue)) + 0
      /\ s.lost \subseteq Units
  BY DEF Flow, States
<1>2. <<>> \in Seq(Units)
  BY EmptySeq
<1>3. f \in Functors /\ f.data = <<>> /\ f.op = "Send"
  BY <1>2 DEF Functors
<1>4. QueueInLoop([Calls(s, m) EXCEPT !.sends = @ + 1, !.lost = @ \cup ToSet(Body(m))],
                  "Send", <<>>) = t
  BY <1>1 DEF QueueInLoop, Calls, States
<1>. HIDE DEF f
<1>5. q \in Seq(Functors) /\ Plain(q)
  BY <1>1, <1>3, PlainOf, AppendProperties
<1>6. Data(q) = Data(s.queue) /\ Data(s.queue) \in Seq(Units)
  <2>1. Data(s.queue) \in Seq(Units) /\ Data(q) = Data(s.queue) \o <<>>
    BY <1>1, <1>3, DataOf
  <2>. QED BY <2>1, ConcatEmptySeq
<1>7. s.sends + 1 = Len(Marks(q))
  <2>1. Marks(s.queue) \in Seq({"Send"}) /\ Marks(q) = Marks(s.queue) \o <<"Send">>
    BY <1>1, <1>3, MarksOf DEF Mark
  <2>2. Len(Marks(s.queue) \o <<"Send">>) = Len(Marks(s.queue)) + 1
    BY <2>1
  <2>. QED BY <1>1, <2>1, <2>2, LenProperties
<1>8. c \in Seq(Msgs) /\ Once(c) /\ g \subseteq Units
  BY <1>1, OnceCall, BodyUnits DEF Units
<1>9. Stream(s, <<>>) \in Seq(Units)
  BY <1>1, <1>6, EmptySeq, ConcatProperties DEF Stream, States, Socks, Conns
<1>10. Fits(c, g, Stream(s, <<>>))
  BY <1>1, <1>9, FitsDrop DEF Flow
<1>. HIDE DEF q, c, g
<1>11. /\ t \in States /\ t.queue = q /\ t.called = c /\ t.sends = s.sends + 1
       /\ t.conn = s.conn /\ t.sock = s.sock /\ t.lost = g
  <2>1. s.sends + 1 \in Nat
    BY <1>1
  <2>2. t.queue = q /\ t.called = c /\ t.sends = s.sends + 1
    BY <1>1 DEF States
  <2>3. t \in States
    BY <1>1, <1>5, <1>8, <2>1 DEF States
  <2>. QED BY <1>1, <2>2, <2>3 DEF States
<1>. HIDE DEF t
<1>12. Stream(t, <<>>) = Stream(s, <<>>)
  BY <1>6, <1>11 DEF Stream
<1>13. Len(Marks(q)) + 0 = Len(Marks(q))
  BY <1>1, <1>7
<1>14. Flow(t, <<>>, 0)
  BY <1>2, <1>5, <1>7, <1>8, <1>10, <1>11, <1>12, <1>13 DEF Flow
<1>. QED BY <1>4, <1>14

(* The call that is first in line: nothing waits in the queue. *)
LEMMA CallsFlow ==
  ASSUME NEW s, Flow(s, <<>>, 0), NEW m \in Msgs \ ToSet(s.called), ~MustQueue(s)
  PROVE  Flow(Calls(s, m), Body(m), 0)
<1>. DEFINE c == Append(s.called, m)
            t == [s EXCEPT !.called = c]
<1>1. s \in States /\ s.queue \in Seq(Functors) /\ s.called \in Seq(Msgs) /\ Once(s.called)
      /\ Plain(s.queue) /\ s.sends \in Nat /\ s.sends = Len(Marks(s.queue)) + 0
  BY DEF Flow, States
<1>2. Body(m) \in Seq(Units) /\ <<>> \in Seq(Units)
  BY BodyUnits, EmptySeq
<1>3. c \in Seq(Msgs) /\ Once(c)
  BY <1>1, OnceCall
<1>4. Data(s.queue) = <<>>
  <2>1. Marks(s.queue) \in Seq({"Send"})
    BY <1>1, MarksOf
  <2>2. Len(Marks(s.queue)) = 0
    BY <1>1, <2>1, LenProperties DEF MustQueue
  <2>3. Marks(s.queue) = <<>>
    BY <2>1, <2>2, EmptySeq
  <2>. QED BY <1>1, <2>3, NoMarkNoData
<1>. DEFINE x == s.sock.wire
            y == s.conn.buffer
            b == Body(m)
<1>5. x \in Seq(Units) /\ y \in Seq(Units) /\ b \in Seq(Units)
  BY <1>1, <1>2 DEF States, Socks, Conns
<1>6. Stream(s, <<>>) = x \o (y \o (<<>> \o <<>>))
  BY <1>4 DEF Stream
<1>7. <<>> \o <<>> = <<>> /\ y \o <<>> = y /\ b \o <<>> = b /\ x \o y \in Seq(Units)
  BY <1>2, <1>5, ConcatEmptySeq, ConcatProperties
<1>. HIDE DEF x, y, b
<1>8. Fits(c, s.lost, (x \o y) \o b)
  <2>1. Fits(s.called, s.lost, x \o y)
    BY <1>6, <1>7 DEF Flow
  <2>. QED BY <1>1, <1>7, <2>1, FitsCall DEF b
<1>. HIDE DEF c
<1>9. /\ t \in States /\ t.called = c /\ t.queue = s.queue /\ t.sends = s.sends
      /\ t.conn = s.conn /\ t.sock = s.sock /\ t.lost = s.lost
  BY <1>1, <1>3 DEF States
<1>10. Calls(s, m) = t
  BY DEF Calls, c
<1>. HIDE DEF t
<1>11. Stream(t, b) = x \o (y \o b)
  BY <1>4, <1>7, <1>9 DEF Stream, x, y
<1>12. (x \o y) \o b = x \o (y \o b)
  BY <1>5
<1>13. Flow(t, b, 0)
  BY <1>1, <1>3, <1>5, <1>8, <1>9, <1>11, <1>12 DEF Flow
<1>. QED BY <1>10, <1>13 DEF b

LEMMA SendFlow ==
  ASSUME NEW s, Flow(s, <<>>, 0), Sound(s), NEW m \in Msgs \ ToSet(s.called)
  PROVE  Flow(Send(s, m), <<>>, 0) /\ Flow(Echo(s, m), <<>>, 0)
<1>1. CASE MustQueue(s)
  BY <1>1, QueueSendFlow, QueueEchoFlow DEF Send, Echo
<1>2. CASE ~MustQueue(s)
  <2>. DEFINE c == Calls(s, m)
  <2>1. Alike(s, c)
    BY DEF Calls, Sound, Shape, Alike
  <2>2. Flow(c, Body(m), 0)
    BY <1>2, CallsFlow
  <2>3. Send(s, m) = SendInLoop(c, Body(m)) /\ Echo(s, m) = SendInLoop(c, Body(m))
    BY <1>2 DEF Send, Echo
  <2>. HIDE DEF c
  <2>4. Flow(SendInLoop(c, Body(m)), <<>>, 0)
    BY <2>1, <2>2, AlikeIsSound, SendInLoopFlow
  <2>. QED BY <2>3, <2>4
<1>. QED BY <1>1, <1>2

-----------------------------------------------------------------------------
(* Whatever a handler of the application does. *)
LEMMA AppFlow ==
  ASSUME NEW s, Flow(s, <<>>, 0), Sound(s)
  PROVE  \A t \in AppCode(s) : Flow(t, <<>>, 0) /\ Sound(t)
<1>1. ASSUME NEW r, Flow(r, <<>>, 0), Sound(r), NEW t \in AppOnce(r)
      PROVE  Flow(t, <<>>, 0) /\ Sound(t)
  <2>1. r \in States
    BY <1>1 DEF Flow
  <2>2. CASE t = r
    BY <1>1, <2>2
  <2>3. CASE t = Shutdown(r)
    BY <1>1, <2>1, <2>3, ShutdownSame, ShutdownSound, SameFlow
  <2>4. CASE t = ForceClose(r)
    BY <1>1, <2>1, <2>4, ForceCloseSame, ForceCloseSound, SameFlow
  <2>5. CASE \E m \in Msgs \ ToSet(r.called) : t = Send(r, m) \/ t = Echo(r, m)
    BY <1>1, <2>5, SendFlow, SendSound
  <2>. QED BY <1>1, <2>2, <2>3, <2>4, <2>5 DEF AppOnce
<1>. QED
  BY <1>1 DEF AppCode

LEMMA HandleReadFlow ==
  ASSUME NEW s, Flow(s, <<>>, 0), Sound(s)
  PROVE  \A t \in HandleRead(s) : Flow(t, <<>>, 0) /\ Sound(t)
<1>0. s \in States
  BY DEF Flow
<1>1. CASE s.sock.unread > 0
  <2>1. ASSUME NEW n \in 1 .. s.sock.unread
        PROVE  /\ Flow([s EXCEPT !.sock.unread = @ - n], <<>>, 0)
               /\ Sound([s EXCEPT !.sock.unread = @ - n])
    <3>. DEFINE k == [s.sock EXCEPT !.unread = @ - n]
                r == [s EXCEPT !.sock = k]
    <3>1. s.sock \in Socks /\ s.sock.unread \in 0 .. MaxUnread /\ MaxUnread \in Nat
      BY <1>0, ConnectionAssumption DEF States, Socks
    <3>2. s.sock.unread - n \in 0 .. MaxUnread
      BY <3>1
    <3>3. k \in Socks /\ k.wire = s.sock.wire
      BY <3>1, <3>2 DEF Socks
    <3>4. Alike(s, r)
      BY DEF Sound, Shape, Alike
    <3>. HIDE DEF k
    <3>5. Same(s, r)
      BY <1>0, <3>3, SetSock
    <3>. HIDE DEF r
    <3>6. Flow(r, <<>>, 0) /\ Sound(r)
      BY <3>4, <3>5, SameFlow, AlikeIsSound
    <3>. QED BY <3>6 DEF r, k
  <2>2. ASSUME NEW t \in HandleRead(s) PROVE Flow(t, <<>>, 0) /\ Sound(t)
    <3>1. PICK n \in 1 .. s.sock.unread : t \in AppCode([s EXCEPT !.sock.unread = @ - n])
      BY <1>1 DEF HandleRead
    <3>. QED BY <2>1, <3>1, AppFlow
  <2>. QED BY <2>2
<1>2. CASE ~(s.sock.unread > 0)
  <2>1. Same(s, s) /\ Same(s, HandleClose(s)) /\ Same(s, [s EXCEPT !.sock.error = FALSE])
    BY <1>0, HandleCloseSame, SetError DEF Same
  <2>2. /\ Flow(HandleClose(s), <<>>, 0)
        /\ Flow([s EXCEPT !.sock.error = FALSE], <<>>, 0)
    BY <2>1, SameFlow, Zenon
  <2>3. HandleRead(s) \subseteq {s, HandleClose(s), [s EXCEPT !.sock.error = FALSE]}
    BY <1>2 DEF HandleRead
  <2>. QED BY <2>2, <2>3, HandleReadSound
<1>. QED
  BY <1>1, <1>2

LEMMA HandleWriteFlow ==
  ASSUME NEW s, Flow(s, <<>>, 0), Sound(s)
  PROVE  \A t \in HandleWrite(s) : Flow(t, <<>>, 0) /\ Sound(t)
<1>0. s \in States /\ s.conn \in Conns
  BY DEF Flow, States
<1>1. CASE ~s.conn.writing
  BY <1>1 DEF HandleWrite
<1>2. CASE s.conn.writing /\ s.conn.buffer = <<>>
  <2>. DEFINE c == [s.conn EXCEPT !.buffered = FALSE]
              f == [s EXCEPT !.conn = c]
              o == [f EXCEPT !.conn.writing = FALSE]
              e == DisableWriting([s EXCEPT !.conn.buffered = FALSE])
  <2>1. c \in Conns /\ c.buffer = s.conn.buffer
    BY <1>0 DEF Conns
  <2>2. f = [s EXCEPT !.conn.buffered = FALSE]
    BY <1>0 DEF States
  <2>. HIDE DEF c
  <2>3. Same(s, f) /\ f \in States
    BY <1>0, <2>1, SetConn DEF Same
  <2>. HIDE DEF f
  <2>4. Same(f, o) /\ o \in States
    BY <2>3, SetWriting DEF Same
  <2>5. e = Update(o)
    BY <2>2 DEF DisableWriting
  <2>. HIDE DEF o, e
  <2>6. Flow(e, <<>>, 0)
    BY <2>3, <2>4, <2>5, UpdateSame, SameFlow
  <2>7. HandleWrite(s) = {IF t.conn.state = "kDisconnecting" THEN Shutdown(t) ELSE t :
                            t \in AppCode(e)}
    BY <1>2 DEF HandleWrite, e
  <2>8. Sound(e)
    <3>. DEFINE p == [s EXCEPT !.conn.buffered = FALSE]
                q == [p EXCEPT !.conn.writing = FALSE]
    <3>1. /\ {"conn", "sock"} \subseteq DOMAIN q /\ Shape(q.conn, q.sock)
          /\ q.conn.writing = FALSE /\ q.conn.buffer = <<>>
          /\ q.sock = s.sock
      BY <1>2 DEF Sound, Shape
    <3>2. ~s.sock.shut
      BY <1>2 DEF Sound, Waits
    <3>3. e = Update(q)
      BY DEF DisableWriting, e
    <3>. HIDE DEF p, q
    <3>4. Sound(q)
      BY <3>1, <3>2 DEF Sound, Waits
    <3>. QED BY <3>3, <3>4, UpdateAlike, AlikeIsSound
  <2>9. \A t \in AppCode(e) : /\ Flow(t, <<>>, 0) /\ Sound(t)
                              /\ Flow(Shutdown(t), <<>>, 0) /\ Sound(Shutdown(t))
    <3>1. ASSUME NEW t \in AppCode(e)
          PROVE  /\ Flow(t, <<>>, 0) /\ Sound(t)
                 /\ Flow(Shutdown(t), <<>>, 0) /\ Sound(Shutdown(t))
      <4>1. Flow(t, <<>>, 0) /\ Sound(t) /\ t \in States
        BY <2>6, <2>8, AppFlow DEF Flow
      <4>. QED BY <4>1, ShutdownSame, ShutdownSound, SameFlow
    <3>. QED BY <3>1
  <2>. QED BY <2>7, <2>9
<1>3. CASE s.conn.writing /\ s.conn.buffer # <<>> /\ s.sock.reset
  <2>1. HandleWrite(s) = {[s EXCEPT !.sock.error = FALSE]}
    BY <1>3 DEF HandleWrite
  <2>2. Same(s, [s EXCEPT !.sock.error = FALSE])
    BY <1>0, SetError
  <2>3. Flow([s EXCEPT !.sock.error = FALSE], <<>>, 0)
    BY <2>2, SameFlow, Zenon
  <2>. QED BY <2>1, <2>3, HandleWriteSound
<1>4. CASE s.conn.writing /\ s.conn.buffer # <<>> /\ ~s.sock.reset
  <2>. DEFINE r == [Written(s, s.conn.buffer) EXCEPT !.conn.buffer =
                      SubSeq(@, Accepted(s, @) + 1, Len(@))]
  <2>1. HandleWrite(s) = {r}
    BY <1>4 DEF HandleWrite
  <2>2. Flow(r, <<>>, 0)
    BY FlushFlow
  <2>. HIDE DEF r
  <2>. QED BY <2>1, <2>2, HandleWriteSound
<1>. QED
  BY <1>1, <1>2, <1>3, <1>4

-----------------------------------------------------------------------------
(* What every handler begins and ends with. *)
FlowInv == IInv /\ Flow(Now, <<>>, 0)

LEMMA NowBecome ==
  ASSUME NEW s, Flow(s, <<>>, 0), Sound(s), Become(s)
  PROVE  FlowInv'
<1>1. IInv'
  BY BecomeInvariant
<1>2. /\ s \in [conn : Conns, sock : Socks, queue : Seq(Functors), sends : Nat,
               called : Seq(Msgs), lost : SUBSET Units, threw : BOOLEAN]
  BY DEF Flow, States
<1>3. s = [conn |-> s.conn, sock |-> s.sock, queue |-> s.queue, sends |-> s.sends,
           called |-> s.called, lost |-> s.lost, threw |-> s.threw]
  BY <1>2
<1>4. Now' = s
  BY <1>3 DEF Become, Now
<1>5. Flow(Now, <<>>, 0)'
  <2>1. Flow(Now', <<>>, 0)
    BY <1>4
  <2>. QED BY <2>1
<1>. QED BY <1>1, <1>5 DEF FlowInv

(* What no handler reads as a whole. *)
Around ==
  /\ phase \in {"select", "handle", "functors"}
  /\ event \in [in : BOOLEAN, out : BOOLEAN, err : BOOLEAN]
  /\ peer \in {"open", "shut", "gone"} /\ spent \in BOOLEAN

LEMMA TypeOfNow == Around /\ Now \in States <=> TypeOK
<1>1. Now \in States <=> /\ conn \in Conns /\ sock \in Socks /\ queue \in Seq(Functors)
                         /\ sends \in Nat /\ called \in Seq(Msgs) /\ lost \in SUBSET Units
                         /\ threw \in BOOLEAN
  BY DEF Now, States
<1>. QED BY <1>1 DEF TypeOK, Around, Conns, Socks, Functors

LEMMA FlowInit == Init => FlowInv /\ Around
<1>. SUFFICES ASSUME Init PROVE FlowInv /\ Around
  OBVIOUS
<1>1. IInv
  BY InitInvariant
<1>2. ASSUME NEW S, NEW h \in [1 .. 0 -> Seq(S)] PROVE FlattenSeq(h) = <<>>
  <2>1. h \in Seq(Seq(S))
    BY SeqDef
  <2>2. Len(h) = 0
    BY <2>1, LenProperties
  <2>3. \A i \in 1 .. Len(h) : h[i] = <<>>
    BY <2>2
  <2>. QED BY <2>1, <2>3, FlattenEmpty
<1>3. Data(<<>>) = <<>> /\ Marks(<<>>) = <<>>
  <2>. DEFINE e == <<>>
              h == [i \in DOMAIN e |-> e[i].data]
              k == [i \in DOMAIN e |-> Mark(e[i])]
  <2>1. DOMAIN e = 1 .. 0
    OBVIOUS
  <2>. HIDE DEF e
  <2>2. h \in [1 .. 0 -> Seq(Units)] /\ k \in [1 .. 0 -> Seq({"Send"})]
    BY <2>1
  <2>3. FlattenSeq(h) = <<>> /\ FlattenSeq(k) = <<>>
    <3>. HIDE DEF h, k
    <3>. QED BY <1>2, <2>2
  <2>. QED BY <2>3 DEF Data, Marks, e
<1>4. /\ Now.conn = conn /\ Now.sock = sock /\ Now.queue = <<>> /\ Now.sends = 0
      /\ Now.called = <<>> /\ Now.lost = {}
      /\ conn.buffer = <<>> /\ sock.wire = <<>>
  BY DEF Now, Init
<1>5. <<>> \in Seq(Units) /\ <<>> \in Seq(Functors) /\ <<>> \in Seq(Msgs)
  BY EmptySeq
<1>6. Now \in States
  <2>1. conn \in Conns /\ sock \in Socks
    BY <1>5, ConnectionAssumption DEF Init, Conns, Socks
  <2>. QED BY <1>5, <2>1 DEF Init, Now, States
<1>7. Once(<<>>) /\ Plain(<<>>)
  BY DEF Once, Plain
<1>8. Fits(<<>>, {}, <<>>)
  <2>1. DOMAIN <<>> = {}
    OBVIOUS
  <2>2. ToSet(<<>>) = {}
    BY <2>1 DEF ToSet
  <2>3. {} \X (1 .. Size) = {}
    OBVIOUS
  <2>. QED BY <2>1, <2>2, <2>3 DEF Fits, InOrder
<1>9. Stream(Now, <<>>) = <<>>
  <2>1. <<>> \o <<>> = <<>>
    BY <1>5, ConcatEmptySeq
  <2>. QED BY <1>3, <1>4, <2>1 DEF Stream
<1>10. Len(<<>>) = 0
  BY EmptySeq
<1>11. Flow(Now, <<>>, 0)
  BY <1>3, <1>4, <1>5, <1>6, <1>7, <1>8, <1>9, <1>10 DEF Flow
<1>12. Around
  BY DEF Init, Around, None
<1>. QED BY <1>1, <1>11, <1>12 DEF FlowInv

(* The socket changes, but not what is on the wire. *)
LEMMA SocketFlow ==
  ASSUME FlowInv, IInv', sock' \in Socks, sock'.wire = sock.wire,
         UNCHANGED <<conn, queue, sends, called, lost, threw>>
  PROVE  FlowInv'
<1>1. Now \in States
  BY DEF FlowInv, Flow
<1>2. Now' = [Now EXCEPT !.sock = sock']
  BY DEF Now
<1>3. Now.sock = sock
  BY DEF Now
<1>4. Same(Now, [Now EXCEPT !.sock = sock'])
  BY <1>1, <1>3, SetSock
<1>5. Flow(Now', <<>>, 0)
  BY <1>2, <1>4, SameFlow DEF FlowInv
<1>. QED BY <1>5 DEF FlowInv

LEMMA SelectFlow == ASSUME FlowInv, Around, Select, IInv' PROVE FlowInv' /\ Around'
<1>1. sock \in Socks
  BY DEF FlowInv, Flow, States, Now
<1>2. sock' \in Socks /\ sock'.wire = sock.wire
  BY <1>1 DEF Select, Socks
<1>3. FlowInv'
  BY <1>2, SocketFlow DEF Select
<1>4. Readable(Now) \in BOOLEAN /\ Writable(Now) \in BOOLEAN /\ sock.error \in BOOLEAN
  BY <1>1 DEF Readable, Writable, Socks
<1>5. event' \in [in : BOOLEAN, out : BOOLEAN, err : BOOLEAN]
  <2>. DEFINE r == Readable(Now)
              w == Writable(Now)
  <2>1. event' = [in |-> r, out |-> w, err |-> sock.error] \/ event' = None
    BY DEF Select
  <2>2. None \in [in : BOOLEAN, out : BOOLEAN, err : BOOLEAN]
    BY DEF None
  <2>. HIDE DEF r, w
  <2>3. [in |-> r, out |-> w, err |-> sock.error] \in [in : BOOLEAN, out : BOOLEAN, err : BOOLEAN]
    BY <1>4 DEF r, w
  <2>. QED BY <2>1, <2>2, <2>3
<1>6. Around'
  BY <1>5 DEF Select, Around
<1>. QED BY <1>3, <1>6

LEMMA HandleEventFlow ==
  ASSUME FlowInv, Around, HandleEvent PROVE FlowInv' /\ Around'
<1>. DEFINE cleared == [Now EXCEPT !.sock.error = @ /\ ~event.err]
<1>1. Sound(Now) /\ Now \in States /\ Flow(Now, <<>>, 0)
  BY NowSound DEF FlowInv, Flow
<1>2. Alike(Now, cleared)
  BY <1>1 DEF Sound, Shape, Alike
<1>3. Same(Now, cleared)
  <2>. DEFINE v == Now.sock.error /\ ~event.err
  <2>1. v \in BOOLEAN
    OBVIOUS
  <2>2. cleared = [Now EXCEPT !.sock.error = v]
    BY <1>1 DEF States
  <2>. HIDE DEF v
  <2>. QED BY <1>1, <2>1, <2>2, SetError
<1>4. PICK t \in (IF event.in THEN HandleRead(cleared) ELSE {cleared}) :
        \E u \in (IF event.out THEN HandleWrite(t) ELSE {t}) :
            /\ Become(u)
            /\ spent' = (spent \/ (event.in /\ sock.reset /\ sock.unread > 0 /\ ~u.sock.edge))
  BY DEF HandleEvent
<1>. HIDE DEF cleared
<1>5. Sound(cleared) /\ Flow(cleared, <<>>, 0)
  BY <1>1, <1>2, <1>3, AlikeIsSound, SameFlow
<1>6. Sound(t) /\ Flow(t, <<>>, 0)
  BY <1>4, <1>5, HandleReadFlow
<1>7. PICK u \in (IF event.out THEN HandleWrite(t) ELSE {t}) :
            /\ Become(u)
            /\ spent' = (spent \/ (event.in /\ sock.reset /\ sock.unread > 0 /\ ~u.sock.edge))
  BY <1>4
<1>8. Sound(u) /\ Flow(u, <<>>, 0)
  BY <1>6, <1>7, HandleWriteFlow
<1>9. FlowInv'
  BY <1>7, <1>8, NowBecome
<1>10. spent' \in BOOLEAN
  BY <1>7
<1>11. Around'
  BY <1>10 DEF HandleEvent, Around, None
<1>. QED BY <1>9, <1>11

(* The functor at the head of the queue: its data is in the loop's hands. *)
LEMMA TakeFlow ==
  ASSUME FlowInv, queue # <<>>
  PROVE  LET f == Head(queue)
             s == [Now EXCEPT !.queue = Tail(@)]
         IN /\ Sound(s)
            /\ f.op = "Send" => Flow(s, f.data, 1)
            /\ f.op # "Send" => Flow(s, <<>>, 0)
<1>. DEFINE f == Head(queue)
            q == Tail(queue)
            s == [Now EXCEPT !.queue = Tail(@)]
<1>1. Sound(Now) /\ Now \in States /\ Flow(Now, <<>>, 0)
  BY NowSound DEF FlowInv, Flow
<1>2. Alike(Now, s)
  BY <1>1 DEF Sound, Shape, Alike
<1>3. queue \in Seq(Functors) /\ Plain(queue) /\ sends = Len(Marks(queue)) + 0
      /\ Now.queue = queue /\ Now.sends = sends
  BY <1>1 DEF Flow, Now, States
<1>4. q \in Seq(Functors) /\ f \in Functors /\ Data(queue) = f.data \o Data(q)
  BY <1>3, DataOf
<1>5. Marks(queue) = Mark(f) \o Marks(q)
  BY <1>3, MarksOf
<1>6. Plain(q) /\ (f.op # "Send" => f.data = <<>>)
  BY <1>3, PlainOf
<1>7. f.data \in Seq(Units) /\ Data(q) \in Seq(Units) /\ <<>> \in Seq(Units)
  BY <1>4, DataOf, EmptySeq DEF Functors
<1>8. Marks(q) \in Seq({"Send"})
  BY <1>4, MarksOf
<1>. HIDE DEF f, q
<1>9. /\ s \in States /\ s.queue = q /\ s.conn = Now.conn /\ s.sock = Now.sock
      /\ s.sends = sends /\ s.called = Now.called /\ s.lost = Now.lost
  BY <1>1, <1>3, <1>4 DEF States, q
<1>. HIDE DEF s
<1>10. Stream(s, f.data) = Stream(Now, <<>>)
  <2>1. f.data \o Data(q) \in Seq(Units)
    BY <1>7, ConcatProperties
  <2>2. <<>> \o (f.data \o Data(q)) = f.data \o Data(q)
    BY <2>1, ConcatEmptySeq
  <2>. QED BY <1>3, <1>4, <1>9, <2>2 DEF Stream
<1>11. CASE f.op = "Send"
  <2>1. Marks(queue) = <<"Send">> \o Marks(q)
    BY <1>5, <1>11 DEF Mark
  <2>2. Len(<<"Send">> \o Marks(q)) = Len(Marks(q)) + 1 /\ Len(Marks(q)) \in Nat
    BY <1>8
  <2>3. sends = Len(Marks(q)) + 1
    BY <1>3, <2>1, <2>2
  <2>4. Flow(s, f.data, 1)
    BY <1>1, <1>6, <1>7, <1>9, <1>10, <2>3 DEF Flow
  <2>. QED BY <1>1, <1>2, <1>11, <2>4, AlikeIsSound DEF s, f
<1>12. CASE f.op # "Send"
  <2>1. Marks(queue) = <<>> \o Marks(q)
    BY <1>5, <1>12 DEF Mark
  <2>2. Marks(queue) = Marks(q)
    BY <1>8, <2>1, ConcatEmptySeq
  <2>3. f.data = <<>>
    BY <1>6, <1>12
  <2>4. Flow(s, <<>>, 0)
    BY <1>1, <1>3, <1>6, <1>7, <1>9, <1>10, <2>2, <2>3 DEF Flow
  <2>. QED BY <1>1, <1>2, <1>12, <2>4, AlikeIsSound DEF s, f
<1>. QED BY <1>11, <1>12

(* The functor of Send has run: it is counted no more. *)
LEMMA CountedFlow ==
  ASSUME NEW s, Flow(s, <<>>, 1), Sound(s)
  PROVE  Flow([s EXCEPT !.sends = @ - 1], <<>>, 0) /\ Sound([s EXCEPT !.sends = @ - 1])
<1>. DEFINE t == [s EXCEPT !.sends = @ - 1]
<1>1. /\ s \in States /\ s.queue \in Seq(Functors) /\ s.sends \in Nat
      /\ s.sends = Len(Marks(s.queue)) + 1
  BY DEF Flow, States
<1>2. Len(Marks(s.queue)) \in Nat
  BY <1>1, MarksOf, LenProperties
<1>3. s.sends - 1 = Len(Marks(s.queue)) + 0 /\ s.sends - 1 \in Nat
  BY <1>1, <1>2
<1>4. /\ t \in States /\ t.sends = s.sends - 1 /\ t.queue = s.queue /\ t.conn = s.conn
      /\ t.sock = s.sock /\ t.called = s.called /\ t.lost = s.lost
  BY <1>1, <1>3 DEF States
<1>5. Alike(s, t)
  BY DEF Sound, Shape, Alike
<1>. HIDE DEF t
<1>6. Stream(t, <<>>) = Stream(s, <<>>)
  BY <1>4 DEF Stream
<1>7. Flow(t, <<>>, 0)
  BY <1>3, <1>4, <1>6 DEF Flow
<1>8. Sound(t)
  BY <1>5, AlikeIsSound
<1>. QED BY <1>7, <1>8 DEF t

LEMMA RunFunctorFlow ==
  ASSUME FlowInv, Around, RunFunctor PROVE FlowInv' /\ Around'
<1>. DEFINE f == Head(queue)
            s == [Now EXCEPT !.queue = Tail(@)]
            sent == SendInLoop(s, f.data)
            counted == [sent EXCEPT !.sends = @ - 1]
<1>1. /\ queue # <<>> /\ UNCHANGED <<phase, event, peer, spent>>
      /\ \/ f.op = "Send" /\ Become(counted)
         \/ f.op = "Shutdown" /\ Become(Shutdown(s))
         \/ f.op = "ForceClose" /\ Become(ForceClose(s))
         \/ f.op = "Complete" /\ \E t \in AppCode(s) : Become(t)
  BY DEF RunFunctor
<1>2. /\ Sound(s)
      /\ f.op = "Send" => Flow(s, f.data, 1)
      /\ f.op # "Send" => Flow(s, <<>>, 0)
  BY <1>1, TakeFlow
<1>. HIDE DEF f, s
<1>3. CASE f.op = "Send"
  <2>1. Flow(sent, <<>>, 1) /\ Sound(sent)
    BY <1>2, <1>3, SendInLoopFlow, SendInLoopSound
  <2>. HIDE DEF sent
  <2>2. Flow(counted, <<>>, 0) /\ Sound(counted)
    BY <2>1, CountedFlow
  <2>. HIDE DEF counted
  <2>. QED BY <1>1, <1>3, <2>2, NowBecome DEF Around
<1>4. CASE f.op # "Send"
  <2>1. Flow(s, <<>>, 0) /\ s \in States
    BY <1>2, <1>4 DEF Flow
  <2>2. \E t : Flow(t, <<>>, 0) /\ Sound(t) /\ Become(t)
    BY <1>1, <1>2, <1>4, <2>1, AppFlow, ShutdownSame, ForceCloseSame, SameFlow,
       ShutdownSound, ForceCloseSound
  <2>. QED BY <1>1, <2>2, NowBecome DEF Around
<1>. QED BY <1>3, <1>4

LEMMA OtherFlow == ASSUME FlowInv, Around, OtherStep PROVE FlowInv' /\ Around'
<1>1. IInv' /\ Flow(Now, <<>>, 0) /\ Sound(Now)
  BY OtherInvariant, NowSound DEF FlowInv
<1>2. CASE \E m \in Msgs : OtherSends(m)
  <2>1. PICK m \in Msgs : OtherSends(m)
    BY <1>2
  <2>. DEFINE t == QueueInLoop([Calls(Now, m) EXCEPT !.sends = @ + 1], "Send", Body(m))
  <2>2. /\ m \in Msgs \ ToSet(Now.called) /\ Become(t)
        /\ UNCHANGED <<phase, event, peer, spent>>
    BY <2>1 DEF OtherSends, Now
  <2>3. Flow(t, <<>>, 0)
    BY <1>1, <2>2, QueueSendFlow
  <2>4. Sound(t)
    <3>. DEFINE c == Calls(Now, m)
                counted == [c EXCEPT !.sends = @ + 1]
    <3>1. Alike(Now, c)
      BY <1>1 DEF Calls, Sound, Shape, Alike
    <3>. HIDE DEF c
    <3>2. Sound(c)
      BY <1>1, <3>1, AlikeIsSound
    <3>3. Alike(c, counted)
      BY <3>2 DEF Sound, Shape, Alike
    <3>. HIDE DEF counted
    <3>4. Sound(QueueInLoop(counted, "Send", Body(m)))
      BY <3>2, <3>3, AlikeIsSound, QueueAlike
    <3>. QED BY <3>4 DEF counted, c
  <2>. HIDE DEF t
  <2>. QED BY <2>2, <2>3, <2>4, NowBecome DEF Around
<1>3. CASE \E op \in {"Shutdown", "ForceClose"} : OtherCloses(op)
  <2>1. PICK op \in {"Shutdown", "ForceClose"} : OtherCloses(op)
    BY <1>3
  <2>. DEFINE t == QueueInLoop(Now, op, <<>>)
  <2>2. Become(t) /\ UNCHANGED <<phase, event, peer, spent>>
    BY <2>1 DEF OtherCloses
  <2>3. Flow(t, <<>>, 0) /\ Sound(t)
    BY <1>1, QueueFlow, QueueAlike, AlikeIsSound
  <2>. HIDE DEF t
  <2>. QED BY <2>2, <2>3, NowBecome DEF Around
<1>. QED
  BY <1>2, <1>3 DEF OtherStep

LEMMA EnvironmentFlow == ASSUME FlowInv, Around, Environment PROVE FlowInv' /\ Around'
<1>1. IInv'
  BY EnvironmentInvariant DEF FlowInv
<1>2. sock \in Socks /\ conn \in Conns
  BY DEF FlowInv, Flow, States, Now
<1>3. MaxUnread \in Nat /\ SendBuffer \in Nat
  BY ConnectionAssumption
<1>4. ASSUME NEW k \in Socks, NEW p \in {"open", "shut", "gone"},
             PeerStep(k, p), k.wire = sock.wire
      PROVE  FlowInv' /\ Around'
  <2>1. sock' = [k EXCEPT !.edge = conn.reading] /\ conn.reading \in BOOLEAN
    BY <1>2, <1>4 DEF PeerStep, Conns
  <2>2. sock' \in Socks /\ sock'.wire = sock.wire
    BY <1>4, <2>1 DEF Socks
  <2>3. FlowInv'
    BY <1>1, <1>4, <2>2, SocketFlow DEF PeerStep
  <2>. QED BY <1>4, <2>3 DEF PeerStep, Around
<1>5. CASE PeerSends
  <2>. DEFINE k == [sock EXCEPT !.unread = @ + 1]
  <2>1. PeerStep(k, peer) /\ sock.unread + 1 \in 0 .. MaxUnread
    BY <1>2, <1>3, <1>5 DEF PeerSends, Socks
  <2>2. k \in Socks /\ k.wire = sock.wire
    BY <1>2, <2>1 DEF Socks
  <2>. HIDE DEF k
  <2>. QED BY <1>4, <2>1, <2>2 DEF Around
<1>6. CASE PeerShuts
  <2>. DEFINE k == [sock EXCEPT !.eof = TRUE]
  <2>1. PICK p \in {"shut", "gone"} : PeerStep(k, p)
    BY <1>6 DEF PeerShuts
  <2>2. k \in Socks /\ k.wire = sock.wire
    BY <1>2 DEF Socks
  <2>. HIDE DEF k
  <2>. QED BY <1>4, <2>1, <2>2
<1>7. CASE Reset \/ KeepAlive
  <2>. DEFINE k == [sock EXCEPT !.reset = TRUE, !.error = TRUE]
  <2>1. PeerStep(k, "gone")
    BY <1>7 DEF Reset, KeepAlive
  <2>2. k \in Socks /\ k.wire = sock.wire
    BY <1>2 DEF Socks
  <2>. HIDE DEF k
  <2>. QED BY <1>4, <2>1, <2>2
<1>8. CASE PeerCloses
  <2>1. FlowInv'
    BY <1>1, <1>2, <1>8, SocketFlow DEF PeerCloses
  <2>. QED BY <1>8, <2>1 DEF PeerCloses, Around
<1>9. CASE PeerReads
  <2>1. sock.room + 1 \in 0 .. SendBuffer
    BY <1>2, <1>3, <1>9 DEF PeerReads, Socks
  <2>2. sock' \in Socks /\ sock'.wire = sock.wire
    <3>. DEFINE e == sock.edge \/ (sock.wanted /\ conn.writing)
    <3>1. e \in BOOLEAN
      OBVIOUS
    <3>2. sock' = [sock EXCEPT !.room = @ + 1, !.wanted = FALSE, !.edge = e]
      BY <1>2, <1>9 DEF PeerReads, Socks
    <3>. HIDE DEF e
    <3>. QED BY <1>2, <2>1, <3>1, <3>2 DEF Socks
  <2>3. FlowInv'
    BY <1>1, <1>9, <2>2, SocketFlow DEF PeerReads
  <2>. QED BY <1>9, <2>3 DEF PeerReads, Around
<1>. QED
  BY <1>5, <1>6, <1>7, <1>8, <1>9 DEF Environment

LEMMA StepFlow == ASSUME FlowInv, Around, [Next]_vars PROVE FlowInv' /\ Around'
<1>1. IInv'
  BY StepInvariant DEF FlowInv
<1>2. sock \in Socks
  BY DEF FlowInv, Flow, States, Now
<1>3. CASE FunctorsDone
  <2>1. FlowInv'
    BY <1>1, <1>2, <1>3, SocketFlow DEF FunctorsDone
  <2>. QED BY <1>3, <2>1 DEF FunctorsDone, Around
<1>4. CASE UNCHANGED vars
  <2>1. FlowInv'
    BY <1>1, <1>2, <1>4, SocketFlow DEF vars
  <2>. QED BY <1>4, <2>1 DEF vars, Around
<1>. QED
  BY <1>1, <1>3, <1>4, SelectFlow, HandleEventFlow, RunFunctorFlow, OtherFlow,
     EnvironmentFlow DEF Next, LoopStep

(* Every state the program reaches has the types that the model declares: in  *)
(* particular send_count_ is never negative, so its functors are counted once. *)
THEOREM ConnectionTypeCorrect == SafeSpec => []TypeOK
<1>1. FlowInv /\ Around => TypeOK
  BY TypeOfNow DEF FlowInv, Flow
<1>. QED
  BY <1>1, FlowInit, StepFlow, PTL DEF SafeSpec

(* Handlers and other threads send at any moment, writes are short, buffers    *)
(* grow and connections close: wire, write_buffer_ and queued functors hold    *)
(* what Send was given, in the order of the calls, but for what is discarded.  *)
THEOREM StreamAlwaysIntact == SafeSpec => []StreamIntact
<1>1. FlowInv => StreamIntact
  <2>. SUFFICES ASSUME FlowInv PROVE StreamIntact
    OBVIOUS
  <2>. DEFINE x == sock.wire
              y == conn.buffer
              z == Data(queue)
  <2>1. /\ x \in Seq(Units) /\ y \in Seq(Units) /\ queue \in Seq(Functors)
        /\ Fits(called, lost, x \o (y \o (<<>> \o z)))
    BY DEF FlowInv, Flow, Now, States, Conns, Socks, Stream
  <2>2. z \in Seq(Units) /\ Queued = z
    BY <2>1, DataOf DEF Queued, Data
  <2>. HIDE DEF x, y, z
  <2>3. <<>> \o z = z
    BY <2>2, ConcatEmptySeq
  <2>4. (x \o y) \o z = x \o (y \o z)
    BY <2>1, <2>2
  <2>5. Fits(called, lost, (x \o y) \o z)
    BY <2>1, <2>3, <2>4
  <2>. QED BY <2>2, <2>5 DEF StreamIntact, Fits, x, y
<1>. QED
  BY <1>1, FlowInit, StepFlow, PTL DEF SafeSpec
=============================================================================
