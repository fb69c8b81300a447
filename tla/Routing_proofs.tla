--------------------------- MODULE Routing_proofs ---------------------------
(***************************************************************************)
(* Proofs about Routing: the table sorts every route once, the literal     *)
(* path of a URL is in front of the others that match it, and what the IO  *)
(* pool has found the engine finds too.                                    *)
(*                                                                         *)
(* The keys of the paths are compared as compareTo does it, which is shown *)
(* to be a strict total order; the place of a route in the table is the    *)
(* number of those before it, so each place is taken once.  The invariant  *)
(* says of each phase of a request what it has got so far.                 *)
(***************************************************************************)
EXTENDS Routing, FiniteSetTheorems, SequenceTheorems, WellFoundedInduction, TLAPS

LEMMA LeastNumber ==
    ASSUME NEW S, S \subseteq Nat, S # {}
    PROVE  \E n \in S : \A m \in S : n <= m
<1> DEFINE T == {0 .. n : n \in S}
<1>1. T \subseteq FiniteSubsetsOf(Nat) /\ T # {}
  <2>1. \A n \in S : 0 .. n \subseteq Nat /\ IsFiniteSet(0 .. n)
    BY FS_Interval
  <2> QED BY <2>1 DEF FiniteSubsetsOf
<1>2. PICK X \in T : \A Y \in T : ~(<<Y, X>> \in StrictSubsetOrdering(Nat))
  <2> HIDE DEF T
  <2> QED BY <1>1, FS_StrictSubsetOrderingWellFounded, WFMin
<1>3. PICK n \in S : X = 0 .. n
  OBVIOUS
<1>4. ASSUME NEW m \in S, m < n PROVE FALSE
  <2>1. 0 .. m \in T /\ 0 .. m \subseteq 0 .. n /\ 0 .. m # 0 .. n
    BY <1>4
  <2>2. 0 .. m \in SUBSET Nat /\ 0 .. n \in SUBSET Nat
    BY <1>1
  <2>3. <<0 .. m, 0 .. n>> \in StrictSubsetOrdering(Nat)
    BY <2>1, <2>2, Zenon DEF StrictSubsetOrdering
  <2> QED BY <1>2, <1>3, <2>1, <2>3
<1> QED BY <1>4

(* key comes after other where they first differ. *)
AfterAt(i, key, other) ==
    /\ i \in 1 .. Len(key)
    /\ i - 1 <= Len(other)
    /\ \A j \in 1 .. i - 1 : key[j] = other[j]
    /\ i > Len(other) \/ key[i] > other[i]

LEMMA SamePrefix ==
    ASSUME NEW s \in Seq(Int), NEW t \in Seq(Int), NEW n \in Nat,
           n <= Len(s), n <= Len(t)
    PROVE  SubSeq(s, 1, n) = SubSeq(t, 1, n) <=> \A j \in 1 .. n : s[j] = t[j]
<1>1. \A q \in Seq(Int) : n <= Len(q) =>
        /\ SubSeq(q, 1, n) \in Seq(Int) /\ Len(SubSeq(q, 1, n)) = n
        /\ \A j \in 1 .. n : SubSeq(q, 1, n)[j] = q[j]
  <2> TAKE q \in Seq(Int)
  <2> HAVE n <= Len(q)
  <2>1. \A j \in 1 .. n : q[j] \in Int
    BY ElementOfSeq
  <2>2. 1 <= n + 1 /\ n - 1 + 1 = n
    OBVIOUS
  <2>3. /\ SubSeq(q, 1, n) \in Seq(Int)
        /\ Len(SubSeq(q, 1, n)) = IF 1 <= n THEN n - 1 + 1 ELSE 0
        /\ \A j \in 1 .. n - 1 + 1 : SubSeq(q, 1, n)[j] = q[1 + j - 1]
    BY <2>1, SubSeqProperties
  <2> QED BY <2>3
<1>2. ASSUME SubSeq(s, 1, n) = SubSeq(t, 1, n), NEW j \in 1 .. n
      PROVE  s[j] = t[j]
  BY <1>1, <1>2
<1>3. ASSUME \A j \in 1 .. n : s[j] = t[j]
      PROVE  SubSeq(s, 1, n) = SubSeq(t, 1, n)
  <2>1. /\ SubSeq(s, 1, n) \in Seq(Int) /\ SubSeq(t, 1, n) \in Seq(Int)
        /\ Len(SubSeq(s, 1, n)) = n /\ Len(SubSeq(t, 1, n)) = n
        /\ \A j \in 1 .. n : SubSeq(s, 1, n)[j] = SubSeq(t, 1, n)[j]
    BY <1>1, <1>3
  <2> QED BY <2>1, SeqEqual
<1> QED BY <1>2, <1>3

LEMMA AfterWhere ==
    ASSUME NEW s \in Seq(Int), NEW t \in Seq(Int)
    PROVE  After(s, t) <=> \E i \in Nat : AfterAt(i, s, t)
<1>1. ASSUME NEW i \in 1 .. Len(s), i - 1 <= Len(t)
      PROVE  SubSeq(s, 1, i - 1) = SubSeq(t, 1, i - 1) <=> \A j \in 1 .. i - 1 : s[j] = t[j]
  <2>1. i - 1 \in Nat /\ i - 1 <= Len(s)
    BY LenProperties
  <2> QED BY <1>1, <2>1, SamePrefix
<1>2. DOMAIN s = 1 .. Len(s) /\ Len(s) \in Nat
  BY LenProperties
<1>3. ASSUME After(s, t)
      PROVE  \E i \in Nat : AfterAt(i, s, t)
  <2>1. PICK i \in 1 .. Len(s) :
           /\ i - 1 <= Len(t)
           /\ SubSeq(s, 1, i - 1) = SubSeq(t, 1, i - 1)
           /\ i > Len(t) \/ s[i] > t[i]
    BY <1>2, <1>3 DEF After
  <2>2. \A j \in 1 .. i - 1 : s[j] = t[j]
    BY <1>1, <2>1
  <2>3. i \in Nat
    BY <1>2
  <2> QED BY <2>1, <2>2, <2>3 DEF AfterAt
<1>4. ASSUME NEW i \in Nat, AfterAt(i, s, t)
      PROVE  After(s, t)
  <2>1. /\ i \in 1 .. Len(s) /\ i - 1 <= Len(t)
        /\ \A j \in 1 .. i - 1 : s[j] = t[j]
        /\ i > Len(t) \/ s[i] > t[i]
    BY <1>4 DEF AfterAt
  <2>2. SubSeq(s, 1, i - 1) = SubSeq(t, 1, i - 1)
    BY <1>1, <2>1
  <2> QED BY <1>2, <2>1, <2>2 DEF After
<1> QED BY <1>3, <1>4

(* compareTo is a strict total order. *)
LEMMA AfterIrreflexive ==
    ASSUME NEW s \in Seq(Int)
    PROVE  ~After(s, s)
<1>1. \A i \in 1 .. Len(s) : s[i] \in Int
  BY ElementOfSeq
<1> QED BY <1>1, AfterWhere DEF AfterAt

LEMMA AfterTransitive ==
    ASSUME NEW s \in Seq(Int), NEW t \in Seq(Int), NEW u \in Seq(Int),
           After(s, t), After(t, u)
    PROVE  After(s, u)
<1>1. PICK i \in Nat : AfterAt(i, s, t)
  BY AfterWhere
<1>2. PICK j \in Nat : AfterAt(j, t, u)
  BY AfterWhere
<1>3. /\ \A k \in 1 .. Len(s) : s[k] \in Int
      /\ \A k \in 1 .. Len(t) : t[k] \in Int
      /\ \A k \in 1 .. Len(u) : u[k] \in Int
      /\ Len(s) \in Nat /\ Len(t) \in Nat /\ Len(u) \in Nat
  BY ElementOfSeq, LenProperties
<1>4. CASE i < j
  <2>7. 1 <= i /\ j <= Len(t) /\ j - 1 <= Len(u)
    BY <1>1, <1>2 DEF AfterAt
  <2>4. i \in 1 .. j - 1 /\ i <= Len(t) /\ i <= Len(u)
    BY <1>3, <1>4, <2>7
  <2>5. t[i] = u[i]
    BY <1>2, <2>4 DEF AfterAt
  <2>6. s[i] > t[i]
    BY <1>1, <1>3, <2>4 DEF AfterAt
  <2>1. i <= Len(t) /\ i <= Len(u) /\ s[i] > t[i] /\ t[i] = u[i]
    BY <2>4, <2>5, <2>6
  <2>2. \A k \in 1 .. i - 1 : s[k] = u[k]
    BY <1>1, <1>2, <1>3, <1>4 DEF AfterAt
  <2>3. AfterAt(i, s, u)
    BY <1>1, <1>3, <2>1, <2>2 DEF AfterAt
  <2> QED BY <2>3, AfterWhere
<1>6. CASE i = j
  <2>1. i <= Len(t) /\ s[i] > t[i] /\ (i > Len(u) \/ t[i] > u[i])
    BY <1>1, <1>2, <1>3, <1>6 DEF AfterAt
  <2>2. \A k \in 1 .. i - 1 : s[k] = u[k]
    BY <1>1, <1>2, <1>6 DEF AfterAt
  <2>4. i > Len(u) \/ s[i] > u[i]
    BY <1>1, <1>3, <2>1 DEF AfterAt
  <2>3. AfterAt(i, s, u)
    BY <1>1, <1>2, <1>6, <2>2, <2>4 DEF AfterAt
  <2> QED BY <2>3, AfterWhere
<1>5. CASE j < i
  <2>1. AfterAt(j, s, u)
    BY <1>1, <1>2, <1>3, <1>5 DEF AfterAt
  <2> QED BY <2>1, AfterWhere
<1> QED BY <1>4, <1>5, <1>6

LEMMA AfterTotal ==
    ASSUME NEW s \in Seq(Int), NEW t \in Seq(Int), s # t
    PROVE  After(s, t) \/ After(t, s)
<1>1. /\ \A k \in 1 .. Len(s) : s[k] \in Int
      /\ \A k \in 1 .. Len(t) : t[k] \in Int
      /\ Len(s) \in Nat /\ Len(t) \in Nat
  BY ElementOfSeq, LenProperties
<1> DEFINE D == {k \in Nat \ {0} : \/ k > Len(s) \/ k > Len(t) \/ s[k] # t[k]}
<1>2. D \subseteq Nat /\ D # {}
  <2>1. Len(s) + 1 \in D
    BY <1>1
  <2> QED BY <2>1
<1>3. PICK k \in D : \A j \in D : k <= j
  <2> HIDE DEF D
  <2> QED BY <1>2, LeastNumber
<1>4. \A j \in 1 .. k - 1 : j <= Len(s) /\ j <= Len(t) /\ s[j] = t[j]
  BY <1>1, <1>3
<1>5. ~(k > Len(s) /\ k > Len(t))
  <2> SUFFICES ASSUME k > Len(s), k > Len(t) PROVE FALSE
    OBVIOUS
  <2>1. Len(s) = k - 1 /\ Len(t) = k - 1
    BY <1>1, <1>4
  <2> QED BY <1>4, <2>1, SeqEqual
<1>6. AfterAt(k, s, t) \/ AfterAt(k, t, s)
  BY <1>1, <1>3, <1>4, <1>5 DEF AfterAt
<1> QED BY <1>6, AfterWhere
-----------------------------------------------------------------------------
(* flat[i] is the first i of ss, one after the other. *)
IsFlat(flat, ss) ==
    flat = [i \in 1 .. Len(ss) |-> IF i = 1 THEN ss[i] ELSE flat[i - 1] \o ss[i]]

LEMMA FlatIsFlatten ==
    ASSUME NEW ss, Len(ss) # 0
    PROVE  FlattenSeq(ss) = (CHOOSE flat : IsFlat(flat, ss))[Len(ss)]
BY DEF FlattenSeq, IsFlat

LEMMA FlatExists ==
    ASSUME NEW ss, Len(ss) \in Nat
    PROVE  \E flat : IsFlat(flat, ss)
<1> DEFINE Good(f, n) == f = [i \in 1 .. n |-> IF i = 1 THEN ss[i] ELSE f[i - 1] \o ss[i]]
<1> DEFINE S == {m \in Nat : ~\E f : Good(f, m)}
<1>1. S = {}
  <2> SUFFICES ASSUME S # {} PROVE FALSE
    OBVIOUS
  <2>1. PICK m \in S : \A k \in S : m <= k
    <3>1. S \subseteq Nat
      OBVIOUS
    <3> HIDE DEF S
    <3> QED BY <3>1, LeastNumber
  <2>2. CASE m = 0
    <3> DEFINE g == [i \in 1 .. m |-> ss]
    <3>1. Good(g, m)
      BY <2>2
    <3> QED BY <2>1, <3>1
  <2>3. CASE m # 0
    <3>1. PICK k \in Nat : m = k + 1
      BY <2>3, m \in Nat, m - 1 \in Nat
    <3>2. PICK g : Good(g, k)
      <4>1. k \notin S
        <5>1. ~(m <= k)
          BY <3>1
        <5> HIDE DEF S
        <5> QED BY <2>1, <5>1
      <4> QED BY <4>1
    <3> DEFINE h == [i \in 1 .. m |->
                        IF i = m THEN (IF m = 1 THEN ss[m] ELSE g[k] \o ss[m]) ELSE g[i]]
    <3>3. ASSUME NEW i \in 1 .. m
          PROVE  h[i] = IF i = 1 THEN ss[i] ELSE h[i - 1] \o ss[i]
      <4>1. CASE i = m
        <5>1. m # 1 => h[i - 1] = g[k]
          BY <3>1, <4>1
        <5> HIDE DEF Good
        <5> QED BY <3>1, <4>1, <5>1
      <4>2. CASE i # m
        <5>1. i \in 1 .. k /\ h[i] = g[i] /\ (i # 1 => h[i - 1] = g[i - 1])
          BY <3>1, <4>2
        <5>2. g[i] = IF i = 1 THEN ss[i] ELSE g[i - 1] \o ss[i]
          BY <3>2, <5>1
        <5> HIDE DEF Good, h
        <5> QED BY <5>1, <5>2
      <4> QED BY <4>1, <4>2
    <3>4. Good(h, m)
      <4>1. h = [i \in 1 .. m |-> h[i]]
        OBVIOUS
      <4> HIDE DEF h
      <4> QED BY <3>3, <4>1
    <3> QED BY <2>1, <3>4
  <2> QED BY <2>2, <2>3
<1> QED BY <1>1 DEF IsFlat

(* s is a and then b. *)
Joined(s, a, b) ==
    /\ a \in Seq(Int) /\ b \in Seq(Int) /\ s \in Seq(Int)
    /\ Len(a) \in Nat /\ Len(b) \in Nat /\ Len(s) = Len(a) + Len(b)
    /\ \A j \in 1 .. Len(a) : s[j] = a[j]
    /\ \A j \in 1 .. Len(b) : s[Len(a) + j] = b[j]

LEMMA ConcatJoins ==
    ASSUME NEW a \in Seq(Int), NEW b \in Seq(Int)
    PROVE  Joined(a \o b, a, b)
BY DEF Joined

LEMMA JoinedOnce ==
    ASSUME NEW s, NEW t, NEW a, NEW b, Joined(s, a, b), Joined(t, a, b)
    PROVE  s = t
<1>1. /\ s \in Seq(Int) /\ t \in Seq(Int) /\ Len(s) = Len(t)
      /\ Len(s) = Len(a) + Len(b) /\ Len(a) \in Nat /\ Len(b) \in Nat
  BY DEF Joined
<1>2. ASSUME NEW j \in 1 .. Len(s)
      PROVE  s[j] = t[j]
  <2>1. CASE j <= Len(a)
    BY <1>1, <2>1 DEF Joined
  <2>2. CASE j > Len(a)
    <3>1. j - Len(a) \in 1 .. Len(b) /\ j = Len(a) + (j - Len(a))
      BY <1>1, <2>2
    <3> QED BY <3>1 DEF Joined
  <2> QED BY <1>1, <2>1, <2>2
<1> QED BY <1>1, <1>2, SeqEqual

(* A segment in the key: its slash, and its text if it is one. *)
Chunk(x) == IF x \in {Variable, 0} THEN <<0>> ELSE <<0, x>>

LEMMA ChunkType ==
    ASSUME NEW x \in Int \cup {Variable}
    PROVE  /\ Chunk(x) \in Seq(Int) /\ Chunk(x)[1] = 0
           /\ Len(Chunk(x)) = IF x \in {Variable, 0} THEN 1 ELSE 2
           /\ x \notin {Variable, 0} => Chunk(x)[2] = x
BY DEF Chunk

(* The key of a path, with what the first segments of it leave.            *)
LEMMA KeyParts ==
    ASSUME NEW p \in Seq(Int \cup {Variable}), p # <<>>, p # AnyPath
    PROVE  \E f \in [1 .. Len(p) -> Seq(Int)] :
              /\ ProcessingKey(p) = f[Len(p)]
              /\ f[1] = Chunk(p[1])
              /\ \A i \in 1 .. Len(p) : i # 1 => Joined(f[i], f[i - 1], Chunk(p[i]))
<1> DEFINE ss == [i \in DOMAIN p |-> Chunk(p[i])]
<1>1. Len(p) \in Nat \ {0} /\ DOMAIN p = 1 .. Len(p)
      /\ \A i \in 1 .. Len(p) : p[i] \in Int \cup {Variable}
  BY EmptySeq, LenProperties, ElementOfSeq
<1>2. Len(ss) = Len(p) /\ \A i \in 1 .. Len(p) : ss[i] = Chunk(p[i])
  BY <1>1
<1>3. ProcessingKey(p) = FlattenSeq(ss)
  BY <1>1 DEF ProcessingKey, Chunk
<1> HIDE DEF ss
<1> DEFINE f == CHOOSE flat : IsFlat(flat, ss)
<1>4. IsFlat(f, ss)
  BY <1>1, <1>2, FlatExists
<1>5. ProcessingKey(p) = f[Len(p)]
  BY <1>1, <1>2, <1>3, FlatIsFlatten
<1> HIDE DEF f
<1>6. \A i \in 1 .. Len(p) : f[i] = IF i = 1 THEN ss[i] ELSE f[i - 1] \o ss[i]
  BY <1>2, <1>4 DEF IsFlat
<1>7. \A i \in 1 .. Len(p) : Chunk(p[i]) \in Seq(Int)
  BY <1>1, ChunkType
<1>8. \A i \in 1 .. Len(p) : f[i] \in Seq(Int)
  <2> DEFINE S == {i \in 1 .. Len(p) : f[i] \notin Seq(Int)}
  <2> SUFFICES ASSUME S # {} PROVE FALSE
    OBVIOUS
  <2>1. PICK i \in S : \A j \in S : i <= j
    <3>1. S \subseteq Nat
      BY <1>1
    <3> HIDE DEF S
    <3> QED BY <3>1, LeastNumber
  <2>2. CASE i = 1
    BY <1>1, <1>2, <1>6, <1>7, <2>1, <2>2
  <2>3. CASE i # 1
    <3>1. i - 1 \in 1 .. Len(p) /\ i - 1 \notin S /\ i \in 1 .. Len(p)
      BY <1>1, <2>1, <2>3
    <3>2. f[i - 1] \in Seq(Int)
      BY <3>1
    <3>3. f[i] = f[i - 1] \o Chunk(p[i])
      BY <1>2, <1>6, <2>3, <3>1
    <3>4. f[i] \in Seq(Int)
      BY <1>7, <3>1, <3>2, <3>3, ConcatProperties
    <3> QED BY <2>1, <3>4
  <2> QED BY <2>2, <2>3
<1>9. f \in [1 .. Len(p) -> Seq(Int)]
  <2>1. \A i \in 1 .. Len(p) :
           (IF i = 1 THEN ss[i] ELSE f[i - 1] \o ss[i]) \in Seq(Int)
    BY <1>6, <1>8
  <2>2. [i \in 1 .. Len(p) |-> IF i = 1 THEN ss[i] ELSE f[i - 1] \o ss[i]]
            \in [1 .. Len(p) -> Seq(Int)]
    BY <2>1
  <2> QED BY <1>2, <1>4, <2>2 DEF IsFlat
<1>10. f[1] = Chunk(p[1])
  BY <1>1, <1>2, <1>6
<1>11. ASSUME NEW i \in 1 .. Len(p), i # 1
       PROVE  Joined(f[i], f[i - 1], Chunk(p[i]))
  <2>1. i - 1 \in 1 .. Len(p)
    BY <1>1, <1>11
  <2>2. f[i] = f[i - 1] \o Chunk(p[i])
    BY <1>2, <1>6, <1>11
  <2>3. f[i - 1] \in Seq(Int) /\ Chunk(p[i]) \in Seq(Int)
    BY <1>7, <1>8, <2>1
  <2> HIDE DEF f
  <2> QED BY <2>2, <2>3, ConcatJoins
<1> QED BY <1>5, <1>9, <1>10, <1>11

LEMMA KeyType ==
    ASSUME NEW p \in Path \cup Url
    PROVE  ProcessingKey(p) \in Seq(Int)
<1>1. CASE p = AnyPath
  BY <1>1 DEF ProcessingKey
<1>2. CASE p # AnyPath
  <2>1. p \in Seq(Int \cup {Variable}) /\ p # <<>>
    <3>1. CASE p \in Path
      BY <1>2, <3>1, RoutingAssumption
    <3>2. CASE p \in Url
      <4>1. p \in Seq(Int) /\ p # <<>>
        BY <3>2, RoutingAssumption
      <4> QED BY <4>1, SeqMonotonic
    <3> QED BY <3>1, <3>2
  <2>2. Len(p) \in 1 .. Len(p)
    BY <2>1, EmptySeq
  <2>3. PICK f \in [1 .. Len(p) -> Seq(Int)] : ProcessingKey(p) = f[Len(p)]
    BY <1>2, <2>1, KeyParts
  <2> QED BY <2>2, <2>3
<1> QED BY <1>1, <1>2

(* f[i] is the first i of c, one after the other, behind f[1]. *)
Appends(f, c, n) == \A i \in 1 .. n : i # 1 => Joined(f[i], f[i - 1], c[i])

(* What the first m parts leave stays when more are appended.              *)
LEMMA PrefixKept ==
    ASSUME NEW n \in Nat, NEW f \in [1 .. n -> Seq(Int)], NEW c \in [1 .. n -> Seq(Int)],
           Appends(f, c, n),
           NEW m \in 1 .. n, NEW k \in 1 .. n, m <= k
    PROVE  /\ Len(f[m]) <= Len(f[k])
           /\ \A j \in 1 .. Len(f[m]) : f[k][j] = f[m][j]
<1> DEFINE P(i) == /\ Len(f[m]) <= Len(f[i])
                   /\ \A j \in 1 .. Len(f[m]) : f[i][j] = f[m][j]
           S == {i \in m .. n : ~P(i)}
<1> SUFFICES ASSUME S # {} PROVE FALSE
  <2>1. k \in m .. n
    OBVIOUS
  <2>2. S = {} => P(k)
    BY <2>1
  <2> QED BY <2>2
<1>1. PICK i \in S : \A j \in S : i <= j
  <2>1. S \subseteq Nat
    OBVIOUS
  <2> HIDE DEF S
  <2> QED BY <2>1, LeastNumber
<1>2. i \in m .. n /\ ~P(i)
  BY <1>1
<1>3. P(m)
  BY LenProperties
<1>4. i # m
  BY <1>2, <1>3
<1>5. i - 1 \in m .. n /\ i - 1 \notin S
  BY <1>1, <1>2, <1>4
<1>6. P(i - 1)
  BY <1>5
<1>10. i \in 1 .. n /\ i - 1 \in 1 .. n /\ i # 1
  BY <1>2, <1>5
<1> HIDE DEF S, P
<1>7. /\ Len(f[i]) = Len(f[i - 1]) + Len(c[i])
      /\ Len(f[i - 1]) \in Nat /\ Len(c[i]) \in Nat
      /\ \A j \in 1 .. Len(f[i - 1]) : f[i][j] = f[i - 1][j]
  BY <1>10 DEF Appends, Joined
<1>8. Len(f[m]) \in Nat
  BY LenProperties
<1>9. P(i)
  <2>1. /\ Len(f[m]) <= Len(f[i - 1])
        /\ \A j \in 1 .. Len(f[m]) : f[i - 1][j] = f[m][j]
    BY <1>6 DEF P
  <2>2. Len(f[m]) <= Len(f[i])
    <3>1. /\ Len(f[i]) = Len(f[i - 1]) + Len(c[i])
          /\ Len(f[i - 1]) \in Nat /\ Len(c[i]) \in Nat /\ Len(f[m]) <= Len(f[i - 1])
      BY <1>7, <2>1
    <3> QED BY <1>8, <1>10, <3>1
  <2>3. ASSUME NEW j \in 1 .. Len(f[m])
        PROVE  f[i][j] = f[m][j]
    <3>1. j \in 1 .. Len(f[i - 1])
      BY <1>7, <1>8, <2>1
    <3> QED BY <1>7, <2>1, <3>1
  <2> QED BY <2>2, <2>3 DEF P
<1> QED BY <1>2, <1>9 DEF P

(* A URL whose texts sort after the slash comes before the other paths     *)
(* that match it.                                                          *)
LEMMA LiteralAfter ==
    ASSUME NEW url \in Url, \A i \in DOMAIN url : url[i] > 0,
           NEW path \in Path, path # url, TemplateMatches(path, url)
    PROVE  After(ProcessingKey(url), ProcessingKey(path))
<1>1. /\ url \in Seq(Int) /\ url # <<>> /\ url # AnyPath
      /\ Len(url) \in Nat \ {0} /\ DOMAIN url = 1 .. Len(url)
      /\ url \in Seq(Int \cup {Variable})
  <2>1. url \in Seq(Int) /\ url # <<>> /\ url # AnyPath
    BY RoutingAssumption
  <2> QED BY <2>1, EmptySeq, LenProperties, SeqMonotonic
<1> DEFINE n == Len(url)
<1>n. n \in Nat \ {0} /\ DOMAIN url = 1 .. n /\ 1 \in 1 .. n /\ n \in 1 .. n /\ Len(url) = n
  BY <1>1
<1>2. PICK f \in [1 .. n -> Seq(Int)] :
         /\ ProcessingKey(url) = f[n]
         /\ f[1] = Chunk(url[1])
         /\ \A i \in 1 .. n : i # 1 => Joined(f[i], f[i - 1], Chunk(url[i]))
  BY <1>1, <1>n, KeyParts
<1> HIDE DEF n
<1>3. \A i \in 1 .. n : url[i] \in Int /\ url[i] > 0 /\ url[i] \notin {Variable, 0}
  <2>1. \A i \in 1 .. n : url[i] \in Int /\ url[i] > 0
    BY <1>1, <1>n, ElementOfSeq
  <2>2. Variable \notin Int
    BY RoutingAssumption
  <2> QED BY <2>1, <2>2
<1>4. \A i \in 1 .. n : /\ Chunk(url[i]) \in Seq(Int) /\ Len(Chunk(url[i])) = 2
                        /\ Chunk(url[i])[1] = 0 /\ Chunk(url[i])[2] = url[i]
  BY <1>3, ChunkType
<1> DEFINE c == [i \in 1 .. n |-> Chunk(url[i])]
<1>5. c \in [1 .. n -> Seq(Int)] /\ Appends(f, c, n)
  BY <1>2, <1>4 DEF Appends
<1>6. ASSUME NEW m \in 1 .. n
      PROVE  /\ Len(f[m]) <= Len(f[n])
             /\ \A j \in 1 .. Len(f[m]) : f[n][j] = f[m][j]
  <2> HIDE DEF c
  <2>1. n \in Nat /\ n \in 1 .. n /\ m <= n
    BY <1>n
  <2> QED BY <1>5, <2>1, PrefixKept
<1>7. f[n] \in Seq(Int) /\ Len(f[n]) \in Nat
  BY <1>1, <1>n, LenProperties
<1>8. CASE path = AnyPath
  <2>1. ProcessingKey(path) = <<0>>
    BY <1>8 DEF ProcessingKey
  <2>2. Len(f[1]) = 2 /\ f[1][1] = 0
    BY <1>1, <1>n, <1>2, <1>4
  <2>3. Len(f[n]) >= 2 /\ f[n][1] = 0
    <3>1. 1 \in 1 .. n /\ 1 \in 1 .. 2
      BY <1>n
    <3>2. Len(f[1]) <= Len(f[n]) /\ \A j \in 1 .. Len(f[1]) : f[n][j] = f[1][j]
      BY <1>6, <3>1
    <3> QED BY <1>7, <2>2, <3>1, <3>2
  <2>4. AfterAt(2, f[n], <<0>>)
    BY <1>7, <2>3 DEF AfterAt
  <2>5. <<0>> \in Seq(Int) /\ 2 \in Nat
    OBVIOUS
  <2>6. After(f[n], <<0>>)
    BY <1>7, <2>4, <2>5, AfterWhere
  <2> QED BY <1>2, <2>1, <2>6
<1>9. CASE path # AnyPath
  <2>1. /\ path \in Seq(Int \cup {Variable}) /\ path # <<>> /\ Len(path) = n
        /\ \A i \in 1 .. n : path[i] = url[i] \/ path[i] = Variable
    BY <1>1, <1>n, <1>9, RoutingAssumption DEF TemplateMatches
  <2>2. PICK m \in 1 .. n : path[m] # url[m] /\ \A j \in 1 .. m - 1 : path[j] = url[j]
    <3> DEFINE D == {m \in 1 .. n : path[m] # url[m]}
    <3>1. D # {}
      BY <1>1, <1>n, <2>1, SeqEqual
    <3>2. D \subseteq Nat
      BY <1>n
    <3>3. PICK m \in D : \A j \in D : m <= j
      <4> HIDE DEF D
      <4> QED BY <3>1, <3>2, LeastNumber
    <3>4. \A j \in 1 .. m - 1 : path[j] = url[j]
      BY <1>1, <1>n, <3>3
    <3> QED BY <3>3, <3>4
  <2>3. PICK g \in [1 .. n -> Seq(Int)] :
           /\ ProcessingKey(path) = g[n]
           /\ g[1] = Chunk(path[1])
           /\ \A i \in 1 .. n : i # 1 => Joined(g[i], g[i - 1], Chunk(path[i]))
    BY <1>9, <2>1, KeyParts
  <2>4. \A i \in 1 .. n : /\ Chunk(path[i]) \in Seq(Int) /\ Len(Chunk(path[i])) >= 1
                          /\ Chunk(path[i])[1] = 0
    <3>1. \A i \in 1 .. n : path[i] \in Int \cup {Variable}
      BY <1>n, <2>1, ElementOfSeq
    <3>2. ASSUME NEW i \in 1 .. n
          PROVE  /\ Chunk(path[i]) \in Seq(Int) /\ Len(Chunk(path[i])) >= 1
                 /\ Chunk(path[i])[1] = 0
      <4>1. path[i] \in Int \cup {Variable}
        BY <3>1
      <4> QED BY <4>1 DEF Chunk
    <3> QED BY <3>2
  <2>5. path[m] = Variable /\ Chunk(path[m]) = <<0>>
    BY <2>1, <2>2 DEF Chunk
  <2>6. \A i \in 1 .. m - 1 : g[i] = f[i]
    <3> DEFINE S == {i \in 1 .. m - 1 : g[i] # f[i]}
    <3> SUFFICES ASSUME S # {} PROVE FALSE
      OBVIOUS
    <3>1. PICK i \in S : \A j \in S : i <= j
      <4>1. S \subseteq Nat
        BY <1>n
      <4> HIDE DEF S
      <4> QED BY <4>1, LeastNumber
    <3>2. i \in 1 .. m - 1 /\ i \in 1 .. n /\ g[i] # f[i] /\ path[i] = url[i]
      BY <1>1, <1>n, <2>2, <3>1
    <3>3. CASE i = 1
      BY <1>2, <2>3, <3>2, <3>3
    <3>4. CASE i # 1
      <4>1. i - 1 \in 1 .. m - 1 /\ i - 1 \notin S
        BY <1>1, <1>n, <3>1, <3>2, <3>4
      <4>2. g[i - 1] = f[i - 1]
        BY <4>1
      <4>3. Joined(f[i], f[i - 1], Chunk(url[i])) /\ Joined(g[i], g[i - 1], Chunk(path[i]))
        BY <1>2, <2>3, <3>2, <3>4
      <4> QED BY <3>2, <4>2, <4>3, JoinedOnce
    <3> QED BY <3>3, <3>4
  <2>7. PICK q \in Seq(Int) : Joined(f[m], q, Chunk(url[m])) /\ Joined(g[m], q, <<0>>)
    <3>1. CASE m = 1
      <4>1. f[m] = Chunk(url[m]) /\ g[m] = <<0>>
        BY <1>2, <2>3, <2>5, <3>1
      <4>2. <<>> \in Seq(Int) /\ f[m] = <<>> \o Chunk(url[m]) /\ g[m] = <<>> \o <<0>>
        BY <1>4, <4>1, ConcatEmptySeq, EmptySeq
      <4>3. Joined(<<>> \o Chunk(url[m]), <<>>, Chunk(url[m])) /\ Joined(<<>> \o <<0>>, <<>>, <<0>>)
        BY <1>4, <4>2, ConcatJoins, <<0>> \in Seq(Int)
      <4> QED BY <4>2, <4>3
    <3>2. CASE m # 1
      <4>1. m - 1 \in 1 .. m - 1 /\ m - 1 \in 1 .. n
        BY <1>1, <1>n, <3>2
      <4> QED BY <1>2, <2>3, <2>5, <2>6, <3>2, <4>1
    <3> QED BY <3>1, <3>2
  <2> DEFINE l == Len(q)
  <2>8. /\ l \in Nat
        /\ Len(f[m]) = l + 2 /\ f[m][l + 1] = 0 /\ f[m][l + 2] = url[m]
        /\ \A j \in 1 .. l : f[m][j] = q[j]
        /\ Len(g[m]) = l + 1 /\ g[m][l + 1] = 0
        /\ \A j \in 1 .. l : g[m][j] = q[j]
    <3>1. l \in Nat
      BY LenProperties
    <3>2. <<0>> \in Seq(Int) /\ Len(<<0>>) = 1 /\ <<0>>[1] = 0
      OBVIOUS
    <3>5. Len(Chunk(url[m])) = 2 /\ Chunk(url[m])[1] = 0 /\ Chunk(url[m])[2] = url[m]
      BY <1>4
    <3>6. Joined(f[m], q, Chunk(url[m]))
      BY <2>7
    <3>3. /\ Len(f[m]) = l + 2 /\ f[m][l + 1] = 0 /\ f[m][l + 2] = url[m]
          /\ \A j \in 1 .. l : f[m][j] = q[j]
      BY <3>1, <3>5, <3>6 DEF Joined
    <3>4. /\ Len(g[m]) = l + 1 /\ g[m][l + 1] = 0
          /\ \A j \in 1 .. l : g[m][j] = q[j]
      BY <2>7, <3>2 DEF Joined
    <3> QED BY <3>1, <3>3, <3>4
  <2> DEFINE d == [i \in 1 .. n |-> Chunk(path[i])]
  <2>9. d \in [1 .. n -> Seq(Int)] /\ Appends(g, d, n)
    BY <2>3, <2>4 DEF Appends
  <2>10. \A k \in 1 .. n : m <= k => /\ Len(g[m]) <= Len(g[k])
                                     /\ \A j \in 1 .. Len(g[m]) : g[k][j] = g[m][j]
    <3> HIDE DEF d
    <3> QED BY <1>1, <1>n, <2>9, PrefixKept
  <2>11. Len(g[n]) >= l + 2 => g[n][l + 2] = 0
    <3>1. CASE m = n
      BY <2>8, <3>1
    <3>2. CASE m # n
      <4>1. m + 1 \in 1 .. n /\ m + 1 # 1 /\ m + 1 - 1 = m
        BY <1>1, <1>n, <3>2
      <4>2. Joined(g[m + 1], g[m], Chunk(path[m + 1]))
        BY <2>3, <4>1
      <4>3. Len(g[m + 1]) >= l + 2 /\ g[m + 1][l + 2] = 0
        <5>1. Len(Chunk(path[m + 1])) >= 1 /\ Chunk(path[m + 1])[1] = 0
          BY <2>4, <4>1
        <5>2. Len(g[m]) = l + 1 /\ l \in Nat
          BY <2>8
        <5> QED BY <4>2, <5>1, <5>2 DEF Joined
      <4>4. /\ Len(g[m + 1]) <= Len(g[n])
            /\ \A j \in 1 .. Len(g[m + 1]) : g[n][j] = g[m + 1][j]
        <5> HIDE DEF d
        <5>1. n \in Nat /\ n \in 1 .. n /\ m + 1 <= n
          BY <1>n, <4>1
        <5> QED BY <2>9, <4>1, <5>1, PrefixKept
      <4>5. Len(g[m + 1]) \in Nat
        BY <4>1, LenProperties
      <4> QED BY <2>8, <4>3, <4>4, <4>5
    <3> QED BY <3>1, <3>2
  <2>12. g[n] \in Seq(Int) /\ Len(g[n]) \in Nat /\ l + 1 <= Len(g[n])
    BY <1>1, <1>n, <2>8, <2>10, LenProperties
  <2>13. AfterAt(l + 2, f[n], g[n])
    <3>1. /\ l + 2 <= Len(f[n]) /\ f[n][l + 2] = url[m] /\ f[n][l + 1] = 0
          /\ \A j \in 1 .. l : f[n][j] = q[j]
      BY <1>6, <2>8
    <3>2. g[n][l + 1] = 0 /\ \A j \in 1 .. l : g[n][j] = q[j]
      <4>1. /\ Len(g[m]) = l + 1 /\ l \in Nat
            /\ \A j \in 1 .. Len(g[m]) : g[n][j] = g[m][j]
        BY <1>n, <2>8, <2>10
      <4>2. g[m][l + 1] = 0 /\ \A j \in 1 .. l : g[m][j] = q[j]
        BY <2>8
      <4> QED BY <4>1, <4>2
    <3>3. \A j \in 1 .. l + 1 : f[n][j] = g[n][j]
      BY <2>8, <3>1, <3>2
    <3>4. l + 2 > Len(g[n]) \/ f[n][l + 2] > g[n][l + 2]
      BY <1>3, <2>8, <2>11, <2>12, <3>1
    <3> QED BY <1>7, <2>8, <2>12, <3>1, <3>3, <3>4 DEF AfterAt
  <2> QED BY <1>2, <1>7, <2>3, <2>8, <2>12, <2>13, AfterWhere
<1> QED BY <1>8, <1>9
-----------------------------------------------------------------------------
(* The routes are routes, up to their number. *)
RoutesOK == routes \in Seq(Route) /\ Len(routes) <= MaxRoutes

LEMMA RoutesType ==
    ASSUME RoutesOK
    PROVE  /\ Len(routes) \in Nat /\ DOMAIN routes = 1 .. Len(routes)
           /\ \A i \in 1 .. Len(routes) : routes[i] \in Route
BY LenProperties, ElementOfSeq DEF RoutesOK

LEMMA KeysType ==
    ASSUME RoutesOK, NEW i \in 1 .. Len(routes)
    PROVE  Key(i) \in Seq(Int)
<1>1. routes[i].path \in Path
  BY RoutesType DEF Route
<1> QED BY <1>1, KeyType DEF Key

(* The order of the table is a strict total order. *)
LEMMA BeforeOrder ==
    ASSUME RoutesOK, NEW i \in 1 .. Len(routes), NEW j \in 1 .. Len(routes)
    PROVE  /\ ~Before(i, i)
           /\ i # j => Before(i, j) \/ Before(j, i)
           /\ Before(i, j) => ~Before(j, i)
           /\ \A k \in 1 .. Len(routes) : Before(i, j) /\ Before(j, k) => Before(i, k)
<1>1. \A k \in 1 .. Len(routes) : Key(k) \in Seq(Int)
  BY KeysType
<1>2. i \in Int /\ j \in Int
  OBVIOUS
<1>3. \A k, l \in 1 .. Len(routes) : /\ ~After(Key(k), Key(k))
                                     /\ After(Key(k), Key(l)) => Key(k) # Key(l)
  BY <1>1, AfterIrreflexive
<1>4. \A k, l, m \in 1 .. Len(routes) :
         After(Key(k), Key(l)) /\ After(Key(l), Key(m)) => After(Key(k), Key(m))
  BY <1>1, AfterTransitive
<1>5. \A k, l \in 1 .. Len(routes) :
         Key(k) # Key(l) => After(Key(k), Key(l)) \/ After(Key(l), Key(k))
  BY <1>1, AfterTotal
<1> HIDE DEF Key, After
<1>6. ~Before(i, i)
  BY <1>2, <1>3 DEF Before
<1>7. i # j => Before(i, j) \/ Before(j, i)
  <2>1. CASE Key(i) = Key(j)
    BY <1>2, <2>1 DEF Before
  <2>2. CASE Key(i) # Key(j)
    BY <1>5, <2>2 DEF Before
  <2> QED BY <2>1, <2>2
<1>8. ASSUME NEW k \in 1 .. Len(routes), Before(i, j), Before(j, k)
      PROVE  Before(i, k)
  <2>1. k \in Int
    OBVIOUS
  <2>2. CASE After(Key(i), Key(j)) /\ After(Key(j), Key(k))
    BY <1>4, <2>2 DEF Before
  <2>3. CASE Key(i) = Key(j) \/ Key(j) = Key(k)
    BY <1>2, <1>3, <1>8, <2>1, <2>3 DEF Before
  <2> QED BY <1>8, <2>2, <2>3 DEF Before
<1>9. Before(i, j) => ~Before(j, i)
  <2>1. \A k \in 1 .. Len(routes) : Before(i, j) /\ Before(j, k) => Before(i, k)
    BY <1>8
  <2> QED BY <1>6, <2>1
<1> QED BY <1>6, <1>7, <1>8, <1>9

(* The place of a route in that order: those before it, and itself. *)
Earlier(i) == {j \in DOMAIN routes : Before(j, i)}
Place(i) == Cardinality(Earlier(i)) + 1

LEMMA EarlierCounts ==
    ASSUME RoutesOK, NEW i \in 1 .. Len(routes)
    PROVE  IsFiniteSet(Earlier(i)) /\ Cardinality(Earlier(i)) \in Nat
<1>1. IsFiniteSet(1 .. Len(routes)) /\ DOMAIN routes = 1 .. Len(routes)
  BY RoutesType, FS_Interval
<1>2. Earlier(i) \in SUBSET (1 .. Len(routes))
  BY <1>1 DEF Earlier
<1> QED BY <1>1, <1>2, FS_Subset, FS_CardinalityType

LEMMA PlaceBound ==
    ASSUME RoutesOK, NEW i \in 1 .. Len(routes)
    PROVE  Place(i) \in 1 .. Len(routes)
<1> DEFINE S == 1 .. Len(routes)
<1>1. Len(routes) \in Nat /\ DOMAIN routes = S
  BY RoutesType
<1>2. IsFiniteSet(S) /\ Cardinality(S) = Len(routes)
  <2>1. Cardinality(S) = IF 1 > Len(routes) THEN 0 ELSE Len(routes) - 1 + 1
    BY <1>1, FS_Interval
  <2>2. IsFiniteSet(S)
    BY <1>1, FS_Interval
  <2> HIDE DEF S
  <2> QED BY <1>1, <2>1, <2>2
<1>3. Earlier(i) \in SUBSET (S \ {i})
  BY <1>1, BeforeOrder DEF Earlier
<1>4. IsFiniteSet(S \ {i}) /\ Cardinality(S \ {i}) = Len(routes) - 1
  BY <1>2, FS_RemoveElement
<1>5. Cardinality(Earlier(i)) <= Len(routes) - 1
  <2>1. Cardinality(Earlier(i)) <= Cardinality(S \ {i})
    BY <1>3, <1>4, FS_Subset
  <2> QED BY <1>4, <2>1
<1>6. Cardinality(Earlier(i)) \in Nat
  BY EarlierCounts
<1> QED BY <1>1, <1>5, <1>6 DEF Place

LEMMA PlaceGrows ==
    ASSUME RoutesOK, NEW i \in 1 .. Len(routes), NEW j \in 1 .. Len(routes), Before(i, j)
    PROVE  Place(i) < Place(j)
<1>1. Earlier(i) \cup {i} \in SUBSET Earlier(j)
  BY RoutesType, BeforeOrder DEF Earlier
<1>2. i \notin Earlier(i)
  BY BeforeOrder DEF Earlier
<1>3. Cardinality(Earlier(i) \cup {i}) = Cardinality(Earlier(i)) + 1
  BY <1>2, EarlierCounts, FS_AddElement
<1>4. Cardinality(Earlier(i) \cup {i}) <= Cardinality(Earlier(j))
  BY <1>1, EarlierCounts, FS_Subset
<1>5. Cardinality(Earlier(i)) \in Nat /\ Cardinality(Earlier(j)) \in Nat
  BY EarlierCounts
<1> QED BY <1>3, <1>4, <1>5 DEF Place

LEMMA PlaceOnce ==
    ASSUME RoutesOK, NEW i \in 1 .. Len(routes), NEW j \in 1 .. Len(routes),
           Place(i) = Place(j)
    PROVE  i = j
<1>1. Place(i) \in Int /\ Place(j) \in Int
  BY PlaceBound
<1>2. ~(Place(i) < Place(j)) /\ ~(Place(j) < Place(i))
  BY <1>1
<1>3. ~Before(i, j) /\ ~Before(j, i)
  BY <1>2, PlaceGrows
<1> QED BY <1>3, BeforeOrder

LEMMA PlaceOfEach ==
    ASSUME RoutesOK, NEW k \in 1 .. Len(routes)
    PROVE  \E i \in 1 .. Len(routes) : Place(i) = k
<1> DEFINE S == 1 .. Len(routes)
           place == [i \in S |-> Place(i)]
<1>1. IsFiniteSet(S)
  BY RoutesType, FS_Interval
<1>2. place \in Injection(S, S)
  <2>1. place \in [S -> S]
    BY PlaceBound
  <2>2. \A i, j \in S : place[i] = place[j] => i = j
    BY PlaceOnce
  <2> HIDE DEF place, S
  <2> QED BY <2>1, <2>2 DEF Injection, IsInjective
<1>3. place \in Surjection(S, S)
  <2> HIDE DEF place, S
  <2> QED BY <1>1, <1>2, FS_Injection
<1>4. \E i \in S : place[i] = k
  BY <1>3 DEF Surjection
<1> QED BY <1>4

(* The sorted table has every route once, each behind those before it. *)
Sorts(t, n) ==
    /\ t \in [1 .. n -> 1 .. n]
    /\ \A i \in 1 .. n : \E k \in 1 .. n : t[k] = i
    /\ \A k, l \in 1 .. n : k < l => Before(t[k], t[l])

LEMMA InOrderSorts ==
    ASSUME RoutesOK
    PROVE  Sorts(InOrder(DOMAIN routes), Len(routes))
<1> DEFINE S == 1 .. Len(routes)
           t == InOrder(DOMAIN routes)
<1>1. Len(routes) \in Nat /\ DOMAIN routes = S
  BY RoutesType
<1>2. Cardinality(S) = Len(routes)
  <2>1. Cardinality(S) = IF 1 > Len(routes) THEN 0 ELSE Len(routes) - 1 + 1
    BY <1>1, FS_Interval
  <2> HIDE DEF S
  <2> QED BY <1>1, <2>1
<1>3. t = [k \in S |-> CHOOSE i \in S : Cardinality(Earlier(i)) = k - 1]
  BY <1>1, <1>2 DEF InOrder, Earlier
<1> HIDE DEF t
<1>4. ASSUME NEW k \in S
      PROVE  t[k] \in S /\ Place(t[k]) = k
  <2>1. PICK i \in S : Place(i) = k
    BY PlaceOfEach
  <2>2. Cardinality(Earlier(i)) = k - 1
    BY <2>1, EarlierCounts DEF Place
  <2>3. t[k] \in S /\ Cardinality(Earlier(t[k])) = k - 1
    BY <1>3, <2>2
  <2> QED BY <2>3 DEF Place
<1>5. t \in [S -> S]
  BY <1>3, <1>4
<1>6. ASSUME NEW i \in S
      PROVE  \E k \in S : t[k] = i
  <2>1. Place(i) \in S
    BY PlaceBound
  <2>2. t[Place(i)] \in S /\ Place(t[Place(i)]) = Place(i)
    BY <1>4, <2>1
  <2>3. t[Place(i)] = i
    BY <2>2, PlaceOnce
  <2> QED BY <2>1, <2>3
<1>7. ASSUME NEW k \in S, NEW l \in S, k < l
      PROVE  Before(t[k], t[l])
  <2>1. t[k] \in S /\ t[l] \in S /\ Place(t[k]) = k /\ Place(t[l]) = l
    BY <1>4
  <2>2. t[k] # t[l] /\ ~(Place(t[l]) < Place(t[k]))
    BY <1>7, <2>1
  <2> QED BY <2>1, <2>2, BeforeOrder, PlaceGrows
<1>8. Sorts(t, Len(routes))
  BY <1>5, <1>6, <1>7 DEF Sorts
<1> QED BY <1>8 DEF t
-----------------------------------------------------------------------------
(* SelectInSeq takes the least position that passes its test. *)
LEMMA Selects ==
    ASSUME NEW n \in Nat, NEW I \in SUBSET (1 .. n), I # {}
    PROVE  Min(I) \in I /\ \A i \in I : Min(I) <= i
<1>1. \E i \in I : \A j \in I : i <= j
  <2>1. I \subseteq Nat
    OBVIOUS
  <2> QED BY <2>1, LeastNumber
<1> QED BY <1>1 DEF Min

(* findMatch returns the first route of the order that matches. *)
LEMMA FirstMatch ==
    ASSUME NEW n \in Nat, NEW order \in [1 .. n -> 1 .. n],
           NEW method, NEW url, NEW properties
    PROVE  LET match == FindMatch(order, method, url, properties)
               Fits(k) == IsMatch(routes[order[k]], method, url, properties)
           IN  \/ match = 0 /\ \A k \in 1 .. n : ~Fits(k)
               \/ \E k \in 1 .. n : /\ match = order[k] /\ Fits(k)
                                    /\ \A j \in 1 .. k - 1 : ~Fits(j)
<1> DEFINE Fits(k) == IsMatch(routes[order[k]], method, url, properties)
           I == {k \in 1 .. Len(order) : Fits(k)}
           match == FindMatch(order, method, url, properties)
<1>1. Len(order) = n
  OBVIOUS
<1>2. match = IF I = {} THEN 0 ELSE order[Min(I)]
  <2>1. I \in SUBSET (1 .. n)
    BY <1>1
  <2>2. I # {} => Min(I) \in 1 .. n
    <3> HIDE DEF I
    <3> QED BY <2>1, Selects
  <2>3. 0 \notin 1 .. n
    OBVIOUS
  <2>4. match = IF (IF I # {} THEN Min(I) ELSE 0) = 0 THEN 0
                ELSE order[IF I # {} THEN Min(I) ELSE 0]
    BY DEF FindMatch, SelectInSeq
  <2> HIDE DEF I, match
  <2> QED BY <2>2, <2>3, <2>4
<1>3. CASE I = {}
  <2>1. \A k \in 1 .. n : ~Fits(k)
    BY <1>1, <1>3
  <2> QED BY <1>2, <1>3, <2>1
<1>4. CASE I # {}
  <2>1. I \in SUBSET (1 .. n)
    BY <1>1
  <2>2. Min(I) \in I /\ \A i \in I : Min(I) <= i
    <3> HIDE DEF I
    <3> QED BY <1>4, <2>1, Selects
  <2>3. match = order[Min(I)]
    BY <1>2, <1>4
  <2> DEFINE k == Min(I)
  <2> HIDE DEF k, match
  <2>4. k \in 1 .. n /\ Fits(k) /\ \A j \in I : k <= j
    BY <2>1, <2>2 DEF k
  <2>5. \A j \in 1 .. k - 1 : ~Fits(j)
    <3> SUFFICES ASSUME NEW j \in 1 .. k - 1, Fits(j) PROVE FALSE
      OBVIOUS
    <3>1. j \in 1 .. Len(order) /\ ~(k <= j)
      BY <1>1, <2>4
    <3>2. j \in I
      BY <3>1
    <3> QED BY <2>4, <3>1, <3>2
  <2> QED BY <2>3, <2>4, <2>5 DEF match, k
<1> QED BY <1>3, <1>4

(* The routes that match, as the look-up in the hash map finds them. *)
LEMMA FirstOfMap ==
    ASSUME RoutesOK
    PROVE  \/ GetMatchedFunction = 0 /\ Matching = {}
           \/ GetMatchedFunction \in Matching
<1> DEFINE I == {i \in 1 .. Len(routes) :
                    IsMatch(routes[i], request.method, request.url, request.properties)}
<1>1. I = Matching /\ I \in SUBSET (1 .. Len(routes)) /\ Len(routes) \in Nat
  BY RoutesType DEF Matching
<1>2. GetMatchedFunction = IF I # {} THEN Min(I) ELSE 0
  BY DEF GetMatchedFunction, SelectInSeq
<1>3. I # {} => Min(I) \in I
  <2> HIDE DEF I
  <2> QED BY <1>1, Selects
<1> HIDE DEF I
<1> QED BY <1>1, <1>2, <1>3

(* With the method of the request left out. *)
LEMMA MatchesButMethod ==
    ASSUME RoutesOK, NEW i \in 1 .. Len(routes)
    PROVE  i \in MatchingButMethod
               <=> IsMatch(routes[i], "ALL", request.url, request.properties)
BY RoutesType DEF MatchingButMethod, IsMatch, MethodsMatch, PropertiesMatch
-----------------------------------------------------------------------------
(* The table has every route once. *)
TableOK == phase # "defining" =>
    /\ table \in [1 .. Len(routes) -> 1 .. Len(routes)]
    /\ \A i \in 1 .. Len(routes) : \E k \in 1 .. Len(routes) : table[k] = i

(* From the first look-up on it is in order. *)
SortedOK == /\ sorted \in BOOLEAN
            /\ sorted => phase # "defining" /\ Sorts(table, Len(routes))

(* What the served request has got so far. *)
ServedOK ==
    /\ request \in Request
    /\ phase \in {"defining", "matching", "running", "answered"}
    /\ phase \in {"defining", "matching"} => matched = 0 /\ ran = 0 /\ answer = "none"
    /\ phase = "running" =>
          /\ ran = 0 /\ answer = "none"
          /\ \/ matched \in Matching
             \/ /\ matched = 0 /\ Matching = {}
                /\ request.method = "OPTIONS" /\ MatchingButMethod # {}
    /\ phase = "answered" =>
          \/ answer = "function" /\ matched \in Matching /\ ran \in Matching
          \/ /\ matched = 0 /\ ran = 0 /\ Matching = {}
             /\ answer = IF request.method = "OPTIONS" /\ MatchingButMethod # {}
                         THEN "default" ELSE "invalid route"

(* The inductive invariant. *)
Inv == RoutesOK /\ TableOK /\ SortedOK /\ ServedOK /\ LiteralRouteFirst

LEMMA InvInit == Init => Inv
<1> SUFFICES ASSUME Init PROVE Inv
  OBVIOUS
<1>1. routes \in Seq(Route) /\ Len(routes) = 0
  BY EmptySeq DEF Init
<1>2. RoutesOK
  BY <1>1, RoutingAssumption DEF RoutesOK
<1>3. TableOK /\ SortedOK /\ ServedOK /\ LiteralRouteFirst
  BY DEF Init, TableOK, SortedOK, ServedOK, LiteralRouteFirst
<1> QED BY <1>2, <1>3 DEF Inv

LEMMA SortedTableSorts ==
    ASSUME RoutesOK, SortedOK
    PROVE  Sorts(SortedTable, Len(routes))
BY InOrderSorts DEF SortedOK, SortedTable

LEMMA SortsUnchanged ==
    ASSUME NEW t, NEW n, UNCHANGED routes
    PROVE  Sorts(t, n)' <=> Sorts(t, n)
BY DEF Sorts, Before, Key

LEMMA DefineInv ==
    ASSUME Inv, NEW route \in Route, Define(route)
    PROVE  Inv'
<1> USE DEF Inv
<1>1. RoutesOK'
  <2>1. PICK i \in 1 .. Len(routes) + 1 : routes' = InsertAt(routes, i, route)
    BY DEF Define
  <2>2. Len(routes) \in Nat /\ \A k \in 1 .. Len(routes) : routes[k] \in Route
    BY RoutesType
  <2>3. i - 1 \in Int /\ i \in Int /\ Len(routes) \in Int
    BY <2>2
  <2>4. /\ SubSeq(routes, 1, i - 1) \in Seq(Route)
        /\ Len(SubSeq(routes, 1, i - 1)) = i - 1
    <3>1. \A k \in 1 .. i - 1 : routes[k] \in Route
      BY <2>2
    <3>2. /\ SubSeq(routes, 1, i - 1) \in Seq(Route)
          /\ Len(SubSeq(routes, 1, i - 1)) = IF 1 <= i - 1 THEN i - 1 - 1 + 1 ELSE 0
      BY <2>3, <3>1, SubSeqProperties
    <3> QED BY <2>2, <3>2
  <2>5. /\ SubSeq(routes, i, Len(routes)) \in Seq(Route)
        /\ Len(SubSeq(routes, i, Len(routes))) = Len(routes) - i + 1
    <3>1. \A k \in i .. Len(routes) : routes[k] \in Route
      BY <2>2
    <3>2. /\ SubSeq(routes, i, Len(routes)) \in Seq(Route)
          /\ Len(SubSeq(routes, i, Len(routes)))
                = IF i <= Len(routes) THEN Len(routes) - i + 1 ELSE 0
      BY <2>3, <3>1, SubSeqProperties
    <3> QED BY <2>2, <3>2
  <2>6. /\ SubSeq(routes, 1, i - 1) \o <<route>> \in Seq(Route)
        /\ Len(SubSeq(routes, 1, i - 1) \o <<route>>) = i
    <3>1. <<route>> \in Seq(Route) /\ Len(<<route>>) = 1
      OBVIOUS
    <3>2. /\ SubSeq(routes, 1, i - 1) \o <<route>> \in Seq(Route)
          /\ Len(SubSeq(routes, 1, i - 1) \o <<route>>)
                = Len(SubSeq(routes, 1, i - 1)) + Len(<<route>>)
      BY <2>4, <3>1, ConcatProperties
    <3> QED BY <2>3, <2>4, <3>1, <3>2
  <2>7. routes' \in Seq(Route) /\ Len(routes') = Len(routes) + 1
    <3> DEFINE a == SubSeq(routes, 1, i - 1) \o <<route>>
               b == SubSeq(routes, i, Len(routes))
    <3>1. routes' = a \o b
      BY <2>1 DEF InsertAt
    <3>2. a \in Seq(Route) /\ b \in Seq(Route) /\ Len(a) = i /\ Len(b) = Len(routes) - i + 1
      BY <2>5, <2>6
    <3> HIDE DEF a, b
    <3>3. a \o b \in Seq(Route) /\ Len(a \o b) = Len(a) + Len(b)
      BY <3>2, ConcatProperties
    <3> QED BY <2>2, <3>1, <3>2, <3>3
  <2> QED BY <2>2, <2>7, RoutingAssumption DEF Define, RoutesOK
<1>2. TableOK' /\ SortedOK'
  BY DEF Define, TableOK, SortedOK
<1>3. ServedOK' /\ LiteralRouteFirst'
  BY DEF Define, ServedOK, LiteralRouteFirst
<1> QED BY <1>1, <1>2, <1>3

LEMMA SameRoutes ==
    ASSUME UNCHANGED <<routes, request>>
    PROVE  UNCHANGED <<Matching, MatchingButMethod>>
BY DEF Matching, MatchingButMethod

LEMMA GenerateTableInv ==
    ASSUME Inv, GenerateTable
    PROVE  Inv'
<1> USE DEF Inv
<1>1. RoutesOK'
  BY DEF RoutesOK, GenerateTable
<1>2. TableOK'
  BY RoutesType DEF TableOK, GenerateTable
<1>3. SortedOK'
  BY DEF SortedOK, GenerateTable
<1>4. ServedOK' /\ LiteralRouteFirst'
  BY DEF ServedOK, LiteralRouteFirst, GenerateTable
<1> QED BY <1>1, <1>2, <1>3, <1>4

LEMMA FindMatchedRouteInv ==
    ASSUME Inv, FindMatchedRoute
    PROVE  Inv'
<1> USE DEF Inv
<1> DEFINE n == Len(routes)
           order == SortedTable
           match == FindMatch(order, request.method, request.url, request.properties)
           other == FindMatch(order, "ALL", request.url, request.properties)
<1>1. /\ phase = "matching" /\ sorted' = TRUE /\ table' = order /\ matched' = match
      /\ UNCHANGED <<routes, request, ran>>
      /\ IF match # 0 \/ (match = 0 /\ request.method = "OPTIONS" /\ other # 0)
         THEN phase' = "running" /\ UNCHANGED answer
         ELSE phase' = "answered" /\ answer' = "invalid route"
  BY DEF FindMatchedRoute
<1>2. n \in Nat /\ Sorts(order, n) /\ order \in [1 .. n -> 1 .. n]
  BY RoutesType, SortedTableSorts DEF Sorts
<1>3. \/ match = 0 /\ Matching = {}
      \/ \E k \in 1 .. n :
            /\ match = order[k] /\ order[k] \in Matching
            /\ \A j \in 1 .. k - 1 : order[j] \notin Matching
  <2>1. \A k \in 1 .. n : order[k] \in Matching <=>
           IsMatch(routes[order[k]], request.method, request.url, request.properties)
    <3>1. \A k \in 1 .. n : order[k] \in 1 .. n
      BY <1>2
    <3> QED BY <3>1, RoutesType DEF Matching
  <2>2. \A i \in Matching : \E k \in 1 .. n : order[k] = i
    BY <1>2, RoutesType DEF Matching, Sorts
  <2>3. \/ match = 0 /\ \A k \in 1 .. n :
              ~IsMatch(routes[order[k]], request.method, request.url, request.properties)
        \/ \E k \in 1 .. n :
              /\ match = order[k]
              /\ IsMatch(routes[order[k]], request.method, request.url, request.properties)
              /\ \A j \in 1 .. k - 1 :
                    ~IsMatch(routes[order[j]], request.method, request.url, request.properties)
    <3> HIDE DEF n, order
    <3> QED BY <1>2, FirstMatch DEF match
  <2> HIDE DEF match, order, n
  <2>4. CASE match = 0 /\ \A k \in 1 .. n :
              ~IsMatch(routes[order[k]], request.method, request.url, request.properties)
    <3>1. Matching = {}
      BY <2>1, <2>2, <2>4
    <3> QED BY <2>4, <3>1
  <2>5. CASE \E k \in 1 .. n :
              /\ match = order[k]
              /\ IsMatch(routes[order[k]], request.method, request.url, request.properties)
              /\ \A j \in 1 .. k - 1 :
                    ~IsMatch(routes[order[j]], request.method, request.url, request.properties)
    <3>1. \A k \in 1 .. n : \A j \in 1 .. k - 1 : j \in 1 .. n
      BY <1>2
    <3> QED BY <2>1, <2>5, <3>1
  <2> QED BY <2>3, <2>4, <2>5
<1>4. match = 0 \/ match \in Matching
  <2> HIDE DEF match, order, n
  <2> QED BY <1>3
<1>5. other # 0 <=> MatchingButMethod # {}
  <2>1. \A k \in 1 .. n : order[k] \in MatchingButMethod <=>
           IsMatch(routes[order[k]], "ALL", request.url, request.properties)
    <3>1. \A k \in 1 .. n : order[k] \in 1 .. n
      BY <1>2
    <3> QED BY <3>1, MatchesButMethod
  <2>2. \A i \in MatchingButMethod : \E k \in 1 .. n : order[k] = i
    BY <1>2, RoutesType DEF MatchingButMethod, Sorts
  <2>3. \/ other = 0 /\ \A k \in 1 .. n :
              ~IsMatch(routes[order[k]], "ALL", request.url, request.properties)
        \/ \E k \in 1 .. n :
              /\ other = order[k]
              /\ IsMatch(routes[order[k]], "ALL", request.url, request.properties)
    <3> HIDE DEF n, order
    <3> QED BY <1>2, FirstMatch DEF other
  <2>4. 0 \notin 1 .. n /\ \A k \in 1 .. n : order[k] \in 1 .. n
    BY <1>2
  <2> HIDE DEF other, order, n
  <2> QED BY <2>1, <2>2, <2>3, <2>4
<1>6. 0 \notin Matching
  BY RoutesType DEF Matching
<1>7. RoutesOK'
  BY <1>1 DEF RoutesOK
<1>8. TableOK' /\ SortedOK'
  <2>1. Sorts(order, n)
    BY <1>2
  <2>2. Sorts(table, Len(routes))'
    BY <1>1, <2>1, SortsUnchanged
  <2>3. TableOK'
    BY <2>2 DEF TableOK, Sorts
  <2> QED BY <1>1, <2>2, <2>3 DEF SortedOK
<1>9. ServedOK'
  <2>1. UNCHANGED <<Matching, MatchingButMethod>>
    BY <1>1, SameRoutes
  <2>2. /\ request' \in Request /\ request' = request /\ ran' = 0 /\ answer = "none"
    BY <1>1 DEF ServedOK
  <2> HIDE DEF match, other, order, n
  <2> QED BY <1>1, <1>3, <1>4, <1>5, <1>6, <2>1, <2>2 DEF ServedOK
<1>10. LiteralRouteFirst'
  <2>1. UNCHANGED <<Matching, MatchingButMethod>>
    BY <1>1, SameRoutes
  <2> SUFFICES ASSUME match # 0, NEW i \in Matching, routes[i].path = request.url,
                      \A j \in DOMAIN request.url : request.url[j] > 0
               PROVE  routes[match].path = request.url
    BY <1>1, <2>1 DEF LiteralRouteFirst
  <2> SUFFICES ASSUME routes[match].path # request.url PROVE FALSE
    OBVIOUS
  <2>2. PICK k \in 1 .. n : /\ match = order[k] /\ order[k] \in Matching
                            /\ \A j \in 1 .. k - 1 : order[j] \notin Matching
    <3> HIDE DEF match, order, n
    <3> QED BY <1>3
  <2>3. i \in 1 .. n /\ match \in 1 .. n
    BY <2>2, RoutesType DEF Matching
  <2>4. PICK l \in 1 .. n : order[l] = i
    BY <1>2, <2>3 DEF Sorts
  <2>5. match # i
    OBVIOUS
  <2> HIDE DEF match, order, n
  <2>6. k < l
    BY <1>2, <2>2, <2>4, <2>5
  <2>7. Before(match, i)
    BY <1>2, <2>2, <2>4, <2>6 DEF Sorts
  <2>8. After(Key(i), Key(match))
    <3>1. /\ routes[match].path \in Path /\ TemplateMatches(routes[match].path, request.url)
      BY <1>4, <2>2, <2>3, RoutesType DEF Matching, IsMatch, Route, n
    <3>2. request.url \in Url
      BY DEF ServedOK, Request
    <3>3. After(ProcessingKey(request.url), ProcessingKey(routes[match].path))
      BY <3>1, <3>2, LiteralAfter
    <3> QED BY <3>3 DEF Key
  <2>9. Before(i, match)
    BY <2>8 DEF Before
  <2> QED BY <2>3, <2>7, <2>9, BeforeOrder DEF n
<1> QED BY <1>7, <1>8, <1>9, <1>10

LEMMA RunFunctionInv ==
    ASSUME Inv, RunFunction
    PROVE  Inv'
<1> USE DEF Inv
<1>1. /\ phase = "running" /\ phase' = "answered" /\ ran' = GetMatchedFunction
      /\ UNCHANGED <<routes, table, sorted, request, matched>>
  BY DEF RunFunction
<1>2. UNCHANGED <<Matching, MatchingButMethod>>
  BY <1>1, SameRoutes
<1>3. 0 \notin Matching
  BY RoutesType DEF Matching
<1>4. RoutesOK' /\ TableOK'
  BY <1>1 DEF RoutesOK, TableOK
<1>5. SortedOK'
  <2>1. Sorts(table, Len(routes))' <=> Sorts(table, Len(routes))
    BY <1>1, SortsUnchanged
  <2> QED BY <1>1, <2>1 DEF SortedOK
<1>6. ServedOK'
  <2>1. /\ request' \in Request
        /\ \/ matched \in Matching
           \/ /\ matched = 0 /\ Matching = {}
              /\ request.method = "OPTIONS" /\ MatchingButMethod # {}
    BY <1>1 DEF ServedOK
  <2>2. CASE matched \in Matching
    <3>1. GetMatchedFunction \in Matching /\ GetMatchedFunction # 0
      BY <1>3, <2>2, FirstOfMap
    <3>2. answer' = "function"
      BY <3>1 DEF RunFunction
    <3> QED BY <1>1, <1>2, <2>1, <2>2, <3>1, <3>2 DEF ServedOK
  <2>3. CASE /\ matched = 0 /\ Matching = {}
             /\ request.method = "OPTIONS" /\ MatchingButMethod # {}
    <3>1. GetMatchedFunction = 0
      BY <2>3, FirstOfMap
    <3>2. answer' = "default"
      BY <2>3, <3>1 DEF RunFunction
    <3> QED BY <1>1, <1>2, <2>1, <2>3, <3>1, <3>2 DEF ServedOK
  <2> QED BY <2>1, <2>2, <2>3
<1>7. LiteralRouteFirst'
  BY <1>1, <1>2 DEF LiteralRouteFirst
<1> QED BY <1>4, <1>5, <1>6, <1>7

LEMMA ReceiveInv ==
    ASSUME Inv, Receive
    PROVE  Inv'
<1> USE DEF Inv
<1>1. /\ phase = "answered" /\ phase' = "matching" /\ matched' = 0
      /\ UNCHANGED <<routes, table, sorted>>
  BY DEF Receive
<1>2. RoutesOK' /\ TableOK'
  BY <1>1 DEF RoutesOK, TableOK
<1>3. SortedOK'
  <2>1. Sorts(table, Len(routes))' <=> Sorts(table, Len(routes))
    BY <1>1, SortsUnchanged
  <2> QED BY <1>1, <2>1 DEF SortedOK
<1>4. ServedOK' /\ LiteralRouteFirst'
  BY DEF Receive, ServedOK, LiteralRouteFirst
<1> QED BY <1>2, <1>3, <1>4

LEMMA InvStep == Inv /\ [Next]_vars => Inv'
<1> SUFFICES ASSUME Inv, [Next]_vars PROVE Inv'
  OBVIOUS
<1>1. CASE UNCHANGED vars
  <2>1. UNCHANGED <<Matching, MatchingButMethod>>
    BY <1>1, SameRoutes DEF vars
  <2>2. Sorts(table, Len(routes))' <=> Sorts(table, Len(routes))
    BY <1>1, SortsUnchanged DEF vars
  <2>3. RoutesOK' /\ TableOK' /\ SortedOK'
    BY <1>1, <2>2 DEF vars, Inv, RoutesOK, TableOK, SortedOK
  <2>4. ServedOK' /\ LiteralRouteFirst'
    BY <1>1, <2>1 DEF vars, Inv, ServedOK, LiteralRouteFirst
  <2> QED BY <2>3, <2>4 DEF Inv
<1>2. CASE \E route \in Route : Define(route)
  BY <1>2, DefineInv
<1> QED BY <1>1, <1>2, GenerateTableInv, FindMatchedRouteInv, RunFunctionInv, ReceiveInv DEF Next

LEMMA InvAlways == Spec => []Inv
BY InvInit, InvStep, PTL DEF Spec

(* Every variable has its type, whatever the paths and their number.       *)
THEOREM TypeCorrect == Spec => []TypeOK
<1>1. Inv => TypeOK
  <2> SUFFICES ASSUME Inv PROVE TypeOK
    OBVIOUS
  <2> USE DEF Inv
  <2>1. Len(routes) <= MaxRoutes /\ ToSet(routes) \subseteq Route
    BY RoutesType DEF RoutesOK, ToSet
  <2>2. ASSUME phase # "defining"
        PROVE  Len(table) = Len(routes) /\ ToSet(table) = DOMAIN routes
    <3>1. /\ table \in [1 .. Len(routes) -> 1 .. Len(routes)]
          /\ \A i \in 1 .. Len(routes) : \E k \in 1 .. Len(routes) : table[k] = i
      BY <2>2 DEF TableOK
    <3>2. Len(routes) \in Nat /\ DOMAIN routes = 1 .. Len(routes)
      BY RoutesType
    <3>3. Len(table) = Len(routes)
      BY <3>1, <3>2
    <3>4. ToSet(table) = DOMAIN routes
      BY <3>1, <3>2 DEF ToSet
    <3> QED BY <3>3, <3>4
  <2>3. Matching \subseteq 1 .. Len(routes)
    BY RoutesType DEF Matching
  <2>4. {matched, ran} \subseteq 0 .. Len(routes)
    <3>1. {matched, ran} \subseteq Matching \cup {0}
      BY DEF ServedOK
    <3>2. Len(routes) \in Nat
      BY RoutesType
    <3>3. Matching \cup {0} \subseteq 0 .. Len(routes)
      BY <2>3, <3>2
    <3> QED BY <3>1, <3>3
  <2>5. answer \in {"none", "invalid route", "function", "default", "no definition"}
    BY DEF ServedOK
  <2> QED BY <2>1, <2>2, <2>4, <2>5 DEF TypeOK, SortedOK, ServedOK
<1> QED BY <1>1, InvAlways, PTL

(* The engine runs a function of a matching route exactly when the IO pool *)
(* has matched one; 200 and 404 are given as the routes defined say.       *)
THEOREM FoundIsRun == Spec => []AnsweredAsDefined
<1>1. Inv => AnsweredAsDefined
  <2> SUFFICES ASSUME Inv, phase = "answered"
               PROVE  /\ answer = CASE Matching # {} -> "function"
                                    [] Matching = {} /\ request.method = "OPTIONS"
                                          /\ MatchingButMethod # {} -> "default"
                                    [] OTHER -> "invalid route"
                      /\ answer = "function" => {matched, ran} \subseteq Matching
    BY DEF AnsweredAsDefined, Answered
  <2> QED BY DEF Inv, ServedOK
<1> QED BY <1>1, InvAlways, PTL

(* The route whose path is the URL itself is matched before those that     *)
(* match it with parameters, in whatever order they were defined.          *)
THEOREM LiteralFirst == Spec => []LiteralRouteFirst
BY InvAlways, PTL DEF Inv
=============================================================================
