---------------------------- MODULE QueueLemmas ----------------------------
(***************************************************************************)
(* Facts about numbers, loops and queues that the proofs of the modules    *)
(* share.  Induction is over sets: a set of numbers that contains zero and *)
(* is closed under successor contains all; so none of the lemmas has an    *)
(* operator as a parameter.                                                *)
(***************************************************************************)
EXTENDS Integers, Sequences, FiniteSetTheorems, SequenceTheorems, WellFoundedInduction, TLAPS

-----------------------------------------------------------------------------
(* Induction and loops *)

\* A set of natural numbers that is not empty has a least element.
LEMMA LeastElement ==
  ASSUME NEW T \in SUBSET Nat, T # {}
  PROVE  \E x \in T : \A y \in T : x <= y
<1>1. PICK x \in T : \A y \in T : ~(<<y, x>> \in OpToRel(<, Nat))
  BY WFMin, NatLessThanWellFounded
<1>2. ASSUME NEW y \in T PROVE ~(y < x)
  <2>1. y \in Nat /\ x \in Nat
    OBVIOUS
  <2>2. y < x => <<y, x>> \in OpToRel(<, Nat)
    BY <2>1, Zenon DEF OpToRel
  <2> QED BY <1>1, <2>2, Zenon
<1> QED BY <1>2

\* Induction up to n.
LEMMA UpTo ==
  ASSUME NEW n \in Nat, NEW T, 0 \in T,
         \A k \in 0 .. n - 1 : k \in T => k + 1 \in T
  PROVE  \A k \in 0 .. n : k \in T
<1> DEFINE U == {k \in 0 .. n : k \notin T}
<1> SUFFICES ASSUME U # {} PROVE FALSE
  OBVIOUS
<1>1. U \in SUBSET Nat
  OBVIOUS
<1> HIDE DEF U
<1>2. PICK x \in U : \A y \in U : x <= y
  BY <1>1, LeastElement
<1>3. x \in 0 .. n /\ x \notin T /\ x # 0
  BY <1>2 DEF U
<1>4. x - 1 \in 0 .. n - 1 /\ x - 1 \in 0 .. n /\ ~(x <= x - 1) /\ (x - 1) + 1 = x
  BY <1>3
<1>5. x - 1 \in T
  BY <1>2, <1>4 DEF U
<1>6. (x - 1) + 1 \in T
  BY <1>4, <1>5, Zenon
<1> QED BY <1>3, <1>4, <1>6, Zenon

\* The states of a loop: from b, the k-th turn goes from x to F[k][x].
LEMMA LoopRuns ==
  ASSUME NEW S, NEW b \in S, NEW n \in Nat, NEW F \in [1 .. n -> [S -> S]]
  PROVE  \E f \in [0 .. n -> S] :
           f[0] = b /\ \A k \in 1 .. n : f[k] = F[k][f[k - 1]]
<1> DEFINE Runs(f, m) == /\ f \in [0 .. m -> S] /\ f[0] = b
                         /\ \A k \in 1 .. m : f[k] = F[k][f[k - 1]]
           T == {m \in Nat : \E f : Runs(f, m)}
<1>1. 0 \in T
  <2> DEFINE f == [k \in 0 .. 0 |-> b]
  <2>1. Runs(f, 0)
    OBVIOUS
  <2> QED BY <2>1
<1>2. ASSUME NEW m \in 0 .. n - 1, m \in T PROVE m + 1 \in T
  <2>1. m \in Nat /\ m + 1 \in Nat /\ m + 1 \in 1 .. n
    OBVIOUS
  <2>2. PICK g : Runs(g, m)
    BY <1>2
  <2> DEFINE f == [k \in 0 .. m + 1 |-> IF k = m + 1 THEN F[m + 1][g[m]] ELSE g[k]]
  <2>3. g[m] \in S /\ F[m + 1][g[m]] \in S
    BY <2>1, <2>2
  <2>4. f \in [0 .. m + 1 -> S] /\ f[0] = b
    BY <2>1, <2>2, <2>3
  <2>5. ASSUME NEW k \in 1 .. m + 1 PROVE f[k] = F[k][f[k - 1]]
    <3>1. CASE k = m + 1
      <4>1. f[k - 1] = g[m] /\ f[k] = F[m + 1][g[m]]
        BY <2>1, <3>1
      <4> QED BY <3>1, <4>1
    <3>2. CASE k # m + 1
      <4>1. k \in 1 .. m /\ f[k] = g[k] /\ f[k - 1] = g[k - 1]
        BY <2>1, <3>2
      <4> QED BY <2>2, <4>1
    <3> QED BY <3>1, <3>2
  <2>6. Runs(f, m + 1)
    BY <2>4, <2>5
  <2> QED BY <2>1, <2>6
<1> HIDE DEF T
<1>3. \A k \in 0 .. n : k \in T
  BY <1>1, <1>2, UpTo
<1>4. n \in T
  BY <1>3
<1> QED BY <1>4 DEF T

-----------------------------------------------------------------------------
(* How many elements of a queue are in a set *)

HitsIn(q, T) == Cardinality({i \in DOMAIN q : q[i] \in T})

\* It is a number, at most the length.
LEMMA HitsType ==
  ASSUME NEW S, NEW q \in Seq(S), NEW T
  PROVE  /\ HitsIn(q, T) \in Nat /\ HitsIn(q, T) <= Len(q)
         /\ IsFiniteSet({i \in DOMAIN q : q[i] \in T})
<1> DEFINE A == {i \in DOMAIN q : q[i] \in T}
<1>1. Len(q) \in Nat /\ A \in SUBSET (1 .. Len(q))
  BY LenProperties
<1>2. IsFiniteSet(1 .. Len(q)) /\ Cardinality(1 .. Len(q)) = Len(q)
  BY <1>1, FS_Interval
<1> HIDE DEF A
<1>3. IsFiniteSet(A) /\ Cardinality(A) <= Len(q)
  BY <1>1, <1>2, FS_Subset
<1>4. Cardinality(A) \in Nat
  BY <1>3, FS_CardinalityType
<1> QED BY <1>3, <1>4 DEF A, HitsIn

\* A queue with one more element.
LEMMA AppendIs ==
  ASSUME NEW S, NEW q \in Seq(S), NEW x \in S
  PROVE  /\ Append(q, x) \in Seq(S) /\ Len(Append(q, x)) = Len(q) + 1
         /\ Append(q, x)[Len(q) + 1] = x /\ \A i \in 1 .. Len(q) : Append(q, x)[i] = q[i]
  BY AppendProperties

\* None is in the set if and only if the number is zero; one at least is.
LEMMA HitsNone ==
  ASSUME NEW S, NEW q \in Seq(S), NEW T
  PROVE  /\ (\A i \in 1 .. Len(q) : q[i] \notin T) <=> HitsIn(q, T) = 0
         /\ (\E i \in 1 .. Len(q) : q[i] \in T) <=> HitsIn(q, T) >= 1
<1> DEFINE A == {i \in DOMAIN q : q[i] \in T}
<1>1. DOMAIN q = 1 .. Len(q)
  BY LenProperties
<1>2. A = {} <=> \A i \in 1 .. Len(q) : q[i] \notin T
  BY <1>1
<1>3. IsFiniteSet(A) /\ Cardinality(A) \in Nat /\ HitsIn(q, T) = Cardinality(A)
  BY HitsType DEF HitsIn
<1> HIDE DEF A
<1>4. Cardinality(A) = 0 <=> A = {}
  BY <1>3, FS_EmptySet
<1> QED BY <1>2, <1>3, <1>4

\* If the number is one at most, two elements in the set are the same one.
LEMMA HitsUnique ==
  ASSUME NEW S, NEW q \in Seq(S), NEW T, HitsIn(q, T) <= 1,
         NEW i \in 1 .. Len(q), NEW j \in 1 .. Len(q), q[i] \in T, q[j] \in T
  PROVE  i = j
<1> DEFINE A == {k \in DOMAIN q : q[k] \in T}
<1>1. i \in A /\ j \in A
  BY LenProperties
<1>2. IsFiniteSet(A) /\ Cardinality(A) \in Nat /\ Cardinality(A) <= 1
  BY HitsType DEF HitsIn
<1> HIDE DEF A
<1>3. Cardinality(A) # 0
  BY <1>1, <1>2, FS_EmptySet
<1>4. Cardinality(A) = 1
  BY <1>2, <1>3
<1>5. \E x : A = {x}
  BY <1>2, <1>4, FS_Singleton
<1> QED BY <1>1, <1>5

\* An empty queue has none.
LEMMA HitsEmpty == \A T : HitsIn(<<>>, T) = 0
<1> SUFFICES ASSUME NEW T PROVE HitsIn(<<>>, T) = 0
  OBVIOUS
<1>1. {i \in DOMAIN <<>> : <<>>[i] \in T} = {}
  OBVIOUS
<1> QED BY <1>1, FS_EmptySet, Zenon DEF HitsIn

\* One more at the end.
LEMMA HitsAppend ==
  ASSUME NEW S, NEW q \in Seq(S), NEW x \in S, NEW T
  PROVE  HitsIn(Append(q, x), T) = HitsIn(q, T) + (IF x \in T THEN 1 ELSE 0)
<1> DEFINE A == {i \in DOMAIN q : q[i] \in T}
           r == Append(q, x)
           B == {i \in DOMAIN r : r[i] \in T}
           n == Len(q) + 1
<1>1. /\ Len(q) \in Nat /\ DOMAIN q = 1 .. Len(q) /\ DOMAIN r = 1 .. n
      /\ \A i \in 1 .. Len(q) : r[i] = q[i]
      /\ r[n] = x
  <2>1. r \in Seq(S) /\ Len(r) = Len(q) + 1 /\ r[Len(q) + 1] = x
        /\ \A i \in 1 .. Len(q) : r[i] = q[i]
    BY AppendProperties
  <2> QED BY <2>1, LenProperties
<1>2. B = IF x \in T THEN A \cup {n} ELSE A
  <2>1. \A i \in 1 .. n : i \in 1 .. Len(q) \/ i = n
    BY <1>1
  <2>2. \A i \in 1 .. Len(q) : i \in 1 .. n /\ i # n
    BY <1>1
  <2>3. n \in 1 .. n
    BY <1>1
  <2> HIDE DEF n, r
  <2> QED BY <1>1, <2>1, <2>2, <2>3
<1>3. n \notin A
  BY <1>1
<1>4. IsFiniteSet(A) /\ Cardinality(A) \in Nat /\ HitsIn(q, T) = Cardinality(A)
  BY HitsType DEF HitsIn
<1>5. HitsIn(r, T) = Cardinality(B)
  BY DEF HitsIn
<1> HIDE DEF A, B, n, r
<1>6. Cardinality(A \cup {n}) = Cardinality(A) + 1
  BY <1>3, <1>4, FS_AddElement
<1>7. HitsIn(r, T) = HitsIn(q, T) + (IF x \in T THEN 1 ELSE 0)
  BY <1>2, <1>4, <1>5, <1>6
<1> QED BY <1>7 DEF r

\* Two queues, one after the other.
LEMMA HitsConcat ==
  ASSUME NEW S, NEW q \in Seq(S), NEW r \in Seq(S), NEW T
  PROVE  HitsIn(q \o r, T) = HitsIn(q, T) + HitsIn(r, T)
<1> DEFINE A == {i \in DOMAIN q : q[i] \in T}
           B == {i \in DOMAIN r : r[i] \in T}
           t == q \o r
           C == {i \in DOMAIN t : t[i] \in T}
           m == Len(q)
           D == {i \in m + 1 .. m + Len(r) : r[i - m] \in T}
           f == [i \in B |-> m + i]
<1>1. /\ m \in Nat /\ Len(r) \in Nat /\ DOMAIN q = 1 .. m /\ DOMAIN r = 1 .. Len(r)
      /\ DOMAIN t = 1 .. m + Len(r)
      /\ \A i \in 1 .. m + Len(r) : t[i] = IF i <= m THEN q[i] ELSE r[i - m]
  <2>1. t \in Seq(S) /\ Len(t) = m + Len(r)
        /\ \A i \in 1 .. m + Len(r) : t[i] = IF i <= m THEN q[i] ELSE r[i - m]
    BY ConcatProperties
  <2> QED BY <2>1, LenProperties
<1>2. /\ IsFiniteSet(A) /\ HitsIn(q, T) = Cardinality(A) /\ Cardinality(A) \in Nat
      /\ IsFiniteSet(B) /\ HitsIn(r, T) = Cardinality(B) /\ Cardinality(B) \in Nat
      /\ HitsIn(t, T) = Cardinality(C)
  BY HitsType DEF HitsIn
<1>3. C = A \cup D /\ A \cap D = {}
  <2>1. ASSUME NEW i PROVE i \in C <=> i \in A \cup D
    <3> HIDE DEF t, m
    <3>1. CASE i \in 1 .. m
      BY <1>1, <3>1
    <3>2. CASE i \in m + 1 .. m + Len(r)
      BY <1>1, <3>2
    <3> QED BY <1>1, <3>1, <3>2
  <2>2. A \cap D = {}
    BY <1>1
  <2> HIDE DEF A, C, D
  <2>3. \A i : i \in C <=> i \in A \cup D
    BY <2>1
  <2>4. C = A \cup D
    BY <2>3
  <2> QED BY <2>2, <2>4
<1>4. f \in Bijection(B, D)
  <2>1. f \in [B -> D]
    BY <1>1
  <2>2. \A a, b \in B : f[a] = f[b] => a = b
    BY <1>1
  <2>3. \A d \in D : \E b \in B : f[b] = d
    <3> SUFFICES ASSUME NEW d \in D PROVE \E b \in B : f[b] = d
      OBVIOUS
    <3>1. d - m \in B /\ m + (d - m) = d
      BY <1>1
    <3> QED BY <3>1
  <2> HIDE DEF f, B, D
  <2> QED BY <2>1, <2>2, <2>3 DEF Bijection, Injection, IsInjective, Surjection
<1> HIDE DEF A, B, C, D, t, f
<1>5. IsFiniteSet(D) /\ Cardinality(D) = Cardinality(B)
  BY <1>2, <1>4, FS_Bijection DEF ExistsBijection
<1>6. Cardinality(A \cup D) = Cardinality(A) + Cardinality(D) - Cardinality(A \cap D)
  BY <1>2, <1>5, FS_Union
<1>7. Cardinality(A \cap D) = 0
  BY <1>3, FS_EmptySet
<1>8. HitsIn(t, T) = HitsIn(q, T) + HitsIn(r, T)
  BY <1>2, <1>3, <1>5, <1>6, <1>7
<1> QED BY <1>8 DEF t

\* A queue, cut in two.
LEMMA HitsSplit ==
  ASSUME NEW S, NEW q \in Seq(S), NEW n \in 0 .. Len(q), NEW T
  PROVE  /\ SubSeq(q, 1, n) \in Seq(S) /\ SubSeq(q, n + 1, Len(q)) \in Seq(S)
         /\ Len(SubSeq(q, 1, n)) = n /\ Len(SubSeq(q, n + 1, Len(q))) = Len(q) - n
         /\ \A i \in 1 .. n : SubSeq(q, 1, n)[i] = q[i]
         /\ \A i \in 1 .. Len(q) - n : SubSeq(q, n + 1, Len(q))[i] = q[n + i]
         /\ HitsIn(q, T) = HitsIn(SubSeq(q, 1, n), T) + HitsIn(SubSeq(q, n + 1, Len(q)), T)
<1>1. Len(q) \in Nat /\ n \in Nat /\ \A i \in 1 .. Len(q) : q[i] \in S
  BY LenProperties, ElementOfSeq
<1>2. /\ SubSeq(q, 1, n) \in Seq(S) /\ Len(SubSeq(q, 1, n)) = n
      /\ \A i \in 1 .. n : SubSeq(q, 1, n)[i] = q[i]
  <2>1. \A i \in 1 .. n : q[i] \in S
    BY <1>1
  <2> QED BY <1>1, <2>1, SubSeqProperties
<1>3. /\ SubSeq(q, n + 1, Len(q)) \in Seq(S) /\ Len(SubSeq(q, n + 1, Len(q))) = Len(q) - n
      /\ \A i \in 1 .. Len(q) - n : SubSeq(q, n + 1, Len(q))[i] = q[n + i]
  <2> DEFINE m == n + 1
             l == Len(q)
  <2>1. m \in Int /\ l \in Int /\ \A i \in m .. l : q[i] \in S
    BY <1>1
  <2>2. /\ SubSeq(q, m, l) \in Seq(S)
        /\ Len(SubSeq(q, m, l)) = IF m <= l THEN l - m + 1 ELSE 0
        /\ \A i \in 1 .. l - m + 1 : SubSeq(q, m, l)[i] = q[m + i - 1]
    BY <2>1, SubSeqProperties
  <2>3. Len(SubSeq(q, m, l)) = l - n
    BY <1>1, <2>2
  <2>4. ASSUME NEW i \in 1 .. l - n PROVE SubSeq(q, m, l)[i] = q[n + i]
    <3>1. i \in 1 .. l - m + 1 /\ m + i - 1 = n + i
      BY <1>1
    <3> HIDE DEF m, l
    <3> QED BY <2>2, <3>1
  <2> QED BY <2>2, <2>3, <2>4
<1>4. SubSeq(q, 1, n) \o SubSeq(q, n + 1, Len(q)) = q
  <2>1. 1 \in 1 .. Len(q) + 1 /\ n \in 1 - 1 .. Len(q) /\ Len(q) \in n .. Len(q)
    BY <1>1
  <2>2. SubSeq(q, 1, n) \o SubSeq(q, n + 1, Len(q)) = SubSeq(q, 1, Len(q))
    BY <2>1, ConcatAdjacentSubSeq, Zenon
  <2> QED BY <2>2, SubSeqFull
<1>5. HitsIn(SubSeq(q, 1, n) \o SubSeq(q, n + 1, Len(q)), T)
        = HitsIn(SubSeq(q, 1, n), T) + HitsIn(SubSeq(q, n + 1, Len(q)), T)
  BY <1>2, <1>3, HitsConcat, Zenon
<1> QED BY <1>2, <1>3, <1>4, <1>5

\* The first k elements of a queue, as k grows.
LEMMA HitsPrefix ==
  ASSUME NEW S, NEW q \in Seq(S), NEW T
  PROVE  /\ HitsIn(SubSeq(q, 1, 0), T) = 0
         /\ HitsIn(SubSeq(q, 1, Len(q)), T) = HitsIn(q, T)
         /\ \A k \in 0 .. Len(q) - 1 :
              HitsIn(SubSeq(q, 1, k + 1), T)
                = HitsIn(SubSeq(q, 1, k), T) + (IF q[k + 1] \in T THEN 1 ELSE 0)
<1>1. HitsIn(SubSeq(q, 1, 0), T) = 0
  <2>1. SubSeq(q, 1, 0) = <<>>
    BY SubSeqEmpty
  <2> QED BY <2>1, HitsEmpty
<1>2. HitsIn(SubSeq(q, 1, Len(q)), T) = HitsIn(q, T)
  BY SubSeqFull
<1>3. ASSUME NEW k \in 0 .. Len(q) - 1
      PROVE  HitsIn(SubSeq(q, 1, k + 1), T)
                = HitsIn(SubSeq(q, 1, k), T) + (IF q[k + 1] \in T THEN 1 ELSE 0)
  <2> DEFINE n == k + 1
             x == q[n]
             p == SubSeq(q, 1, k)
  <2>1. Len(q) \in Nat /\ n \in 1 .. Len(q) /\ 1 \in 1 .. Len(q) /\ n - 1 = k /\ x \in S
    BY LenProperties, ElementOfSeq
  <2>2. p \in Seq(S)
    BY <2>1, HitsSplit
  <2>3. SubSeq(q, 1, n) = SubSeq(q, 1, n - 1) \o <<x>>
    <3> HIDE DEF n
    <3> QED BY <2>1, SubSeqRecursiveSecond
  <2>4. SubSeq(q, 1, n) = Append(p, x)
    <3>1. SubSeq(q, 1, n) = p \o <<x>>
      BY <2>1, <2>3, Zenon
    <3> HIDE DEF p, x, n
    <3> QED BY <2>1, <2>2, <3>1, AppendIsConcat
  <2> HIDE DEF p, x, n
  <2>5. HitsIn(Append(p, x), T) = HitsIn(p, T) + (IF x \in T THEN 1 ELSE 0)
    BY <2>1, <2>2, HitsAppend
  <2>6. HitsIn(SubSeq(q, 1, n), T) = HitsIn(p, T) + (IF x \in T THEN 1 ELSE 0)
    BY <2>4, <2>5
  <2> QED BY <2>6, Zenon DEF n, x, p
<1> QED BY <1>1, <1>2, <1>3

\* A larger set has no fewer.
LEMMA HitsSubset ==
  ASSUME NEW S, NEW q \in Seq(S), NEW T, NEW U, T \subseteq U
  PROVE  HitsIn(q, T) <= HitsIn(q, U)
<1> DEFINE A == {i \in DOMAIN q : q[i] \in T}
           B == {i \in DOMAIN q : q[i] \in U}
<1>1. A \in SUBSET B
  OBVIOUS
<1>2. IsFiniteSet(B) /\ HitsIn(q, T) = Cardinality(A) /\ HitsIn(q, U) = Cardinality(B)
  BY HitsType DEF HitsIn
<1> HIDE DEF A, B
<1> QED BY <1>1, <1>2, FS_Subset

-----------------------------------------------------------------------------
(* Positions in rings *)

\* A positive multiple of d is at least d.
LEMMA Multiple ==
  ASSUME NEW d \in Nat \ {0}, NEW k \in Int, k >= 1
  PROVE  d * k >= d
  OBVIOUS

\* Quotient and remainder are unique.
LEMMA ModUnique ==
  ASSUME NEW d \in Nat \ {0}, NEW q \in Int, NEW r \in 0 .. d - 1, NEW a \in Int,
         a = d * q + r
  PROVE  a % d = r
<1> DEFINE p == a \div d
           s == a % d
<1>1. p \in Int /\ s \in 0 .. d - 1 /\ a = d * p + s
  OBVIOUS
<1> HIDE DEF p, s
<1>2. d * (p - q) = r - s /\ d * (q - p) = s - r
  BY <1>1
<1>3. ~(p - q >= 1)
  <2> SUFFICES ASSUME p - q >= 1 PROVE FALSE
    OBVIOUS
  <2>1. d * (p - q) >= d
    BY <1>1, Multiple
  <2> QED BY <1>1, <1>2, <2>1
<1>4. ~(q - p >= 1)
  <2> SUFFICES ASSUME q - p >= 1 PROVE FALSE
    OBVIOUS
  <2>1. d * (q - p) >= d
    BY <1>1, Multiple
  <2> QED BY <1>1, <1>2, <2>1
<1>5. p = q
  BY <1>1, <1>3, <1>4
<1> QED BY <1>1, <1>5 DEF s

\* Going on from a position of the ring.
LEMMA ModPlus ==
  ASSUME NEW d \in Nat \ {0}, NEW a \in Int, NEW b \in Int
  PROVE  ((a % d) + b) % d = (a + b) % d
<1> DEFINE p == a \div d
           s == a % d
<1>1. p \in Int /\ s \in 0 .. d - 1 /\ a = d * p + s
  OBVIOUS
<1> HIDE DEF p, s
<1> DEFINE q == (s + b) \div d
           r == (s + b) % d
<1>2. q \in Int /\ r \in 0 .. d - 1 /\ s + b = d * q + r
  BY <1>1
<1> HIDE DEF q, r
<1> DEFINE u == p + q
           e == a + b
<1>3. e = d * u + r /\ u \in Int /\ e \in Int
  BY <1>1, <1>2
<1> HIDE DEF u, e
<1>4. e % d = r
  BY <1>2, <1>3, ModUnique
<1> QED BY <1>4, Zenon DEF r, s, e

\* A ring position moves on with the count it is the remainder of.
LEMMA ModNext ==
  ASSUME NEW d \in Nat \ {0}, NEW a \in Int
  PROVE  ((a % d) + 1) % d = (a + 1) % d
<1>1. 1 \in Int
  OBVIOUS
<1> QED BY <1>1, ModPlus, Zenon

\* The position after x: the next slot, or the first one after the last.
LEMMA NextIs ==
  ASSUME NEW d \in Nat \ {0}, NEW x \in 0 .. d - 1
  PROVE  /\ (x + 1) % d = IF x + 1 = d THEN 0 ELSE x + 1
         /\ (x + 1) % d \in 0 .. d - 1
<1>1. CASE x + 1 = d
  <2>1. x + 1 = d * 1 + 0
    BY <1>1
  <2> QED BY <1>1, <2>1, ModUnique
<1>2. CASE x + 1 < d
  <2>1. x + 1 = d * 0 + (x + 1) /\ x + 1 \in 0 .. d - 1
    BY <1>2
  <2> QED BY <1>2, <2>1, ModUnique
<1> QED BY <1>1, <1>2

\* The position m after x, at most once around.
LEMMA WrapIs ==
  ASSUME NEW d \in Nat \ {0}, NEW x \in 0 .. d - 1, NEW m \in 0 .. d
  PROVE  /\ (x + m) % d = IF x + m < d THEN x + m ELSE x + m - d
         /\ (x + m) % d \in 0 .. d - 1
<1>1. CASE x + m < d
  <2>1. x + m = d * 0 + (x + m) /\ x + m \in 0 .. d - 1
    BY <1>1
  <2> QED BY <1>1, <2>1, ModUnique
<1>2. CASE ~(x + m < d)
  <2> DEFINE r == x + m - d
             a == x + m
  <2>1. a = d * 1 + r /\ r \in 0 .. d - 1 /\ a \in Int /\ 1 \in Int
    BY <1>2
  <2> HIDE DEF r, a
  <2>2. a % d = r
    BY <2>1, ModUnique
  <2> QED BY <1>2, <2>1, <2>2 DEF r, a
<1> QED BY <1>1, <1>2

\* How far position i is behind position x.
LEMMA BackIs ==
  ASSUME NEW d \in Nat \ {0}, NEW x \in 0 .. d - 1, NEW i \in 0 .. d - 1
  PROVE  /\ (i - x) % d = IF i >= x THEN i - x ELSE i - x + d
         /\ (i - x) % d \in 0 .. d - 1
<1> DEFINE a == i - x
<1>1. CASE i >= x
  <2>1. a = d * 0 + a /\ a \in 0 .. d - 1 /\ 0 \in Int
    BY <1>1
  <2> HIDE DEF a
  <2>2. a % d = a
    BY <2>1, ModUnique
  <2> QED BY <1>1, <2>1, <2>2 DEF a
<1>2. CASE ~(i >= x)
  <2> DEFINE r == i - x + d
             q == 0 - 1
  <2>1. a = d * q + r /\ r \in 0 .. d - 1 /\ a \in Int /\ q \in Int
    BY <1>2
  <2> HIDE DEF r, a, q
  <2>2. a % d = r
    BY <2>1, ModUnique
  <2> QED BY <1>2, <2>1, <2>2 DEF r, a
<1> QED BY <1>1, <1>2

\* The n slots of a ring from position h on.
Slots(f, h, n, d) == [i \in 1 .. n |-> f[(h + i - 1) % d]]

\* Sequence q is the n slots of ring f from h on.
AreSlots(q, S, f, h, n, d) ==
  /\ q \in Seq(S) /\ Len(q) = n
  /\ \A i \in 1 .. n : /\ q[i] = f[(h + i - 1) % d]
                       /\ (h + i - 1) % d \in 0 .. d - 1
                       /\ (h + i - 1) % d = IF h + i - 1 < d THEN h + i - 1
                                            ELSE h + i - 1 - d

\* They are a sequence of what the ring holds.
LEMMA SlotsType ==
  ASSUME NEW d \in Nat \ {0}, NEW S, NEW f \in [0 .. d - 1 -> S],
         NEW h \in 0 .. d - 1, NEW n \in 0 .. d
  PROVE  AreSlots(Slots(f, h, n, d), S, f, h, n, d)
<1>1. ASSUME NEW i \in 1 .. n
      PROVE  /\ (h + i - 1) % d = IF h + i - 1 < d THEN h + i - 1 ELSE h + i - 1 - d
             /\ (h + i - 1) % d \in 0 .. d - 1
  <2>1. i - 1 \in 0 .. d /\ h + (i - 1) = h + i - 1
    OBVIOUS
  <2> DEFINE m == i - 1
  <2> HIDE DEF m
  <2>2. /\ (h + m) % d = IF h + m < d THEN h + m ELSE h + m - d
        /\ (h + m) % d \in 0 .. d - 1
    BY <2>1, WrapIs DEF m
  <2> QED BY <2>1, <2>2 DEF m
<1>2. ASSUME NEW i \in 1 .. n PROVE f[(h + i - 1) % d] \in S
  BY <1>1
<1>3. Slots(f, h, n, d) \in [1 .. n -> S]
  BY <1>2 DEF Slots
<1>4. n \in Nat
  OBVIOUS
<1>5. Slots(f, h, n, d) \in Seq(S) /\ Len(Slots(f, h, n, d)) = n
  BY <1>3, <1>4, SeqDef, LenProperties
<1> QED BY <1>1, <1>5 DEF Slots, AreSlots

\* Slots z have element x behind the n slots of f from slot h.
SlotAdds(z, f, h, n, x, d) == Slots(z, h, n + 1, d) = Append(Slots(f, h, n, d), x)

\* A slot is filled behind the last.
LEMMA SlotsAppend ==
  ASSUME NEW d \in Nat \ {0}, NEW S, NEW f \in [0 .. d - 1 -> S],
         NEW h \in 0 .. d - 1, NEW n \in 0 .. d - 1, NEW x \in S,
         NEW p, p = (h + n) % d, NEW f2, f2 = [f EXCEPT ![p] = x]
  PROVE  SlotAdds(f2, f, h, n, x, d)
<1> DEFINE a == Slots(f, h, n, d)
           b == Slots(f2, h, n + 1, d)
           c == Append(a, x)
<1>1. p \in 0 .. d - 1 /\ p = IF h + n < d THEN h + n ELSE h + n - d
  <2>1. n \in 0 .. d
    OBVIOUS
  <2> QED BY <2>1, WrapIs
<1>2. f2 \in [0 .. d - 1 -> S] /\ n + 1 \in 0 .. d /\ n \in 0 .. d
  BY <1>1
<1>3. /\ a \in Seq(S) /\ Len(a) = n
      /\ \A i \in 1 .. n : /\ a[i] = f[(h + i - 1) % d]
                           /\ (h + i - 1) % d = IF h + i - 1 < d THEN h + i - 1
                                                ELSE h + i - 1 - d
                           /\ (h + i - 1) % d \in 0 .. d - 1
  <2>1. AreSlots(a, S, f, h, n, d)
    BY <1>2, SlotsType, Zenon
  <2> QED BY <2>1 DEF AreSlots
<1>4. /\ b \in Seq(S) /\ Len(b) = n + 1
      /\ \A i \in 1 .. n + 1 : /\ b[i] = f2[(h + i - 1) % d]
                               /\ (h + i - 1) % d = IF h + i - 1 < d THEN h + i - 1
                                                    ELSE h + i - 1 - d
  <2> DEFINE m == n + 1
  <2>1. m \in 0 .. d
    BY <1>2
  <2> HIDE DEF m
  <2>2. AreSlots(Slots(f2, h, m, d), S, f2, h, m, d)
    BY <1>2, <2>1, SlotsType, Zenon
  <2> QED BY <2>2 DEF m, AreSlots
<1>5. /\ c \in Seq(S) /\ Len(c) = n + 1 /\ c[n + 1] = x
      /\ \A i \in 1 .. n : c[i] = a[i]
  <2> HIDE DEF a
  <2> QED BY <1>3, AppendProperties
<1>6. ASSUME NEW i \in 1 .. n + 1 PROVE b[i] = c[i]
  <2>1. CASE i = n + 1
    <3>1. (h + i - 1) % d = p
      BY <1>1, <1>4, <2>1
    <3>2. f2[p] = x
      BY <1>1
    <3> HIDE DEF b, c
    <3> QED BY <1>4, <1>5, <2>1, <3>1, <3>2
  <2>2. CASE i # n + 1
    <3>1. i \in 1 .. n
      BY <2>2
    <3> DEFINE j == (h + i - 1) % d
    <3>2. j # p /\ j \in 0 .. d - 1
      <4>1. j \in 0 .. d - 1 /\ j = IF h + i - 1 < d THEN h + i - 1 ELSE h + i - 1 - d
        BY <1>3, <3>1
      <4> HIDE DEF j
      <4> QED BY <1>1, <3>1, <4>1
    <3>3. f2[j] = f[j]
      <4> HIDE DEF j
      <4> QED BY <3>2
    <3> HIDE DEF b, c, a
    <3> QED BY <1>3, <1>4, <1>5, <3>1, <3>3
  <2> QED BY <2>1, <2>2
<1> HIDE DEF b, c, a
<1>7. b = c
  BY <1>4, <1>5, <1>6, SeqEqual
<1> QED BY <1>7 DEF b, c, a, SlotAdds

\* The slots split at k.
Splits(f, h, n, k, d) ==
  /\ (h + k) % d \in 0 .. d - 1
  /\ Slots(f, h, k, d) = SubSeq(Slots(f, h, n, d), 1, k)
  /\ Slots(f, (h + k) % d, n - k, d) = SubSeq(Slots(f, h, n, d), k + 1, n)

\* They do.
LEMMA SlotsSplit ==
  ASSUME NEW d \in Nat \ {0}, NEW S, NEW f \in [0 .. d - 1 -> S],
         NEW h \in 0 .. d - 1, NEW n \in 0 .. d, NEW k \in 0 .. n
  PROVE  Splits(f, h, n, k, d)
<1> DEFINE a == Slots(f, h, n, d)
           p == (h + k) % d
           m == n - k
           b == Slots(f, h, k, d)
           c == Slots(f, p, m, d)
<1>0. k \in 0 .. d /\ m \in 0 .. d /\ n = k + m
  OBVIOUS
<1>1. p \in 0 .. d - 1 /\ p = IF h + k < d THEN h + k ELSE h + k - d
  BY <1>0, WrapIs
<1>2. /\ a \in Seq(S) /\ Len(a) = n
      /\ \A i \in 1 .. n : /\ a[i] = f[(h + i - 1) % d]
                           /\ (h + i - 1) % d = IF h + i - 1 < d THEN h + i - 1
                                                ELSE h + i - 1 - d
  <2>1. AreSlots(a, S, f, h, n, d)
    BY SlotsType, Zenon
  <2> QED BY <2>1 DEF AreSlots
<1>3. b \in Seq(S) /\ Len(b) = k /\ \A i \in 1 .. k : b[i] = f[(h + i - 1) % d]
  <2>1. AreSlots(b, S, f, h, k, d)
    BY <1>0, SlotsType, Zenon
  <2> QED BY <2>1 DEF AreSlots
<1>4. /\ c \in Seq(S) /\ Len(c) = m
      /\ \A i \in 1 .. m : /\ c[i] = f[(p + i - 1) % d]
                           /\ (p + i - 1) % d = IF p + i - 1 < d THEN p + i - 1
                                                ELSE p + i - 1 - d
  <2> HIDE DEF p, m
  <2>1. AreSlots(c, S, f, p, m, d)
    BY <1>0, <1>1, SlotsType, Zenon
  <2> QED BY <2>1 DEF AreSlots
<1>5. /\ SubSeq(a, 1, k) \in Seq(S) /\ Len(SubSeq(a, 1, k)) = k
      /\ SubSeq(a, k + 1, n) \in Seq(S) /\ Len(SubSeq(a, k + 1, n)) = m
      /\ \A i \in 1 .. k : SubSeq(a, 1, k)[i] = a[i]
      /\ \A i \in 1 .. m : SubSeq(a, k + 1, n)[i] = a[k + i]
  <2> HIDE DEF a
  <2>1. k \in 0 .. Len(a)
    BY <1>2
  <2> QED BY <1>2, <2>1, HitsSplit
<1>6. b = SubSeq(a, 1, k)
  <2>1. ASSUME NEW i \in 1 .. k PROVE b[i] = a[i]
    <3>1. i \in 1 .. n
      OBVIOUS
    <3> HIDE DEF a, b
    <3> QED BY <1>2, <1>3, <3>1
  <2> HIDE DEF a, b
  <2> QED BY <1>3, <1>5, <2>1, SeqEqual
<1>7. c = SubSeq(a, k + 1, n)
  <2>1. ASSUME NEW i \in 1 .. m PROVE c[i] = a[k + i]
    <3>1. k + i \in 1 .. n
      OBVIOUS
    <3>2. (h + (k + i) - 1) % d = (p + i - 1) % d
      <4> DEFINE j == k + i
      <4>1. (h + j - 1) % d = IF h + j - 1 < d THEN h + j - 1 ELSE h + j - 1 - d
        <5> HIDE DEF j
        <5> QED BY <1>2, <3>1 DEF j
      <4>2. (p + i - 1) % d = IF p + i - 1 < d THEN p + i - 1 ELSE p + i - 1 - d
        <5> HIDE DEF p, m
        <5> QED BY <1>4
      <4> DEFINE u == (h + j - 1) % d
                 v == (p + i - 1) % d
      <4> HIDE DEF u, v, p
      <4>3. u = v
        BY <1>1, <4>1, <4>2, <3>1 DEF u, v
      <4> QED BY <4>3 DEF u, v
    <3> HIDE DEF a, c, p
    <3> QED BY <1>2, <1>4, <3>1, <3>2
  <2> HIDE DEF a, c, p, m
  <2> QED BY <1>4, <1>5, <2>1, SeqEqual
<1>8. p \in 0 .. d - 1
  BY <1>1
<1> HIDE DEF a, b
<1>9. b = SubSeq(a, 1, k) /\ c = SubSeq(a, k + 1, n)
  BY <1>6, <1>7
<1> QED BY <1>8, <1>9 DEF p, m, a, b, c, Splits

\* How far slot i of the ring is behind its end.
LEMMA BehindIs ==
  ASSUME NEW d \in Nat \ {0}, NEW h \in 0 .. d - 1, NEW n \in 0 .. d, NEW i \in 1 .. d,
         NEW p \in Int, p = IF h + n < d THEN h + n ELSE h + n - d,
         NEW j \in Int, j = IF h + i - 1 < d THEN h + i - 1 ELSE h + i - 1 - d,
         NEW k \in Int, k = IF j >= p THEN j - p ELSE j - p + d
  PROVE  (i <= n => k = i - 1 - n + d) /\ (i > n => k = i - 1 - n)
  OBVIOUS

\* Ring z is ring f filled from position p on with the first m of q.
Filled(z, f, q, p, m, d) ==
  \A i \in 0 .. d - 1 : z[i] = IF (i - p) % d < m THEN q[((i - p) % d) + 1] ELSE f[i]

\* The slots of ring z are those of ring f and the first m of q.
Extended(z, f, q, h, n, m, d) ==
  Slots(z, h, n + m, d) = Slots(f, h, n, d) \o SubSeq(q, 1, m)

\* Behind the n slots the ring is filled with the first m of a sequence.
LEMMA SlotsExtend ==
  ASSUME NEW d \in Nat \ {0}, NEW S, NEW f \in [0 .. d - 1 -> S], NEW z \in [0 .. d - 1 -> S],
         NEW h \in 0 .. d - 1, NEW n \in 0 .. d, NEW m \in Nat, n + m <= d,
         NEW q \in Seq(S), m <= Len(q), NEW p, p = (h + n) % d, Filled(z, f, q, p, m, d)
  PROVE  Extended(z, f, q, h, n, m, d)
<1> DEFINE l == n + m
           a == Slots(f, h, n, d)
           b == Slots(z, h, l, d)
           c == SubSeq(q, 1, m)
<1>1. p \in 0 .. d - 1 /\ p = IF h + n < d THEN h + n ELSE h + n - d
  BY WrapIs
<1>2. l \in 0 .. d
  OBVIOUS
<1>3. AreSlots(a, S, f, h, n, d)
  BY SlotsType, Zenon
<1>4. AreSlots(b, S, z, h, l, d)
  <2> HIDE DEF l
  <2> QED BY <1>2, SlotsType, Zenon
<1>5. c \in Seq(S) /\ Len(c) = m /\ \A i \in 1 .. m : c[i] = q[i]
  <2>1. m \in 0 .. Len(q)
    OBVIOUS
  <2> QED BY <2>1, HitsSplit
<1> HIDE DEF a, b, c
<1>6. /\ a \o c \in Seq(S) /\ Len(a \o c) = l
      /\ \A i \in 1 .. n : (a \o c)[i] = a[i]
      /\ \A i \in n + 1 .. l : (a \o c)[i] = c[i - n]
  <2>1. a \in Seq(S) /\ Len(a) = n
    BY <1>3 DEF AreSlots
  <2>2. /\ a \o c \in Seq(S) /\ Len(a \o c) = Len(a) + Len(c)
        /\ \A i \in 1 .. Len(a) + Len(c) :
             (a \o c)[i] = IF i <= Len(a) THEN a[i] ELSE c[i - Len(a)]
    BY <1>5, <2>1, ConcatProperties
  <2> QED BY <1>5, <2>1, <2>2
<1>7. ASSUME NEW i \in 1 .. l PROVE b[i] = (a \o c)[i]
  <2> DEFINE j == (h + i - 1) % d
             k == (j - p) % d
  <2>1. b[i] = z[j] /\ j \in 0 .. d - 1 /\ j = IF h + i - 1 < d THEN h + i - 1 ELSE h + i - 1 - d
    BY <1>4 DEF AreSlots
  <2> HIDE DEF j
  <2>2. k = (IF j >= p THEN j - p ELSE j - p + d) /\ k \in 0 .. d - 1
    BY <1>1, <2>1, BackIs
  <2>3. z[j] = IF k < m THEN q[k + 1] ELSE f[j]
    BY <2>1 DEF Filled
  <2> HIDE DEF k
  <2>a. (i <= n => k = i - 1 - n + d) /\ (i > n => k = i - 1 - n)
    <3>1. i \in 1 .. d /\ p \in Int /\ j \in Int /\ k \in Int
      BY <1>1, <2>1, <2>2
    <3>2. /\ p = IF h + n < d THEN h + n ELSE h + n - d
          /\ j = IF h + i - 1 < d THEN h + i - 1 ELSE h + i - 1 - d
          /\ k = IF j >= p THEN j - p ELSE j - p + d
      BY <1>1, <2>1, <2>2
    <3> QED BY <3>1, <3>2, BehindIs
  <2>4. CASE i <= n
    <3>1. ~(k < m)
      <4>1. k = i - 1 - n + d
        BY <2>4, <2>a
      <4> QED BY <4>1
    <3>2. i \in 1 .. n
      BY <2>4
    <3>3. a[i] = f[j]
      BY <1>3, <3>2 DEF AreSlots, j
    <3> QED BY <1>6, <2>1, <2>3, <3>1, <3>2, <3>3
  <2>5. CASE i > n
    <3>1. k < m /\ k + 1 = i - n
      <4>1. k = i - 1 - n
        BY <2>5, <2>a
      <4> QED BY <4>1
    <3> DEFINE u == i - n
    <3>2. i \in n + 1 .. l /\ u \in 1 .. m
      BY <2>5
    <3>3. (a \o c)[i] = c[u]
      BY <1>6, <3>2
    <3>4. z[j] = q[u]
      BY <2>3, <3>1
    <3> HIDE DEF u
    <3>5. c[u] = q[u]
      BY <1>5, <3>2
    <3> QED BY <2>1, <3>3, <3>4, <3>5, Zenon
  <2>6. i <= n \/ i > n
    OBVIOUS
  <2> QED BY <2>4, <2>5, <2>6, Zenon
<1>8. b = a \o c
  <2>1. b \in Seq(S) /\ Len(b) = l
    BY <1>4 DEF AreSlots
  <2> QED BY <1>6, <1>7, <2>1, SeqEqual
<1> QED BY <1>8 DEF a, b, c, l, Extended

=============================================================================
