----------------------------- MODULE IpStatProofs -----------------------------
(***************************************************************************)
(* The per-IP statistics and the table behind them, for any IPs, hash      *)
(* values and sessions: the table of UtHash finds exactly what was added   *)
(* to it, however often its buckets double, "show ip_stat" shows each IP   *)
(* once, and, to one session, no byte twice.  The folds of expansion are   *)
(* recursive functions: that such a function exists, and what holds of its *)
(* values, is proved from the induction principle that comes first.        *)
(***************************************************************************)
EXTENDS IpStat, FiniteSetTheorems, TLAPS

-----------------------------------------------------------------------------
(* Induction.                                                              *)

\* A set of natural numbers has a least element.
LEMMA NatMin ==
  ASSUME NEW S \in SUBSET Nat, S # {}
  PROVE  \E m \in S : \A k \in S : m <= k
<1> DEFINE R == OpToRel(<, Nat)
<1>1. IsWellFoundedOn(R, Nat)
  BY NatLessThanWellFounded
<1>2. PICK m \in S : \A k \in S : ~ (<<k, m>> \in R)
  <2> HIDE DEF R
  <2> QED
    BY <1>1, WFMin
<1>3. \A k \in S : k < m => <<k, m>> \in R
  BY DEF OpToRel
<1> HIDE DEF R
<1>4. \A k \in S : m <= k
  <2> TAKE k \in S
  <2>1. k \in Nat /\ m \in Nat
    OBVIOUS
  <2>2. ~ (k < m)
    BY <1>2, <1>3
  <2> QED
    BY <2>1, <2>2
<1> QED
  BY <1>4

\* Induction over a set: a first-order form of the principle.
LEMMA NatInd ==
  ASSUME NEW S, 0 \in S, \A n \in Nat : n \in S => n + 1 \in S
  PROVE  \A n \in Nat : n \in S
<1> SUFFICES ASSUME Nat \ S # {} PROVE FALSE
  OBVIOUS
<1>1. PICK m \in Nat \ S : \A k \in Nat \ S : m <= k
  BY NatMin
<1>2. m # 0
  OBVIOUS
<1>3. m - 1 \in Nat /\ m - 1 < m /\ (m - 1) + 1 = m
  BY <1>2
<1>4. m - 1 \in S
  BY <1>1, <1>3
<1> QED
  BY <1>3, <1>4

\* Induction up to a bound.
LEMMA BoundedInd ==
  ASSUME NEW m \in Nat, NEW S, 0 \in S, \A n \in 0 .. m - 1 : n \in S => n + 1 \in S
  PROVE  \A n \in 0 .. m : n \in S
<1> DEFINE T == {n \in Nat : n <= m => n \in S}
<1>1. 0 \in T
  OBVIOUS
<1>2. \A n \in Nat : n \in T => n + 1 \in T
  OBVIOUS
<1> HIDE DEF T
<1>3. \A n \in Nat : n \in T
  BY <1>1, <1>2, NatInd
<1> QED
  BY <1>3 DEF T

-----------------------------------------------------------------------------
(* Powers of two.                                                          *)

\* Adding an element doubles the number of subsets.
LEMMA SubsetsDouble ==
  ASSUME NEW S, IsFiniteSet(S), NEW x, x \notin S
  PROVE  Cardinality(SUBSET (S \cup {x})) = 2 * Cardinality(SUBSET S)
<1> DEFINE A == SUBSET S
           B == {t \cup {x} : t \in A}
           f == [t \in A |-> t \cup {x}]
<1>1. IsFiniteSet(A) /\ Cardinality(A) \in Nat
  BY FS_SUBSET, FS_CardinalityType
<1>2. f \in Bijection(A, B)
  <2>1. f \in [A -> B]
    OBVIOUS
  <2>2. \A t, u \in A : f[t] = f[u] => t = u
    <3> SUFFICES ASSUME NEW t \in A, NEW u \in A, t \cup {x} = u \cup {x} PROVE t = u
      OBVIOUS
    <3> QED
      OBVIOUS
  <2>3. \A v \in B : \E t \in A : f[t] = v
    OBVIOUS
  <2> HIDE DEF A, B, f
  <2> QED
    BY <2>1, <2>2, <2>3 DEF Bijection, Injection, Surjection, IsInjective
<1>3. A \cap B = {}
  OBVIOUS
<1>4. SUBSET (S \cup {x}) = A \cup B
  <2>1. ASSUME NEW u \in SUBSET (S \cup {x}) PROVE u \in A \cup B
    <3>1. CASE x \in u
      <4>1. u \ {x} \in A /\ u = (u \ {x}) \cup {x}
        BY <3>1
      <4> QED
        BY <4>1
    <3>2. CASE x \notin u
      BY <3>2
    <3> QED
      BY <3>1, <3>2
  <2> QED
    BY <2>1
<1> HIDE DEF A, B, f
<1>5. IsFiniteSet(B) /\ Cardinality(B) = Cardinality(A)
  BY <1>1, <1>2, FS_Bijection DEF ExistsBijection
<1>6. Cardinality(A \cup B) = Cardinality(A) + Cardinality(B) - Cardinality(A \cap B)
  BY <1>1, <1>5, FS_Union
<1>7. Cardinality(A \cap B) = 0
  BY <1>3, FS_EmptySet
<1>8. Cardinality(A \cup B) = 2 * Cardinality(A)
  BY <1>1, <1>5, <1>6, <1>7
<1>9. A = SUBSET S
  BY DEF A
<1> QED
  BY <1>4, <1>8, <1>9

\* The number of buckets is positive, and doubles.
LEMMA Powers ==
  ASSUME NEW k \in Nat
  PROVE  2 ^ k \in Nat \ {0} /\ 2 ^ (k + 1) = 2 * 2 ^ k
<1> DEFINE S == 1 .. k
<1>1. IsFiniteSet(S) /\ Cardinality(S) = k /\ k + 1 \notin S
  BY FS_Interval
<1>2. S \cup {k + 1} = 1 .. k + 1
  OBVIOUS
<1>3. IsFiniteSet(1 .. k + 1) /\ Cardinality(1 .. k + 1) = k + 1
  BY FS_Interval
<1> HIDE DEF S
<1>4. IsFiniteSet(SUBSET S) /\ Cardinality(SUBSET S) = 2 ^ k
  BY <1>1, FS_SUBSET
<1>5. Cardinality(SUBSET (S \cup {k + 1})) = 2 ^ (k + 1)
  BY <1>2, <1>3, FS_SUBSET
<1>6. Cardinality(SUBSET (S \cup {k + 1})) = 2 * Cardinality(SUBSET S)
  BY <1>1, SubsetsDouble
<1>7. Cardinality(SUBSET S) \in Nat /\ Cardinality(SUBSET S) # 0
  <2>1. SUBSET S # {}
    OBVIOUS
  <2> QED
    BY <1>4, <2>1, FS_CardinalityType, FS_EmptySet
<1> QED
  BY <1>4, <1>5, <1>6, <1>7

-----------------------------------------------------------------------------
(* What FoldLeft computes for Move, and FlattenSeq.                        *)

Fold(q, base, ideal) == FoldLeft(LAMBDA bs, key : Move(bs, key, ideal), base, q)

\* The equation of the recursive function behind it.
FoldStep(q, base, ideal, f, s) ==
  IF s = {} THEN base ELSE Move(f[s \ {Max(s)}], q[Max(s)], ideal)

IsFold(q, base, ideal, f, n) ==
  f = [s \in SUBSET (1 .. n) |-> FoldStep(q, base, ideal, f, s)]

\* A set of positions has a last one.
LEMMA MaxIs ==
  ASSUME NEW n \in Nat, NEW s \in SUBSET (1 .. n), s # {}
  PROVE  Max(s) \in s /\ \A y \in s : y <= Max(s)
<1> DEFINE T == {n - x : x \in s}
<1>0. \A x \in s : n - x \in Nat
  OBVIOUS
<1>1. T \in SUBSET Nat /\ T # {}
  BY <1>0
<1>2. PICK m \in T : \A k \in T : m <= k
  <2> HIDE DEF T
  <2> QED
    BY <1>1, NatMin
<1>3. PICK x \in s : m = n - x
  OBVIOUS
<1>4. \A y \in s : y <= x
  <2> TAKE y \in s
  <2>1. m <= n - y
    BY <1>2
  <2> QED
    BY <1>3, <2>1
<1>5. \E z \in s : \A y \in s : z >= y
  BY <1>4
<1>6. Max(s) \in s /\ \A y \in s : Max(s) >= y
  BY <1>5 DEF Max
<1> QED
  BY <1>6

\* A function that satisfies the equation exists.
LEMMA FoldExists ==
  ASSUME NEW q, NEW base, NEW ideal, NEW n \in Nat
  PROVE  \E f : IsFold(q, base, ideal, f, n)
<1> DEFINE S == {k \in Nat : \E f : IsFold(q, base, ideal, f, k)}
<1>1. 0 \in S
  <2> DEFINE f == [s \in SUBSET (1 .. 0) |-> base]
  <2>1. f = [s \in SUBSET (1 .. 0) |-> FoldStep(q, base, ideal, f, s)]
    BY DEF FoldStep
  <2>2. IsFold(q, base, ideal, f, 0)
    BY <2>1 DEF IsFold
  <2> HIDE DEF f
  <2> QED
    BY <2>2
<1>2. ASSUME NEW k \in Nat, k \in S PROVE k + 1 \in S
  <2>1. PICK f : IsFold(q, base, ideal, f, k)
    BY <1>2
  <2> DEFINE g == [s \in SUBSET (1 .. k + 1) |->
                     IF k + 1 \in s THEN Move(f[s \ {k + 1}], q[k + 1], ideal) ELSE f[s]]
  <2>2. \A s \in SUBSET (1 .. k) : s \in SUBSET (1 .. k + 1) /\ k + 1 \notin s /\ g[s] = f[s]
    OBVIOUS
  <2>3. ASSUME NEW s \in SUBSET (1 .. k + 1) PROVE g[s] = FoldStep(q, base, ideal, g, s)
    <3>1. CASE k + 1 \in s
      <4>1. Max(s) = k + 1
        <5>1. k + 1 \in Nat /\ s # {}
          BY <3>1
        <5>2. Max(s) \in s /\ \A y \in s : y <= Max(s)
          BY <5>1, MaxIs
        <5>3. Max(s) \in 1 .. k + 1 /\ k + 1 <= Max(s)
          BY <3>1, <5>2
        <5> QED
          BY <5>3
      <4>2. s \ {k + 1} \in SUBSET (1 .. k) /\ s # {}
        BY <3>1
      <4>3. g[s] = Move(f[s \ {k + 1}], q[k + 1], ideal) /\ g[s \ {k + 1}] = f[s \ {k + 1}]
        BY <2>2, <3>1, <4>2
      <4> HIDE DEF g
      <4> QED
        BY <4>1, <4>2, <4>3 DEF FoldStep
    <3>2. CASE k + 1 \notin s
      <4>1. s \in SUBSET (1 .. k)
        BY <3>2
      <4>2. g[s] = f[s] /\ f[s] = FoldStep(q, base, ideal, f, s)
        BY <2>1, <2>2, <4>1 DEF IsFold
      <4>3. s # {} => g[s \ {Max(s)}] = f[s \ {Max(s)}]
        BY <2>2, <4>1
      <4> HIDE DEF g
      <4> QED
        BY <4>2, <4>3 DEF FoldStep
    <3> QED
      BY <3>1, <3>2
  <2>4. IsFold(q, base, ideal, g, k + 1)
    <3>1. g = [s \in SUBSET (1 .. k + 1) |-> g[s]]
      OBVIOUS
    <3> HIDE DEF g
    <3> QED
      BY <2>3, <3>1 DEF IsFold
  <2> HIDE DEF g
  <2> QED
    BY <2>4
<1> HIDE DEF S
<1>3. \A k \in Nat : k \in S
  BY <1>1, <1>2, NatInd
<1> QED
  BY <1>3 DEF S

\* The fold is the last of the values that moving one key after the other
\* gives.
LEMMA FoldMoves ==
  ASSUME NEW T, NEW q \in Seq(T), NEW base, NEW ideal
  PROVE  \E g : /\ g[0] = base
                /\ \A k \in 0 .. Len(q) - 1 : g[k + 1] = Move(g[k], q[k + 1], ideal)
                /\ Fold(q, base, ideal) = g[Len(q)]
<1> PICK n \in Nat : n = Len(q) /\ DOMAIN q = 1 .. n
  OBVIOUS
<1> DEFINE iter == CHOOSE f : IsFold(q, base, ideal, f, n)
<1>1. IsFold(q, base, ideal, iter, n)
  BY FoldExists
<1>2. Fold(q, base, ideal) = iter[1 .. n]
  BY DEF Fold, FoldLeft, MapThenFoldSet, IsFold, FoldStep
<1> HIDE DEF iter
<1> DEFINE g == [k \in 0 .. n |-> iter[1 .. k]]
<1>3. g[0] = base
  <2>1. 1 .. 0 = {} /\ {} \in SUBSET (1 .. n)
    OBVIOUS
  <2>2. iter[{}] = base
    BY <1>1, <2>1 DEF IsFold, FoldStep
  <2> QED
    BY <2>1, <2>2
<1>4. ASSUME NEW k \in 0 .. n - 1 PROVE g[k + 1] = Move(g[k], q[k + 1], ideal)
  <2>0. k + 1 \in Nat /\ k + 1 <= n /\ k + 1 \in 1 .. k + 1
    OBVIOUS
  <2>1. 1 .. k + 1 \in SUBSET (1 .. n) /\ 1 .. k + 1 # {} /\ (1 .. k + 1) \ {k + 1} = 1 .. k
    BY <2>0
  <2>2. Max(1 .. k + 1) = k + 1
    <3>1. Max(1 .. k + 1) \in 1 .. k + 1 /\ \A y \in 1 .. k + 1 : y <= Max(1 .. k + 1)
      BY <2>0, <2>1, MaxIs
    <3> QED
      BY <2>0, <3>1
  <2>3. iter[1 .. k + 1] = Move(iter[1 .. k], q[k + 1], ideal)
    BY <1>1, <2>1, <2>2 DEF IsFold, FoldStep
  <2> QED
    BY <2>3
<1>5. g[n] = iter[1 .. n]
  OBVIOUS
<1> HIDE DEF g
<1> QED
  BY <1>2, <1>3, <1>4, <1>5

\* The equation of the recursive function behind FlattenSeq.
IsFlat(q, f, n) == f = [k \in 1 .. n |-> IF k = 1 THEN q[k] ELSE f[k - 1] \o q[k]]

\* So does that of the concatenations.
LEMMA FlatExists ==
  ASSUME NEW q, NEW n \in Nat
  PROVE  \E f : IsFlat(q, f, n)
<1> DEFINE S == {k \in Nat : \E f : IsFlat(q, f, k)}
<1>1. 0 \in S
  <2> DEFINE f == [k \in 1 .. 0 |-> q[k]]
  <2>1. IsFlat(q, f, 0)
    BY DEF IsFlat
  <2> HIDE DEF f
  <2> QED
    BY <2>1
<1>2. ASSUME NEW k \in Nat, k \in S PROVE k + 1 \in S
  <2>1. PICK f : IsFlat(q, f, k)
    BY <1>2
  <2> DEFINE g == [x \in 1 .. k + 1 |->
                     IF x = k + 1 THEN IF x = 1 THEN q[x] ELSE f[k] \o q[x] ELSE f[x]]
  <2>2. \A x \in 1 .. k : x \in 1 .. k + 1 /\ g[x] = f[x]
    OBVIOUS
  <2>3. ASSUME NEW x \in 1 .. k + 1
        PROVE  g[x] = IF x = 1 THEN q[x] ELSE g[x - 1] \o q[x]
    <3>1. CASE x = k + 1
      <4>1. x # 1 => x - 1 = k /\ k \in 1 .. k
        BY <3>1
      <4>2. x # 1 => g[x - 1] = f[k]
        BY <2>2, <4>1
      <4>3. g[x] = IF x = 1 THEN q[x] ELSE f[k] \o q[x]
        BY <3>1
      <4> HIDE DEF g
      <4> QED
        BY <4>2, <4>3
    <3>2. CASE x # k + 1
      <4>1. x \in 1 .. k /\ (x # 1 => x - 1 \in 1 .. k)
        BY <3>2
      <4>2. f[x] = IF x = 1 THEN q[x] ELSE f[x - 1] \o q[x]
        BY <2>1, <4>1 DEF IsFlat
      <4>3. g[x] = f[x] /\ (x # 1 => g[x - 1] = f[x - 1])
        BY <2>2, <4>1
      <4> HIDE DEF g
      <4> QED
        BY <4>2, <4>3
    <3> QED
      BY <3>1, <3>2
  <2>4. g = [x \in 1 .. k + 1 |-> g[x]]
    OBVIOUS
  <2> HIDE DEF g
  <2>5. IsFlat(q, g, k + 1)
    BY <2>3, <2>4 DEF IsFlat
  <2> QED
    BY <2>5
<1> HIDE DEF S
<1>3. \A k \in Nat : k \in S
  BY <1>1, <1>2, NatInd
<1> QED
  BY <1>3 DEF S

\* The concatenations of the first chains, one after the other.
Runs(g, q, n) ==
  g[1] = q[1] /\ \A k \in 1 .. n - 1 : g[k + 1] = g[k] \o q[k + 1]

\* The last of them is what FlattenSeq computes.
LEMMA Flattened ==
  ASSUME NEW T, NEW n \in Nat \ {0}, NEW q \in [1 .. n -> Seq(T)]
  PROVE  \E g : Runs(g, q, n) /\ FlattenSeq(q) = g[n]
<1> DEFINE flat == CHOOSE f : IsFlat(q, f, n)
<1>0. Len(q) = n /\ q # <<>>
  OBVIOUS
<1>1. IsFlat(q, flat, n)
  BY FlatExists
<1>2. FlattenSeq(q) = flat[n]
  BY <1>0 DEF FlattenSeq, IsFlat
<1> HIDE DEF flat
<1>3. flat[1] = q[1]
  BY <1>1 DEF IsFlat
<1>4. ASSUME NEW k \in 1 .. n - 1 PROVE flat[k + 1] = flat[k] \o q[k + 1]
  <2>1. k + 1 \in 1 .. n /\ k + 1 # 1 /\ (k + 1) - 1 = k
    OBVIOUS
  <2> QED
    BY <1>1, <2>1 DEF IsFlat
<1> QED
  BY <1>2, <1>3, <1>4 DEF Runs

\* v is in the sequence q.
Holds(q, v) == \E x \in DOMAIN q : q[x] = v

\* A concatenation holds what its parts hold.
LEMMA HoldsConcat ==
  ASSUME NEW T, NEW q \in Seq(T), NEW r \in Seq(T)
  PROVE  /\ q \o r \in Seq(T) /\ Len(q \o r) = Len(q) + Len(r)
         /\ \A v : Holds(q \o r, v) <=> Holds(q, v) \/ Holds(r, v)
<1>1. q \o r \in Seq(T) /\ Len(q \o r) = Len(q) + Len(r)
  OBVIOUS
<1>2. \A x \in DOMAIN q : x \in DOMAIN (q \o r) /\ (q \o r)[x] = q[x]
  OBVIOUS
<1>3. \A x \in DOMAIN r : Len(q) + x \in DOMAIN (q \o r) /\ (q \o r)[Len(q) + x] = r[x]
  OBVIOUS
<1>4. \A x \in DOMAIN (q \o r) :
        \/ x \in DOMAIN q
        \/ x - Len(q) \in DOMAIN r /\ (q \o r)[x] = r[x - Len(q)]
  OBVIOUS
<1> QED
  BY <1>1, <1>2, <1>3, <1>4 DEF Holds

\* The first k chains hold what their concatenation holds.
SoFar(T, g, q, k) ==
  /\ g[k] \in Seq(T)
  /\ \A v : Holds(g[k], v) <=> \E i \in 1 .. k : Holds(q[i], v)

\* The concatenation of the chains holds what they hold.
LEMMA FlatHolds ==
  ASSUME NEW T, NEW n \in Nat \ {0}, NEW q \in [1 .. n -> Seq(T)]
  PROVE  /\ FlattenSeq(q) \in Seq(T)
         /\ \A v : Holds(FlattenSeq(q), v) <=> \E k \in 1 .. n : Holds(q[k], v)
<1>1. PICK g : Runs(g, q, n) /\ FlattenSeq(q) = g[n]
  BY Flattened
<1> DEFINE S == {k \in Nat : k = 0 \/ SoFar(T, g, q, k)}
<1>2. 0 \in S
  OBVIOUS
<1>3. ASSUME NEW k \in 0 .. n - 1, k \in S PROVE k + 1 \in S
  <2>0. k \in Nat /\ k + 1 \in Nat /\ k + 1 \in 1 .. n /\ q[k + 1] \in Seq(T)
    OBVIOUS
  <2>1. CASE k = 0
    <3>1. g[1] = q[1] /\ q[1] \in Seq(T) /\ \A i \in 1 .. 1 : i = 1
      BY <1>1, <2>0, <2>1 DEF Runs
    <3>2. SoFar(T, g, q, 1)
      BY <3>1 DEF SoFar
    <3> QED
      BY <2>1, <3>2
  <2>2. CASE k # 0
    <3>1. SoFar(T, g, q, k) /\ g[k + 1] = g[k] \o q[k + 1]
      <4>1. k \in 1 .. n - 1
        BY <2>2
      <4>2. SoFar(T, g, q, k)
        BY <1>3, <2>2
      <4>3. g[k + 1] = g[k] \o q[k + 1]
        BY <1>1, <4>1 DEF Runs
      <4> QED
        BY <4>2, <4>3
    <3>2. \A i : i \in 1 .. k + 1 <=> i \in 1 .. k \/ i = k + 1
      BY <2>0
    <3>3. g[k] \in Seq(T)
      BY <3>1 DEF SoFar
    <3>4. /\ g[k + 1] \in Seq(T)
          /\ \A v : Holds(g[k + 1], v) <=> Holds(g[k], v) \/ Holds(q[k + 1], v)
      BY <2>0, <3>1, <3>3, HoldsConcat
    <3>5. SoFar(T, g, q, k + 1)
      BY <3>1, <3>2, <3>4 DEF SoFar
    <3> QED
      BY <2>0, <3>5
  <2> QED
    BY <2>1, <2>2
<1> HIDE DEF S
<1>4. n \in S
  <2>1. \A k \in 0 .. n : k \in S
    BY <1>2, <1>3, BoundedInd
  <2> QED
    BY <2>1
<1>5. SoFar(T, g, q, n)
  BY <1>4 DEF S
<1> QED
  BY <1>1, <1>5 DEF SoFar

\* The lengths of the concatenations, the chain at j one longer.
Longer(T, g, h, j, k) ==
  /\ g[k] \in Seq(T) /\ h[k] \in Seq(T)
  /\ Len(h[k]) = Len(g[k]) + (IF j <= k THEN 1 ELSE 0)

OneLonger(T, n, q, r, j) ==
  /\ q \in [1 .. n -> Seq(T)] /\ r \in [1 .. n -> Seq(T)]
  /\ j \in 1 .. n
  /\ Len(r[j]) = Len(q[j]) + 1
  /\ \A k \in (1 .. n) \ {j} : Len(r[k]) = Len(q[k])

\* With one chain longer by one, so is the concatenation.
LEMMA FlatLonger ==
  ASSUME NEW T, NEW n \in Nat \ {0}, NEW q, NEW r, NEW j, OneLonger(T, n, q, r, j)
  PROVE  Len(FlattenSeq(r)) = Len(FlattenSeq(q)) + 1
<1> USE DEF OneLonger
<1>1. PICK g : Runs(g, q, n) /\ FlattenSeq(q) = g[n]
  BY Flattened
<1>2. PICK h : Runs(h, r, n) /\ FlattenSeq(r) = h[n]
  BY Flattened
<1> DEFINE S == {k \in Nat : k = 0 \/ Longer(T, g, h, j, k)}
<1>3. 0 \in S
  OBVIOUS
<1>4. ASSUME NEW k \in 0 .. n - 1, k \in S PROVE k + 1 \in S
  <2>0. k \in Nat /\ k + 1 \in Nat /\ k + 1 \in 1 .. n
    OBVIOUS
  <2>1. q[k + 1] \in Seq(T) /\ r[k + 1] \in Seq(T)
    BY <2>0
  <2>2. Len(r[k + 1]) = Len(q[k + 1]) + (IF j = k + 1 THEN 1 ELSE 0)
    <3>1. Len(q[k + 1]) \in Nat
      BY <2>1
    <3>2. CASE j = k + 1
      BY <3>1, <3>2
    <3>3. CASE j # k + 1
      <4>1. k + 1 \in (1 .. n) \ {j}
        BY <2>0, <3>3
      <4> QED
        BY <3>1, <3>3, <4>1
    <3> QED
      BY <3>2, <3>3
  <2>3. CASE k = 0
    <3>1. g[1] = q[1] /\ h[1] = r[1] /\ (j <= 1 <=> j = 1)
      BY <1>1, <1>2 DEF Runs
    <3>2. Longer(T, g, h, j, 1)
      BY <2>1, <2>2, <2>3, <3>1 DEF Longer
    <3> QED
      BY <2>3, <3>2
  <2>4. CASE k # 0
    <3>1. Longer(T, g, h, j, k)
      BY <1>4, <2>4
    <3>2. g[k + 1] = g[k] \o q[k + 1] /\ h[k + 1] = h[k] \o r[k + 1]
      <4>1. k \in 1 .. n - 1
        BY <2>4
      <4> QED
        BY <1>1, <1>2, <4>1 DEF Runs
    <3>3. g[k + 1] \in Seq(T) /\ Len(g[k + 1]) = Len(g[k]) + Len(q[k + 1])
      BY <2>1, <3>1, <3>2, HoldsConcat DEF Longer
    <3>4. h[k + 1] \in Seq(T) /\ Len(h[k + 1]) = Len(h[k]) + Len(r[k + 1])
      <4>1. h[k] \in Seq(T) /\ r[k + 1] \in Seq(T) /\ h[k + 1] = h[k] \o r[k + 1]
        BY <2>1, <3>1, <3>2 DEF Longer
      <4> QED
        BY <4>1, HoldsConcat
    <3>5. Len(g[k]) \in Nat /\ Len(q[k + 1]) \in Nat /\ j \in Nat
      BY <2>1, <3>1 DEF Longer
    <3>6. Len(h[k]) = Len(g[k]) + (IF j <= k THEN 1 ELSE 0)
      BY <3>1 DEF Longer
    <3>7. Len(h[k + 1]) = Len(g[k + 1]) + (IF j <= k + 1 THEN 1 ELSE 0)
      <4>1. PICK a \in Nat, b \in Nat : a = Len(g[k]) /\ b = Len(q[k + 1])
        BY <3>5
      <4>2. Len(h[k + 1]) = a + (IF j <= k THEN 1 ELSE 0) + (b + (IF j = k + 1 THEN 1 ELSE 0))
        BY <2>2, <3>4, <3>6, <4>1
      <4>3. (IF j <= k THEN 1 ELSE 0) + (IF j = k + 1 THEN 1 ELSE 0)
              = (IF j <= k + 1 THEN 1 ELSE 0)
        BY <2>0, <3>5
      <4>4. Len(g[k + 1]) = a + b
        BY <3>3, <4>1
      <4> HIDE <4>1
      <4> QED
        BY <2>0, <3>5, <4>2, <4>3, <4>4
    <3> QED
      BY <2>0, <3>3, <3>4, <3>7 DEF Longer
  <2> QED
    BY <2>3, <2>4
<1> HIDE DEF S
<1>5. n \in S
  <2>1. \A k \in 0 .. n : k \in S
    BY <1>3, <1>4, BoundedInd
  <2> QED
    BY <2>1
<1>6. Longer(T, g, h, j, n) /\ j <= n
  BY <1>5 DEF S
<1> QED
  BY <1>1, <1>2, <1>6 DEF Longer

\* Empty chains hold nothing.
LEMMA FlatEmpty ==
  ASSUME NEW T, NEW n \in Nat \ {0}, NEW q \in [1 .. n -> Seq(T)],
         \A k \in 1 .. n : Len(q[k]) = 0
  PROVE  Len(FlattenSeq(q)) = 0
<1>1. \A k \in 1 .. n : DOMAIN q[k] = {}
  OBVIOUS
<1>2. /\ FlattenSeq(q) \in Seq(T)
      /\ \A v : Holds(FlattenSeq(q), v) <=> \E k \in 1 .. n : Holds(q[k], v)
  BY FlatHolds
<1>3. \A v : ~Holds(FlattenSeq(q), v)
  <2>1. \A v, k : k \in 1 .. n => ~Holds(q[k], v)
    BY <1>1 DEF Holds
  <2> QED
    BY <1>2, <2>1
<1>4. Len(FlattenSeq(q)) # 0 => Holds(FlattenSeq(q), FlattenSeq(q)[1])
  <2>1. Len(FlattenSeq(q)) # 0 => 1 \in DOMAIN FlattenSeq(q)
    BY <1>2
  <2> QED
    BY <2>1 DEF Holds
<1> QED
  BY <1>3, <1>4

-----------------------------------------------------------------------------
(* The buckets.                                                            *)

Bucket == [chain : Seq(Keys), count : Nat, expand_mult : Nat]

\* The n buckets hold the keys of S, each in the bucket of its hash value.
Hashed(bs, n, S) ==
  /\ bs \in [0 .. n - 1 -> Bucket]
  /\ \A b \in 0 .. n - 1 : bs[b].count = Len(bs[b].chain)
  /\ \A b \in 0 .. n - 1, key \in Keys :
       Holds(bs[b].chain, key) <=> key \in S /\ HASH_TO_BKT(key, n) = b

\* The chains in the order of their buckets, and the number of keys in them.
Chains(bs, n) == [b \in 1 .. n |-> bs[b - 1].chain]
Total(bs, n) == Len(FlattenSeq(Chains(bs, n)))

\* Every key has a bucket.
LEMMA BucketOf ==
  ASSUME NEW n \in Nat \ {0}, NEW key \in Keys
  PROVE  HASH_TO_BKT(key, n) \in 0 .. n - 1
<1>1. hashv[key] \in Nat
  BY UtHashAssumption
<1>2. \A h \in Nat : h % n \in 0 .. n - 1
  OBVIOUS
<1> QED
  BY <1>1, <1>2 DEF HASH_TO_BKT

\* The chains, as the sequence that Items flattens.
LEMMA ChainsType ==
  ASSUME NEW n \in Nat \ {0}, NEW bs \in [0 .. n - 1 -> Bucket]
  PROVE  /\ Chains(bs, n) \in [1 .. n -> Seq(Keys)]
         /\ \A b \in 0 .. n - 1 : b + 1 \in 1 .. n /\ Chains(bs, n)[b + 1] = bs[b].chain
<1>1. \A b \in 0 .. n - 1 : bs[b].chain \in Seq(Keys)
  BY DEF Bucket
<1>2. \A b \in 1 .. n : b - 1 \in 0 .. n - 1
  OBVIOUS
<1>3. \A b \in 0 .. n - 1 : b + 1 \in 1 .. n /\ (b + 1) - 1 = b
  OBVIOUS
<1> QED
  BY <1>1, <1>2, <1>3 DEF Chains

\* A key put before the chain of its bucket.
Put(bs, n, key, bucket, cs) ==
  /\ bucket \in Bucket
  /\ bucket.chain = <<key>> \o bs[HASH_TO_BKT(key, n)].chain
  /\ bucket.count = bs[HASH_TO_BKT(key, n)].count + 1
  /\ cs = [bs EXCEPT ![HASH_TO_BKT(key, n)] = bucket]

\* The buckets then hold the key as well.
LEMMA Prepended ==
  ASSUME NEW n \in Nat \ {0}, NEW S, NEW bs, Hashed(bs, n, S), NEW key \in Keys,
         NEW bucket, NEW cs, Put(bs, n, key, bucket, cs)
  PROVE  Hashed(cs, n, S \cup {key}) /\ Total(cs, n) = Total(bs, n) + 1
<1> USE DEF Put
<1> PICK h : h = HASH_TO_BKT(key, n)
  OBVIOUS
<1>1. h \in 0 .. n - 1 /\ bs \in [0 .. n - 1 -> Bucket]
  BY BucketOf DEF Hashed
<1>2. cs \in [0 .. n - 1 -> Bucket] /\ cs[h] = bucket
      /\ \A b \in (0 .. n - 1) \ {h} : cs[b] = bs[b]
  BY <1>1
<1>3. bs[h].chain \in Seq(Keys) /\ <<key>> \in Seq(Keys) /\ Len(<<key>>) = 1
  BY <1>1 DEF Bucket
<1>4. /\ bucket.chain \in Seq(Keys) /\ Len(bucket.chain) = 1 + Len(bs[h].chain)
      /\ \A v : Holds(bucket.chain, v) <=> Holds(<<key>>, v) \/ Holds(bs[h].chain, v)
  <2>1. PICK q : q = <<key>>
    OBVIOUS
  <2>2. PICK r : r = bs[h].chain
    OBVIOUS
  <2>3. q \in Seq(Keys) /\ r \in Seq(Keys) /\ bucket.chain = q \o r
    BY <1>3, <2>1, <2>2
  <2>4. /\ q \o r \in Seq(Keys) /\ Len(q \o r) = Len(q) + Len(r)
        /\ \A v : Holds(q \o r, v) <=> Holds(q, v) \/ Holds(r, v)
    BY <2>3, HoldsConcat
  <2> QED
    BY <1>3, <2>1, <2>2, <2>3, <2>4
<1>5. \A v : Holds(<<key>>, v) <=> v = key
  BY DEF Holds
<1>6. Len(bs[h].chain) \in Nat
  BY <1>3
<1>7. Hashed(cs, n, S \cup {key})
  <2>1. ASSUME NEW b \in 0 .. n - 1 PROVE cs[b].count = Len(cs[b].chain)
    <3>1. CASE b = h
      <4>1. bs[h].count = Len(bs[h].chain)
        BY <1>1 DEF Hashed
      <4>2. bucket.count = bs[h].count + 1 /\ cs[b] = bucket
        BY <1>2, <3>1
      <4>3. bucket.count = Len(bs[h].chain) + 1
        BY <4>1, <4>2
      <4>4. Len(bucket.chain) = Len(bs[h].chain) + 1
        BY <1>4, <1>6
      <4> QED
        BY <4>2, <4>3, <4>4
    <3>2. CASE b # h
      BY <1>2, <3>2 DEF Hashed
    <3> QED
      BY <3>1, <3>2
  <2>2. ASSUME NEW b \in 0 .. n - 1, NEW k \in Keys
        PROVE  Holds(cs[b].chain, k) <=> k \in S \cup {key} /\ HASH_TO_BKT(k, n) = b
    <3>0. Holds(bs[b].chain, k) <=> k \in S /\ HASH_TO_BKT(k, n) = b
      BY DEF Hashed
    <3>1. CASE b = h
      BY <1>2, <1>4, <1>5, <3>0, <3>1
    <3>2. CASE b # h
      BY <1>2, <3>0, <3>2
    <3> QED
      BY <3>1, <3>2
  <2> QED
    BY <1>2, <2>1, <2>2 DEF Hashed
<1>8. Total(cs, n) = Total(bs, n) + 1
  <2>1. PICK q : q = Chains(bs, n)
    OBVIOUS
  <2>2. PICK r : r = Chains(cs, n)
    OBVIOUS
  <2>3. /\ q \in [1 .. n -> Seq(Keys)]
        /\ \A b \in 0 .. n - 1 : b + 1 \in 1 .. n /\ q[b + 1] = bs[b].chain
    BY <1>1, <2>1, ChainsType
  <2>4. /\ r \in [1 .. n -> Seq(Keys)]
        /\ \A b \in 0 .. n - 1 : b + 1 \in 1 .. n /\ r[b + 1] = cs[b].chain
    BY <1>2, <2>2, ChainsType
  <2>5. PICK j \in 1 .. n : j = h + 1
    BY <1>1
  <2>6. Len(r[j]) = Len(q[j]) + 1
    BY <1>1, <1>2, <1>4, <1>6, <2>3, <2>4, <2>5
  <2>7. ASSUME NEW k \in (1 .. n) \ {j} PROVE Len(r[k]) = Len(q[k])
    <3>1. k - 1 \in (0 .. n - 1) \ {h} /\ (k - 1) + 1 = k
      BY <1>1, <2>5
    <3> QED
      BY <1>2, <2>3, <2>4, <3>1
  <2>8. Len(FlattenSeq(r)) = Len(FlattenSeq(q)) + 1
    <3>1. q \in [1 .. n -> Seq(Keys)] /\ r \in [1 .. n -> Seq(Keys)]
      BY <2>3, <2>4
    <3>2. OneLonger(Keys, n, q, r, j)
      BY <2>6, <2>7, <3>1 DEF OneLonger
    <3> QED
      BY <3>2, FlatLonger
  <2> QED
    BY <2>1, <2>2, <2>8 DEF Total
<1> QED
  BY <1>7, <1>8

\* New buckets hold nothing.
LEMMA EmptyBuckets ==
  ASSUME NEW n \in Nat \ {0}
  PROVE  Hashed(Buckets(n), n, {}) /\ Total(Buckets(n), n) = 0
<1>1. NoBucket \in Bucket /\ NoBucket.count = 0 /\ NoBucket.chain = <<>>
  BY DEF NoBucket, Bucket
<1>2. Buckets(n) \in [0 .. n - 1 -> Bucket] /\ \A b \in 0 .. n - 1 : Buckets(n)[b] = NoBucket
  BY <1>1 DEF Buckets
<1>3. Hashed(Buckets(n), n, {})
  BY <1>1, <1>2 DEF Hashed, Holds
<1>4. PICK q : q = Chains(Buckets(n), n)
  OBVIOUS
<1>5. /\ q \in [1 .. n -> Seq(Keys)]
      /\ \A b \in 0 .. n - 1 : b + 1 \in 1 .. n /\ q[b + 1] = Buckets(n)[b].chain
  BY <1>2, <1>4, ChainsType
<1>6. ASSUME NEW k \in 1 .. n PROVE Len(q[k]) = 0
  <2>1. k - 1 \in 0 .. n - 1 /\ (k - 1) + 1 = k
    OBVIOUS
  <2> QED
    <3>1. q[k] = Buckets(n)[k - 1].chain
      BY <1>5, <2>1
    <3>2. q[k] = <<>>
      BY <1>1, <1>2, <2>1, <3>1
    <3> QED
      BY <3>2
<1>7. Len(FlattenSeq(q)) = 0
  BY <1>5, <1>6, FlatEmpty
<1> QED
  BY <1>3, <1>4, <1>7 DEF Total

-----------------------------------------------------------------------------
(* Expansion.                                                              *)

\* To move a key into the new buckets is to put it first in its chain.
LEMMA MoveKeeps ==
  ASSUME NEW n \in Nat \ {0}, NEW S, NEW bs, Hashed(bs, n, S), NEW key \in Keys, NEW ideal
  PROVE  /\ Hashed(Move(bs, key, ideal), n, S \cup {key})
         /\ Total(Move(bs, key, ideal), n) = Total(bs, n) + 1
<1> PICK h : h = HASH_TO_BKT(key, n)
  OBVIOUS
<1>1. h \in 0 .. n - 1 /\ bs \in [0 .. n - 1 -> Bucket] /\ bs[h] \in Bucket
  BY BucketOf DEF Hashed
<1>2. Cardinality(DOMAIN bs) = n
  <2>1. DOMAIN bs = 0 .. n - 1 /\ 0 \in Int /\ n - 1 \in Int /\ (n - 1) - 0 + 1 = n /\ 0 <= n - 1
    BY <1>1
  <2> QED
    BY <2>1, FS_Interval
<1> PICK bucket : bucket = Moved(bs[h], key, ideal)
  OBVIOUS
<1>3. /\ bucket \in Bucket
      /\ bucket.chain = <<key>> \o bs[h].chain
      /\ bucket.count = bs[h].count + 1
  <2>1. bs[h].chain \in Seq(Keys) /\ bs[h].count \in Nat /\ bs[h].expand_mult \in Nat
    BY <1>1 DEF Bucket
  <2>2. <<key>> \o bs[h].chain \in Seq(Keys)
    BY <2>1
  <2>3. bucket.expand_mult = bs[h].expand_mult \/ bucket.expand_mult = bs[h].expand_mult + 1
    BY <2>1 DEF Moved
  <2>4. bucket.chain = <<key>> \o bs[h].chain /\ bucket.count = bs[h].count + 1
    BY DEF Moved
  <2>5. bucket = [chain |-> bucket.chain, count |-> bucket.count,
                  expand_mult |-> bucket.expand_mult]
    BY DEF Moved
  <2>6. bucket.chain \in Seq(Keys) /\ bucket.count \in Nat /\ bucket.expand_mult \in Nat
    BY <2>1, <2>2, <2>3, <2>4
  <2>7. bucket \in Bucket
    BY <2>5, <2>6 DEF Bucket
  <2> QED
    BY <2>4, <2>7
<1>4. Move(bs, key, ideal) = [bs EXCEPT ![h] = bucket]
  BY <1>1, <1>2 DEF Move
<1> PICK cs : cs = Move(bs, key, ideal)
  OBVIOUS
<1>5. cs = [bs EXCEPT ![HASH_TO_BKT(key, n)] = bucket]
  BY <1>4
<1>6. Put(bs, n, key, bucket, cs)
  BY <1>3, <1>5 DEF Put
<1>7. Hashed(cs, n, S \cup {key}) /\ Total(cs, n) = Total(bs, n) + 1
  BY <1>6, Prepended
<1> QED
  BY <1>7

\* The first k elements of a sequence.
First(q, k) == {q[i] : i \in 1 .. k}

\* When all keys were moved, the new buckets hold them.
LEMMA FoldKeeps ==
  ASSUME NEW n \in Nat \ {0}, NEW q \in Seq(Keys), NEW ideal
  PROVE  /\ Hashed(Fold(q, Buckets(n), ideal), n, First(q, Len(q)))
         /\ Total(Fold(q, Buckets(n), ideal), n) = Len(q)
<1> PICK m \in Nat : m = Len(q) /\ DOMAIN q = 1 .. m
  OBVIOUS
<1>1. PICK g : /\ g[0] = Buckets(n)
               /\ \A k \in 0 .. Len(q) - 1 : g[k + 1] = Move(g[k], q[k + 1], ideal)
               /\ Fold(q, Buckets(n), ideal) = g[Len(q)]
  BY FoldMoves
<1> DEFINE S == {k \in Nat : Hashed(g[k], n, First(q, k)) /\ Total(g[k], n) = k}
<1>2. 0 \in S
  <2>1. First(q, 0) = {}
    BY DEF First
  <2> QED
    BY <1>1, <2>1, EmptyBuckets
<1>3. ASSUME NEW k \in 0 .. m - 1, k \in S PROVE k + 1 \in S
  <2>1. Hashed(g[k], n, First(q, k)) /\ Total(g[k], n) = k
    BY <1>3
  <2>2. g[k + 1] = Move(g[k], q[k + 1], ideal)
    BY <1>1
  <2>3. k + 1 \in 1 .. m /\ k + 1 \in Nat
    OBVIOUS
  <2>4. q[k + 1] \in Keys
    BY <2>3
  <2>5. /\ Hashed(g[k + 1], n, First(q, k) \cup {q[k + 1]})
        /\ Total(g[k + 1], n) = k + 1
    <3> PICK bs : bs = g[k]
      OBVIOUS
    <3> PICK key : key = q[k + 1]
      OBVIOUS
    <3>1. Hashed(bs, n, First(q, k)) /\ key \in Keys
      BY <2>1, <2>4
    <3>2. /\ Hashed(Move(bs, key, ideal), n, First(q, k) \cup {key})
          /\ Total(Move(bs, key, ideal), n) = Total(bs, n) + 1
      BY <3>1, MoveKeeps
    <3> QED
      BY <2>1, <2>2, <3>2
  <2>6. First(q, k + 1) = First(q, k) \cup {q[k + 1]}
    <3>1. 1 .. k + 1 = (1 .. k) \cup {k + 1}
      OBVIOUS
    <3> QED
      BY <3>1 DEF First
  <2> QED
    BY <2>3, <2>5, <2>6
<1> HIDE DEF S
<1>4. m \in S
  <2>1. \A k \in 0 .. m : k \in S
    BY <1>2, <1>3, BoundedInd
  <2> QED
    BY <2>1
<1> QED
  BY <1>1, <1>4 DEF S

-----------------------------------------------------------------------------
(* The table.                                                              *)

Table(k) ==
  [buckets : [0 .. 2 ^ k - 1 -> Bucket], log2_num_buckets : Nat, num_items : Nat,
   ineff_expands : Nat, noexpand : BOOLEAN]

\* The table holds the keys of S, each once.
Holding(table, S) ==
  /\ table \in Table(table.log2_num_buckets)
  /\ Hashed(table.buckets, num_buckets(table), S)
  /\ Total(table.buckets, num_buckets(table)) = table.num_items

\* A table has buckets, and twice as many after an expansion.
LEMMA NumBuckets ==
  ASSUME NEW table, table \in Table(table.log2_num_buckets)
  PROVE  /\ num_buckets(table) \in Nat \ {0}
         /\ 2 ^ (table.log2_num_buckets + 1) = 2 * num_buckets(table)
<1>1. table.log2_num_buckets \in Nat
  BY DEF Table
<1> QED
  BY <1>1, Powers DEF num_buckets

\* A table just made holds nothing.
LEMMA MakeHolds == Holding(HASH_MAKE_TABLE, {}) /\ HASH_MAKE_TABLE.num_items = 0
<1> PICK n : n = 2 ^ InitialLog2
  OBVIOUS
<1>1. n \in Nat \ {0}
  BY UtHashAssumption, Powers
<1>2. Hashed(Buckets(n), n, {}) /\ Total(Buckets(n), n) = 0
  BY <1>1, EmptyBuckets
<1>3. Buckets(n) \in [0 .. n - 1 -> Bucket]
  BY <1>2 DEF Hashed
<1> QED
  BY <1>2, <1>3, UtHashAssumption DEF HASH_MAKE_TABLE, Holding, Table, num_buckets

\* The items of a table are the keys it holds.
LEMMA ItemsHeld ==
  ASSUME NEW table, NEW S \in SUBSET Keys, Holding(table, S)
  PROVE  /\ Items(table) \in Seq(Keys)
         /\ Len(Items(table)) = table.num_items
         /\ First(Items(table), table.num_items) = S
<1> PICK n : n = num_buckets(table)
  OBVIOUS
<1>1. n \in Nat \ {0}
  BY NumBuckets DEF Holding
<1> PICK bs : bs = table.buckets
  OBVIOUS
<1>2. Hashed(bs, n, S) /\ Total(bs, n) = table.num_items
  BY DEF Holding
<1>3. bs \in [0 .. n - 1 -> Bucket]
  BY <1>2 DEF Hashed
<1> PICK q : q = Chains(bs, n)
  OBVIOUS
<1>4. /\ q \in [1 .. n -> Seq(Keys)]
      /\ \A b \in 0 .. n - 1 : b + 1 \in 1 .. n /\ q[b + 1] = bs[b].chain
  BY <1>1, <1>3, ChainsType
<1> PICK items : items = FlattenSeq(q)
  OBVIOUS
<1>5. Items(table) = items
  BY DEF Items, Chains
<1>6. items \in Seq(Keys) /\ \A v : Holds(items, v) <=> \E k \in 1 .. n : Holds(q[k], v)
  BY <1>1, <1>4, FlatHolds
<1>7. Len(items) = table.num_items
  BY <1>2 DEF Total
<1>8. ASSUME NEW key \in Keys PROVE Holds(items, key) <=> key \in S
  <2>1. HASH_TO_BKT(key, n) \in 0 .. n - 1
    BY <1>1, BucketOf
  <2>2. \A k \in 1 .. n : k - 1 \in 0 .. n - 1 /\ q[k] = bs[k - 1].chain
    <3> TAKE k \in 1 .. n
    <3>1. k - 1 \in 0 .. n - 1 /\ (k - 1) + 1 = k
      BY <1>1
    <3> QED
      BY <1>4, <3>1
  <2>3. \A b \in 0 .. n - 1 : Holds(bs[b].chain, key) <=> key \in S /\ HASH_TO_BKT(key, n) = b
    BY <1>2 DEF Hashed
  <2>4. key \in S => Holds(q[HASH_TO_BKT(key, n) + 1], key) /\ HASH_TO_BKT(key, n) + 1 \in 1 .. n
    BY <1>4, <2>1, <2>3
  <2> QED
    BY <1>6, <2>2, <2>3, <2>4
<1>9. First(items, table.num_items) = S
  <2>1. DOMAIN items = 1 .. table.num_items
    BY <1>6, <1>7
  <2>2. \A v : v \in First(items, table.num_items) <=> Holds(items, v)
    BY <2>1 DEF First, Holds
  <2>3. \A v : Holds(items, v) => v \in Keys
    BY <1>6 DEF Holds
  <2> QED
    BY <1>8, <2>2, <2>3
<1> QED
  BY <1>5, <1>6, <1>7, <1>9

\* Expansion keeps what the table holds.
LEMMA ExpandHolds ==
  ASSUME NEW table, NEW S \in SUBSET Keys, Holding(table, S)
  PROVE  /\ Holding(HASH_EXPAND_BUCKETS(table), S)
         /\ HASH_EXPAND_BUCKETS(table).num_items = table.num_items
<1> PICK ideal : ideal = ideal_chain_maxlen(table)
  OBVIOUS
<1> PICK n : n = 2 * num_buckets(table)
  OBVIOUS
<1>1. n \in Nat \ {0} /\ 2 ^ (table.log2_num_buckets + 1) = n
  <2>1. /\ num_buckets(table) \in Nat \ {0}
        /\ 2 ^ (table.log2_num_buckets + 1) = 2 * num_buckets(table)
    BY NumBuckets DEF Holding
  <2> QED
    BY <2>1
<1>2. /\ Items(table) \in Seq(Keys)
      /\ Len(Items(table)) = table.num_items
      /\ First(Items(table), table.num_items) = S
  BY ItemsHeld
<1> PICK bs : bs = Fold(Items(table), Buckets(n), ideal)
  OBVIOUS
<1>3. Hashed(bs, n, S) /\ Total(bs, n) = table.num_items
  BY <1>1, <1>2, FoldKeeps
<1>4. bs \in [0 .. n - 1 -> Bucket]
  BY <1>3 DEF Hashed
<1> PICK ineff : ineff = IF nonideal_items(bs, ideal) > table.num_items \div 2
                         THEN table.ineff_expands + 1 ELSE 0
  OBVIOUS
<1> PICK more : more = HASH_EXPAND_BUCKETS(table)
  OBVIOUS
<1>5. more = [table EXCEPT !.buckets = bs, !.log2_num_buckets = @ + 1,
                         !.ineff_expands = ineff, !.noexpand = @ \/ ineff > 1]
  BY DEF HASH_EXPAND_BUCKETS, Fold, FoldLeft, MapThenFoldSet
<1>6. table \in Table(table.log2_num_buckets)
  BY DEF Holding
<1>7. table.log2_num_buckets \in Nat /\ table.num_items \in Nat /\ ineff \in Nat
      /\ table.noexpand \in BOOLEAN
  BY <1>6 DEF Table
<1>8. /\ more.buckets = bs /\ more.log2_num_buckets = table.log2_num_buckets + 1
      /\ more.num_items = table.num_items /\ more.ineff_expands = ineff
      /\ more.noexpand = (table.noexpand \/ ineff > 1)
      /\ more = [buckets |-> more.buckets, log2_num_buckets |-> more.log2_num_buckets,
                 num_items |-> more.num_items, ineff_expands |-> more.ineff_expands,
                 noexpand |-> more.noexpand]
  BY <1>5, <1>6 DEF Table
<1>9. num_buckets(more) = n
  BY <1>1, <1>8 DEF num_buckets
<1>10. more \in Table(more.log2_num_buckets)
  <2>1. more.buckets \in [0 .. 2 ^ more.log2_num_buckets - 1 -> Bucket]
    BY <1>1, <1>4, <1>8
  <2>2. more.noexpand \in BOOLEAN
    BY <1>7, <1>8
  <2>3. /\ more.log2_num_buckets \in Nat /\ more.num_items \in Nat
        /\ more.ineff_expands \in Nat
    BY <1>7, <1>8
  <2> QED
    BY <1>8, <2>1, <2>2, <2>3 DEF Table
<1> QED
  BY <1>3, <1>8, <1>9, <1>10 DEF Holding

\* HASH_ADD of a key that the table does not hold, or holds.
LEMMA AddHolds ==
  ASSUME NEW table, NEW S \in SUBSET Keys, Holding(table, S), NEW key \in Keys
  PROVE  /\ Holding(HASH_ADD_TO_TABLE(table, key), S \cup {key})
         /\ HASH_ADD_TO_TABLE(table, key).num_items = table.num_items + 1
<1> PICK n : n = num_buckets(table)
  OBVIOUS
<1> PICK bs : bs = table.buckets
  OBVIOUS
<1> PICK h : h = HASH_TO_BKT(key, n)
  OBVIOUS
<1>1. n \in Nat \ {0} /\ table \in Table(table.log2_num_buckets) /\ n = 2 ^ table.log2_num_buckets
  BY NumBuckets DEF Holding, num_buckets
<1>2. Hashed(bs, n, S) /\ Total(bs, n) = table.num_items
  BY DEF Holding
<1>3. h \in 0 .. n - 1 /\ bs \in [0 .. n - 1 -> Bucket] /\ bs[h] \in Bucket
  BY <1>1, <1>2, BucketOf DEF Hashed
<1> PICK bucket : bucket = [bs[h] EXCEPT !.chain = <<key>> \o @, !.count = @ + 1]
  OBVIOUS
<1>4. /\ bucket \in Bucket
      /\ bucket.chain = <<key>> \o bs[h].chain
      /\ bucket.count = bs[h].count + 1
  <2>1. bs[h].chain \in Seq(Keys) /\ bs[h].count \in Nat /\ bs[h].expand_mult \in Nat
    BY <1>3 DEF Bucket
  <2>2. <<key>> \o bs[h].chain \in Seq(Keys)
    BY <2>1
  <2>3. /\ bucket.chain = <<key>> \o bs[h].chain
        /\ bucket.count = bs[h].count + 1
        /\ bucket.expand_mult = bs[h].expand_mult
        /\ bucket = [chain |-> bucket.chain, count |-> bucket.count,
                     expand_mult |-> bucket.expand_mult]
    BY <1>3 DEF Bucket
  <2>4. bucket.chain \in Seq(Keys) /\ bucket.count \in Nat /\ bucket.expand_mult \in Nat
    BY <2>1, <2>2, <2>3
  <2>5. bucket \in Bucket
    BY <2>3, <2>4 DEF Bucket
  <2> QED
    BY <2>3, <2>5
<1> PICK cs : cs = [bs EXCEPT ![h] = bucket]
  OBVIOUS
<1>5. Put(bs, n, key, bucket, cs)
  BY <1>4 DEF Put
<1>6. Hashed(cs, n, S \cup {key}) /\ Total(cs, n) = table.num_items + 1
  BY <1>1, <1>2, <1>5, Prepended
<1>7. cs \in [0 .. n - 1 -> Bucket]
  BY <1>3, <1>4
<1> PICK added : added = [[table EXCEPT !.num_items = @ + 1] EXCEPT !.buckets[h] = bucket]
  OBVIOUS
<1>8. /\ added.buckets = cs /\ added.num_items = table.num_items + 1
      /\ added.log2_num_buckets = table.log2_num_buckets
      /\ added.ineff_expands = table.ineff_expands /\ added.noexpand = table.noexpand
      /\ added = [buckets |-> added.buckets, log2_num_buckets |-> added.log2_num_buckets,
                  num_items |-> added.num_items, ineff_expands |-> added.ineff_expands,
                  noexpand |-> added.noexpand]
  BY <1>1 DEF Table
<1>9. num_buckets(added) = n
  BY <1>1, <1>8 DEF num_buckets
<1>10. added \in Table(added.log2_num_buckets)
  <2>1. /\ table.log2_num_buckets \in Nat /\ table.num_items \in Nat
        /\ table.ineff_expands \in Nat /\ table.noexpand \in BOOLEAN
    BY <1>1 DEF Table
  <2>2. added.num_items \in Nat
    BY <1>8, <2>1
  <2> QED
    BY <1>1, <1>7, <1>8, <2>1, <2>2 DEF Table
<1>11. Holding(added, S \cup {key})
  BY <1>6, <1>8, <1>9, <1>10 DEF Holding
<1>12. \/ HASH_ADD_TO_TABLE(table, key) = added
       \/ HASH_ADD_TO_TABLE(table, key) = HASH_EXPAND_BUCKETS(added)
  <2>1. [table EXCEPT !.num_items = @ + 1].buckets = bs
    BY <1>1 DEF Table
  <2> QED
    BY <2>1 DEF HASH_ADD_TO_TABLE, HASH_ADD_TO_BKT
<1>13. S \cup {key} \in SUBSET Keys
  OBVIOUS
<1>14. /\ Holding(HASH_EXPAND_BUCKETS(added), S \cup {key})
       /\ HASH_EXPAND_BUCKETS(added).num_items = added.num_items
  BY <1>11, <1>13, ExpandHolds
<1> QED
  BY <1>8, <1>11, <1>12, <1>14

\* The table finds what it holds, and nothing else.
LEMMA FindHeld ==
  ASSUME NEW table, NEW S \in SUBSET Keys, Holding(table, S), NEW key \in Keys
  PROVE  HASH_FIND(table, key) <=> key \in S
<1> PICK n : n = num_buckets(table)
  OBVIOUS
<1> PICK h : h = HASH_TO_BKT(key, n)
  OBVIOUS
<1>1. n \in Nat \ {0}
  BY NumBuckets DEF Holding
<1>2. h \in 0 .. n - 1
  BY <1>1, BucketOf
<1>3. Holds(table.buckets[h].chain, key) <=> key \in S
  BY <1>2 DEF Holding, Hashed
<1> QED
  BY <1>3 DEF HASH_FIND, HASH_FIND_IN_BKT, Holds

\* Holding is what uthash checks.
LEMMA FsckHolds ==
  ASSUME NEW table, NEW S \in SUBSET Keys, Holding(table, S),
         NEW order, Len(order) = table.num_items
  PROVE  HASH_FSCK(table, order)
<1>1. DOMAIN table.buckets = 0 .. num_buckets(table) - 1
  BY DEF Holding, Hashed
<1>2. \A b \in DOMAIN table.buckets : table.buckets[b].count = Len(table.buckets[b].chain)
  BY <1>1 DEF Holding, Hashed
<1>3. Len(Items(table)) = table.num_items
  BY ItemsHeld
<1> QED
  BY <1>2, <1>3 DEF HASH_FSCK

-----------------------------------------------------------------------------
(* The inductive invariant.                                                *)

Increment == [ip : Keys, c : Counters]

\* Where a session is.
Place == [step : 0 .. Len(Steps) + 1, pos : Nat]

Types ==
  /\ list \in Seq(Keys)
  /\ curr \in [Keys -> [Counters -> Nat]]
  /\ prev \in [Keys -> [Counters -> Nat]]
  /\ rx \in Seq(Increment)
  /\ cli \in [Sessions -> Place]
  /\ \A s \in Sessions : cli[s].step # 0 => cli[s].pos \in DOMAIN list
  /\ diff \in [Sessions -> [Counters -> Nat]]
  /\ shown \in [Keys -> [Counters -> Nat]]
  /\ old \in [Sessions -> SUBSET Keys]
  /\ seen \in [Sessions -> Seq(Keys)]

Listed ==
  /\ Holding(tbl, Entered)
  /\ tbl.num_items = Len(list)
  /\ \A x, y \in DOMAIN list : list[x] = list[y] => x = y

\* What a session has shown is the beginning of the list, up to where it is,
\* or to the end of what it found.
Walked(s) ==
  /\ Len(seen[s]) <= Len(list)
  /\ \A x \in DOMAIN seen[s] : seen[s][x] = list[x]
  /\ old[s] \subseteq Entered
  /\ cli[s].step # 0 => Len(seen[s]) = cli[s].pos - 1
  /\ cli[s].step = 0 => old[s] \subseteq {seen[s][x] : x \in DOMAIN seen[s]}

Bytes == {"rx_bytes", "tx_bytes"}

Saved(c) == IF c = "rx_bytes" THEN 7 ELSE 8

\* What was shown of a byte counter is covered by the sample; the difference
\* being computed, by the counter, and once the sample is saved by it.
Covered(s) ==
  /\ \A ip \in Keys, c \in Bytes :
       shown[ip][c] <= prev[ip][c] /\ prev[ip][c] <= curr[ip][c]
  /\ \A c \in Bytes :
       /\ cli[s].step = 0 => diff[s][c] = 0
       /\ cli[s].step # 0 => shown[Ip(s)][c] + diff[s][c] <= curr[Ip(s)][c]
       /\ cli[s].step > Saved(c) => shown[Ip(s)][c] + diff[s][c] <= prev[Ip(s)][c]

OneSession == Sessions # {} /\ \A s, t \in Sessions : s = t

IpInv ==
  /\ Types
  /\ Listed
  /\ \A s \in Sessions : Walked(s)
  /\ OneSession => \A s \in Sessions : Covered(s)

-----------------------------------------------------------------------------
(* Types.                                                                  *)

\* The steps of an entry: which counter, and when the bytes are saved.
LEMMA StepsAre ==
  /\ Len(Steps) = 8 /\ DOMAIN Steps = 1 .. 8
  /\ \A k \in 1 .. 8 : Steps[k].c \in Counters /\ SavedIn(Steps[k].c) \in Counters
  /\ \A k \in 1 .. 8, c \in Bytes :
       Steps[k].op = "save" => (SavedIn(Steps[k].c) = c <=> k = Saved(c))
  /\ \A k \in 1 .. 8, c \in Bytes :
       /\ Steps[k].op = "save" /\ SavedIn(Steps[k].c) = c => Steps[k].c = c
       /\ Steps[k].op = "diff" => k # Saved(c)
  /\ \A k \in 1 .. 8 : Steps[k].op \in {"diff", "save"}
  /\ \A c \in Bytes : Saved(c) \in 7 .. 8 /\ c \in Counters
BY DEF Steps, Counters, SavedIn, Bytes, Saved

\* One counter is set.
LEMMA CounterSet ==
  ASSUME NEW K, NEW f \in [K -> [Counters -> Nat]], NEW i \in K, NEW c \in Counters,
         NEW v \in Nat, NEW g, g = [f EXCEPT ![i][c] = v]
  PROVE  /\ g \in [K -> [Counters -> Nat]]
         /\ g[i][c] = v
         /\ \A j \in K, d \in Counters : (j # i \/ d # c) => g[j][d] = f[j][d]
<1> PICK h : h = [f[i] EXCEPT ![c] = v]
  OBVIOUS
<1>1. h \in [Counters -> Nat] /\ h[c] = v /\ \A d \in Counters \ {c} : h[d] = f[i][d]
  OBVIOUS
<1>2. g = [f EXCEPT ![i] = h]
  OBVIOUS
<1>3. g \in [K -> [Counters -> Nat]] /\ g[i] = h /\ \A j \in K \ {i} : g[j] = f[j]
  BY <1>1, <1>2
<1> QED
  BY <1>1, <1>3

\* The entry a session is at.
LEMMA AtEntry ==
  ASSUME Types, NEW s \in Sessions
  PROVE  /\ cli[s].step \in 0 .. 9 /\ cli[s].pos \in Nat
         /\ cli[s].step # 0 => Ip(s) \in Keys /\ cli[s].pos \in 1 .. Len(list)
         /\ cli[s].step \in 1 .. 8 => Counter(s) \in Counters /\ SavedIn(Counter(s)) \in Counters
<1>1. cli[s] \in Place /\ Len(Steps) + 1 = 9
  BY StepsAre DEF Types
<1>2. cli[s].step \in 0 .. 9 /\ cli[s].pos \in Nat
  BY <1>1 DEF Place
<1>3. list \in Seq(Keys)
  BY DEF Types
<1>4. cli[s].step # 0 => cli[s].pos \in DOMAIN list
  BY DEF Types
<1>5. cli[s].step # 0 => Ip(s) \in Keys /\ cli[s].pos \in 1 .. Len(list)
  BY <1>3, <1>4 DEF Ip
<1> QED
  BY <1>2, <1>5, StepsAre DEF Counter

\* Entries stay where they are.
LEMMA ListGrows ==
  ASSUME Types, [Next]_vars
  PROVE  /\ list' \in Seq(Keys)
         /\ Len(list) <= Len(list')
         /\ \A x \in DOMAIN list : x \in DOMAIN list' /\ list'[x] = list[x]
<1>1. list \in Seq(Keys)
  BY DEF Types
<1>2. list' = list \/ \E ip \in Keys : list' = Append(list, ip)
  BY DEF Next, vars, bounds, hist, RxThread, wlan_ip_static_update_rx,
         wlan_ip_static_update_tx, Update, Enter, Count, Session, Start, Diff, Save, Show
<1>3. CASE list' = list
  BY <1>1, <1>3
<1>4. CASE \E ip \in Keys : list' = Append(list, ip)
  BY <1>1, <1>4
<1> QED
  BY <1>2, <1>3, <1>4

\* Each step keeps the types.
LEMMA TypesStep ==
  ASSUME Types, [Next]_vars
  PROVE  Types'
<1> USE StepsAre
<1>0. /\ list' \in Seq(Keys)
      /\ \A x \in DOMAIN list : x \in DOMAIN list'
  BY ListGrows
<1>1. ASSUME UNCHANGED <<curr, prev, cli, diff, shown, old, seen>>, rx' \in Seq(Increment)
      PROVE  Types'
  BY <1>0, <1>1 DEF Types
<1>2. CASE UNCHANGED vars
  BY <1>1, <1>2 DEF Types, vars, bounds, hist
<1>3. ASSUME NEW ip \in Keys, NEW p \in Counters, NEW b \in Counters, Update(ip, p, b)
      PROVE  Types'
  <2>1. rx' = <<[ip |-> ip, c |-> p], [ip |-> ip, c |-> b]>>
    BY <1>3 DEF Update
  <2>2. [ip |-> ip, c |-> p] \in Increment /\ [ip |-> ip, c |-> b] \in Increment
    BY DEF Increment
  <2>3. rx' \in Seq(Increment)
    BY <2>1, <2>2
  <2> QED
    BY <1>1, <1>3, <2>3 DEF Update, hist
<1>4. CASE Count
  <2>1. /\ Head(rx) \in Increment /\ rx' \in Seq(Increment)
        /\ curr' = [curr EXCEPT ![Head(rx).ip][Head(rx).c] = @ + 1]
    BY <1>4 DEF Count, Types
  <2>2. PICK i \in Keys, c \in Counters : i = Head(rx).ip /\ c = Head(rx).c
    BY <2>1 DEF Increment
  <2>3. curr' \in [Keys -> [Counters -> Nat]]
    <3>1. curr \in [Keys -> [Counters -> Nat]] /\ curr[i][c] + 1 \in Nat
      <4>1. curr \in [Keys -> [Counters -> Nat]]
        BY DEF Types
      <4>2. curr[i][c] \in Nat
        BY <4>1
      <4> QED
        BY <4>1, <4>2
    <3>2. curr' = [curr EXCEPT ![i][c] = curr[i][c] + 1]
      BY <2>1, <2>2
    <3> QED
      BY <3>1, <3>2, CounterSet
  <2> QED
    BY <1>0, <1>4, <2>1, <2>3 DEF Count, bounds, hist, Types
<1>5. ASSUME NEW s \in Sessions, Start(s)
      PROVE  Types'
  <2>1. list' = list /\ 1 \in DOMAIN list
    BY <1>5 DEF Start, Types
  <2>2. [step |-> 1, pos |-> 1] \in Place
    BY DEF Place
  <2>3. cli' \in [Sessions -> Place]
    BY <1>5, <2>2 DEF Start, Types
  <2>4. \A t \in Sessions : cli'[t].step # 0 => cli'[t].pos \in DOMAIN list'
    BY <1>5, <2>1 DEF Start, Types
  <2>5. seen' \in [Sessions -> Seq(Keys)]
    BY <1>5 DEF Start, Types
  <2>6. old' \in [Sessions -> SUBSET Keys]
    <3>1. Entered \in SUBSET Keys
      BY DEF Entered, Types
    <3> QED
      BY <1>5, <3>1 DEF Start, Types
  <2> QED
    BY <1>0, <1>5, <2>3, <2>4, <2>5, <2>6 DEF Start, Types
<1>6. ASSUME NEW s \in Sessions, cli[s].step \in 1 .. 8, Advance(s), list' = list
      PROVE  /\ cli' \in [Sessions -> Place]
             /\ \A t \in Sessions : cli'[t].step # 0 => cli'[t].pos \in DOMAIN list'
  <2>0. cli[s].step + 1 \in 0 .. Len(Steps) + 1
    BY <1>6
  <2>1. cli[s] \in Place /\ cli' = [cli EXCEPT ![s].step = cli[s].step + 1]
    BY <1>6 DEF Types, Advance
  <2>2. [cli[s] EXCEPT !.step = cli[s].step + 1] \in Place
    BY <2>0, <2>1 DEF Place
  <2>3. cli' \in [Sessions -> Place]
    BY <2>1, <2>2 DEF Types
  <2>4. /\ cli'[s].pos = cli[s].pos
        /\ \A t \in Sessions \ {s} : cli'[t] = cli[t]
    BY <2>1 DEF Types, Place
  <2>5. cli[s].pos \in DOMAIN list
    <3>1. cli[s].step # 0
      BY <1>6
    <3> QED
      BY <3>1 DEF Types
  <2>6. \A t \in Sessions : cli'[t].step # 0 => cli'[t].pos \in DOMAIN list
    BY <2>4, <2>5 DEF Types
  <2> QED
    BY <1>6, <2>3, <2>6
<1>7. ASSUME NEW s \in Sessions, Diff(s)
      PROVE  Types'
  <2>1. cli[s].step \in 1 .. 8 /\ Advance(s) /\ list' = list
    BY <1>7 DEF Diff, At
  <2>2. PICK c \in Counters, i \in Keys : c = Counter(s) /\ i = Ip(s)
    BY <2>1, AtEntry
  <2>3. Monus(curr[i][c], prev[i][c]) \in Nat
    <3>1. curr[i][c] \in Nat /\ prev[i][c] \in Nat
      BY DEF Types
    <3> QED
      BY <3>1 DEF Monus
  <2>4. diff' \in [Sessions -> [Counters -> Nat]]
    <3>1. diff' = [diff EXCEPT ![s][c] = Monus(curr[i][c], prev[i][c])]
      BY <1>7, <2>2 DEF Diff
    <3>2. diff \in [Sessions -> [Counters -> Nat]]
      BY DEF Types
    <3> QED
      BY <2>3, <3>1, <3>2, CounterSet
  <2> QED
    BY <1>0, <1>6, <1>7, <2>1, <2>4 DEF Diff, bounds, hist, Types
<1>8. ASSUME NEW s \in Sessions, Save(s)
      PROVE  Types'
  <2>1. cli[s].step \in 1 .. 8 /\ Advance(s) /\ list' = list
    BY <1>8 DEF Save, At
  <2>2. PICK c \in Counters, d \in Counters, i \in Keys :
          c = Counter(s) /\ d = SavedIn(Counter(s)) /\ i = Ip(s)
    BY <2>1, AtEntry
  <2>3. prev' \in [Keys -> [Counters -> Nat]]
    <3>1. prev' = [prev EXCEPT ![i][d] = curr[i][c]]
      BY <1>8, <2>2 DEF Save
    <3>2. prev \in [Keys -> [Counters -> Nat]] /\ curr[i][c] \in Nat
      BY DEF Types
    <3> QED
      BY <3>1, <3>2, CounterSet
  <2> QED
    BY <1>0, <1>6, <1>8, <2>1, <2>3 DEF Save, bounds, hist, Types
<1>9. ASSUME NEW s \in Sessions, Show(s)
      PROVE  Types'
  <2>1. cli[s].step = 9 /\ list' = list
    BY <1>9, StepsAre DEF Show
  <2>2. PICK i \in Keys, p \in Nat : i = Ip(s) /\ p = cli[s].pos /\ p \in 1 .. Len(list)
    BY <2>1, AtEntry
  <2>3. shown' \in [Keys -> [Counters -> Nat]]
    <3>1. shown' = [shown EXCEPT ![i] = [c \in Counters |-> shown[i][c] + diff[s][c]]]
      BY <1>9, <2>2 DEF Show
    <3>2. [c \in Counters |-> shown[i][c] + diff[s][c]] \in [Counters -> Nat]
      <4>1. \A c \in Counters : shown[i][c] \in Nat /\ diff[s][c] \in Nat
        BY DEF Types
      <4> QED
        BY <4>1
    <3> QED
      BY <3>1, <3>2 DEF Types
  <2>4. seen' \in [Sessions -> Seq(Keys)]
    <3>1. seen' = [seen EXCEPT ![s] = Append(seen[s], i)]
      BY <1>9, <2>2 DEF Show
    <3> QED
      BY <3>1 DEF Types
  <2>5. diff' \in [Sessions -> [Counters -> Nat]]
    BY <1>9 DEF Show, Types, Zero
  <2>6. PICK place \in Place :
          /\ cli' = [cli EXCEPT ![s] = place]
          /\ place.step # 0 => place.pos \in DOMAIN list
    <3>1. CASE More(s)
      <4>1. [step |-> 1, pos |-> p + 1] \in Place /\ p + 1 \in 1 .. Len(list)
        <5>1. p < Len(list) /\ Len(list) \in Nat /\ p \in Nat
          <6>1. Len(list) \in Nat
            BY DEF Types
          <6> QED
            BY <2>2, <3>1, <6>1 DEF More
        <5>2. p + 1 \in Nat /\ p + 1 \in 1 .. Len(list)
          BY <5>1
        <5> QED
          BY <5>2, StepsAre DEF Place
      <4>2. cli' = [cli EXCEPT ![s] = [step |-> 1, pos |-> p + 1]]
        BY <1>9, <2>2, <3>1 DEF Show
      <4>3. [step |-> 1, pos |-> p + 1].pos \in DOMAIN list
        <5>1. DOMAIN list = 1 .. Len(list)
          BY DEF Types
        <5> QED
          BY <4>1, <5>1
      <4> USE <4>1
      <4> WITNESS [step |-> 1, pos |-> p + 1] \in Place
      <4> QED
        BY <4>2, <4>3
    <3>2. CASE ~More(s)
      <4>1. [step |-> 0, pos |-> 1] \in Place
        BY DEF Place
      <4>2. cli' = [cli EXCEPT ![s] = [step |-> 0, pos |-> 1]]
        BY <1>9, <3>2 DEF Show
      <4>3. [step |-> 0, pos |-> 1].step = 0
        OBVIOUS
      <4> WITNESS [step |-> 0, pos |-> 1] \in Place
      <4> QED
        BY <4>2, <4>3
    <3> QED
      BY <3>1, <3>2
  <2>7. /\ cli' \in [Sessions -> Place]
        /\ \A t \in Sessions : cli'[t].step # 0 => cli'[t].pos \in DOMAIN list'
    BY <2>1, <2>6 DEF Types
  <2> QED
    BY <1>0, <1>9, <2>3, <2>4, <2>5, <2>7 DEF Show, Types
<1>10. {"rx_packets", "tx_packets", "rx_bytes", "tx_bytes"} = Counters
  BY DEF Counters
<1> QED
  BY <1>2, <1>3, <1>4, <1>5, <1>7, <1>8, <1>9, <1>10
  DEF Next, RxThread, wlan_ip_static_update_rx, wlan_ip_static_update_tx, Session

-----------------------------------------------------------------------------
(* The table and the list.                                                 *)

\* An IP is entered in the list and the table together, and never again.
LEMMA ListedStep ==
  ASSUME Types, Listed, [Next]_vars
  PROVE  Listed'
<1>0. Entered \in SUBSET Keys
  BY DEF Types, Entered
<1>1. ASSUME list' = list, tbl' = tbl
      PROVE  Listed'
  BY <1>1 DEF Listed, Entered
<1>2. ASSUME NEW ip \in Keys, NEW p, NEW b, Update(ip, p, b)
      PROVE  Listed'
  <2>1. CASE HASH_FIND(tbl, ip)
    BY <1>1, <1>2, <2>1 DEF Update, Enter
  <2>2. CASE ~HASH_FIND(tbl, ip)
    <3>1. list' = Append(list, ip) /\ tbl' = HASH_ADD_TO_TABLE(tbl, ip)
      BY <1>2, <2>2 DEF Update, Enter
    <3>2. ip \notin Entered
      BY <1>0, <2>2, FindHeld DEF Listed
    <3>3. list \in Seq(Keys)
      BY DEF Types
    <3>4. /\ Holding(HASH_ADD_TO_TABLE(tbl, ip), Entered \cup {ip})
          /\ HASH_ADD_TO_TABLE(tbl, ip).num_items = tbl.num_items + 1
      BY <1>0, AddHolds DEF Listed
    <3>5. /\ Len(list') = Len(list) + 1 /\ DOMAIN list' = 1 .. Len(list) + 1
          /\ Len(list) \in Nat /\ DOMAIN list = 1 .. Len(list)
          /\ list'[Len(list) + 1] = ip
          /\ \A x \in 1 .. Len(list) : list'[x] = list[x]
      BY <3>1, <3>3
    <3>6. Entered' = Entered \cup {ip}
      <4>1. \A v : v \in Entered' <=> \E x \in 1 .. Len(list) + 1 : v = list'[x]
        BY <3>5 DEF Entered
      <4>2. \A v : v \in Entered <=> \E x \in 1 .. Len(list) : v = list[x]
        BY <3>5 DEF Entered
      <4>3. \A x : x \in 1 .. Len(list) + 1 <=> x \in 1 .. Len(list) \/ x = Len(list) + 1
        BY <3>5
      <4> QED
        BY <3>5, <4>1, <4>2, <4>3
    <3>7. \A x, y \in DOMAIN list' : list'[x] = list'[y] => x = y
      <4> SUFFICES ASSUME NEW x \in 1 .. Len(list) + 1, NEW y \in 1 .. Len(list) + 1,
                          list'[x] = list'[y]
                   PROVE  x = y
        BY <3>5
      <4>1. \A z \in 1 .. Len(list) : list[z] # ip
        BY <3>2, <3>5 DEF Entered
      <4>2. \A z \in 1 .. Len(list) + 1 : z \in 1 .. Len(list) \/ z = Len(list) + 1
        BY <3>5
      <4>3. \A v, w \in 1 .. Len(list) : list[v] = list[w] => v = w
        BY <3>5 DEF Listed
      <4> QED
        BY <3>5, <4>1, <4>2, <4>3
    <3>8. tbl.num_items = Len(list)
      BY DEF Listed
    <3> QED
      BY <3>1, <3>4, <3>5, <3>6, <3>7, <3>8 DEF Listed
  <2> QED
    BY <2>1, <2>2
<1>3. \/ list' = list /\ tbl' = tbl
      \/ \E ip \in Keys : Update(ip, "rx_packets", "rx_bytes")
                          \/ Update(ip, "tx_packets", "tx_bytes")
  BY DEF Next, vars, RxThread, wlan_ip_static_update_rx,
         wlan_ip_static_update_tx, Count, Session, Start, Diff, Save, Show
<1> QED
  BY <1>1, <1>2, <1>3

-----------------------------------------------------------------------------
(* The walk of the list.                                                   *)

\* A session moves along the list while it grows.
LEMMA WalkedStep ==
  ASSUME Types, Listed, [Next]_vars, NEW s \in Sessions, Walked(s)
  PROVE  Walked(s)'
<1>0. /\ list' \in Seq(Keys)
      /\ Len(list) <= Len(list')
      /\ \A x \in DOMAIN list : x \in DOMAIN list' /\ list'[x] = list[x]
  BY ListGrows
<1>00. /\ list \in Seq(Keys) /\ seen[s] \in Seq(Keys)
       /\ Len(list) \in Nat /\ Len(list') \in Nat /\ Len(seen[s]) \in Nat
  BY <1>0 DEF Types
<1>1. Entered \subseteq Entered'
  BY <1>0 DEF Entered
<1>2. ASSUME seen'[s] = seen[s], old'[s] = old[s], cli'[s].pos = cli[s].pos,
             cli[s].step = 0 <=> cli'[s].step = 0
      PROVE  Walked(s)'
  <2>1. Len(seen'[s]) <= Len(list')
    BY <1>0, <1>00, <1>2 DEF Walked
  <2>2. \A x \in DOMAIN seen'[s] : seen'[s][x] = list'[x]
    <3> TAKE x \in DOMAIN seen'[s]
    <3>1. x \in DOMAIN list
      BY <1>00, <1>2 DEF Walked
    <3> QED
      BY <1>0, <1>2, <3>1 DEF Walked
  <2>3. old'[s] \subseteq Entered'
    BY <1>1, <1>2 DEF Walked
  <2>4. cli'[s].step # 0 => Len(seen'[s]) = cli'[s].pos - 1
    BY <1>2 DEF Walked
  <2>5. cli'[s].step = 0 => old'[s] \subseteq {seen'[s][x] : x \in DOMAIN seen'[s]}
    BY <1>2 DEF Walked
  <2> QED
    BY <2>1, <2>2, <2>3, <2>4, <2>5 DEF Walked
<1>3. ASSUME NEW t \in Sessions, Session(t), t # s
      PROVE  Walked(s)'
  <2>1. seen'[s] = seen[s] /\ old'[s] = old[s] /\ cli'[s] = cli[s]
    BY <1>3 DEF Session, Start, Diff, Save, Show, Advance, bounds, hist, Types
  <2> QED
    BY <1>2, <2>1
<1>4. CASE UNCHANGED vars \/ RxThread
  <2>1. UNCHANGED <<seen, old, cli>>
    BY <1>4 DEF vars, bounds, hist, RxThread, wlan_ip_static_update_rx,
                wlan_ip_static_update_tx, Update, Count
  <2> QED
    BY <1>2, <2>1
<1>5. CASE Start(s)
  <2>1. seen'[s] = <<>> /\ old'[s] = Entered /\ cli'[s] = [step |-> 1, pos |-> 1]
    <3>1. old' = [old EXCEPT ![s] = Entered]
      BY <1>5 DEF Start
    <3>2. seen'[s] = <<>> /\ cli'[s] = [step |-> 1, pos |-> 1]
      BY <1>5 DEF Start, Types
    <3> QED
      BY <3>1, <3>2 DEF Types
  <2> QED
    BY <1>00, <1>1, <2>1 DEF Walked
<1>6. CASE Diff(s) \/ Save(s)
  <2>1. UNCHANGED <<seen, old>> /\ cli[s].step \in 1 .. 8 /\ Advance(s)
    BY <1>6, StepsAre DEF Diff, Save, At, bounds, hist
  <2>2. cli[s] \in Place /\ cli' = [cli EXCEPT ![s].step = cli[s].step + 1]
    BY <2>1 DEF Advance, Types
  <2>3. cli'[s].pos = cli[s].pos /\ cli'[s].step = cli[s].step + 1
    BY <2>2 DEF Place, Types
  <2>4. cli'[s].step # 0 /\ cli[s].step # 0
    BY <2>1, <2>3
  <2> QED
    BY <1>2, <2>1, <2>3, <2>4
<1>7. CASE Show(s)
  <2>1. cli[s].step = 9 /\ list' = list /\ old' = old
    BY <1>7, StepsAre DEF Show
  <2>2. PICK i \in Keys, p \in Nat :
          i = Ip(s) /\ p = cli[s].pos /\ p \in 1 .. Len(list) /\ i = list[p]
    BY <2>1, AtEntry DEF Ip
  <2>3. seen'[s] = Append(seen[s], i)
    BY <1>7, <2>2 DEF Show, Types
  <2>4. Len(seen[s]) = p - 1
    BY <2>1, <2>2 DEF Walked
  <2>5. /\ seen'[s] \in Seq(Keys) /\ Len(seen'[s]) = p /\ DOMAIN seen'[s] = 1 .. p
        /\ seen'[s][p] = list[p]
        /\ \A x \in 1 .. p - 1 : seen'[s][x] = seen[s][x] /\ x \in DOMAIN seen[s]
    BY <1>00, <2>2, <2>3, <2>4
  <2>6. \A x \in 1 .. p : seen'[s][x] = list[x]
    <3>1. \A x \in 1 .. p : x \in 1 .. p - 1 \/ x = p
      BY <2>2
    <3> QED
      BY <2>5, <3>1 DEF Walked
  <2>7. old'[s] \subseteq Entered'
    BY <1>1, <2>1 DEF Walked
  <2>8. CASE More(s)
    <3>1. cli'[s].step = 1 /\ cli'[s].pos = p + 1
      BY <1>7, <2>2, <2>8 DEF Show, Types
    <3>2. Len(seen'[s]) <= Len(list') /\ Len(seen'[s]) = cli'[s].pos - 1
      BY <1>00, <2>1, <2>2, <2>5, <3>1
    <3>3. \A x \in DOMAIN seen'[s] : seen'[s][x] = list'[x]
      BY <2>1, <2>5, <2>6
    <3> QED
      BY <2>7, <3>1, <3>2, <3>3 DEF Walked
  <2>9. CASE ~More(s)
    <3>1. cli'[s].step = 0
      BY <1>7, <2>9 DEF Show, Types
    <3>2. p = Len(list)
      BY <1>00, <2>2, <2>9 DEF More
    <3>3. Entered \subseteq {seen'[s][x] : x \in DOMAIN seen'[s]}
      BY <1>00, <2>5, <2>6, <3>2 DEF Entered
    <3>4. old'[s] \subseteq {seen'[s][x] : x \in DOMAIN seen'[s]}
      BY <2>1, <3>3 DEF Walked
    <3> QED
      BY <1>00, <2>1, <2>2, <2>5, <2>6, <2>7, <3>1, <3>4 DEF Walked
  <2> QED
    BY <2>8, <2>9
<1> QED
  BY <1>3, <1>4, <1>5, <1>6, <1>7 DEF Next, Session

-----------------------------------------------------------------------------
(* The rates of a single session.                                          *)

\* All that is counted are natural numbers.
LEMMA CountersNat ==
  ASSUME Types, NEW s \in Sessions
  PROVE  /\ \A ip \in Keys, c \in Counters :
              curr[ip][c] \in Nat /\ prev[ip][c] \in Nat /\ shown[ip][c] \in Nat
         /\ \A c \in Counters : diff[s][c] \in Nat
<1>1. /\ curr \in [Keys -> [Counters -> Nat]] /\ prev \in [Keys -> [Counters -> Nat]]
      /\ shown \in [Keys -> [Counters -> Nat]] /\ diff \in [Sessions -> [Counters -> Nat]]
  BY DEF Types
<1> QED
  BY <1>1

\* Counting, the difference, the save and the showing keep the order of what is
\* shown, saved and counted.
LEMMA CoveredStep ==
  ASSUME Types, OneSession, [Next]_vars, NEW s \in Sessions, Covered(s)
  PROVE  Covered(s)'
<1>1. Types' /\ \A t \in Sessions : t = s
  BY TypesStep DEF OneSession
<1>2. /\ \A ip \in Keys, c \in Counters :
           /\ curr[ip][c] \in Nat /\ prev[ip][c] \in Nat /\ shown[ip][c] \in Nat
           /\ curr'[ip][c] \in Nat /\ prev'[ip][c] \in Nat /\ shown'[ip][c] \in Nat
      /\ \A c \in Counters : diff[s][c] \in Nat /\ diff'[s][c] \in Nat
  <2>1. /\ \A ip \in Keys, c \in Counters :
             curr'[ip][c] \in Nat /\ prev'[ip][c] \in Nat /\ shown'[ip][c] \in Nat
        /\ \A c \in Counters : diff'[s][c] \in Nat
    <3>1. /\ curr' \in [Keys -> [Counters -> Nat]] /\ prev' \in [Keys -> [Counters -> Nat]]
          /\ shown' \in [Keys -> [Counters -> Nat]]
          /\ diff' \in [Sessions -> [Counters -> Nat]]
      BY <1>1 DEF Types
    <3> QED
      BY <3>1
  <2> QED
    BY <2>1, CountersNat
<1>3. \A c \in Bytes : c \in Counters /\ Saved(c) \in 7 .. 8
  BY StepsAre
<1>4. cli[s].step \in 0 .. 9 /\ (cli[s].step # 0 => Ip(s) \in Keys)
  BY AtEntry
<1>5. cli[s].step # 0 /\ cli'[s].pos = cli[s].pos => Ip(s)' = Ip(s)
  <2>1. cli[s].step # 0 => list'[cli[s].pos] = list[cli[s].pos]
    BY ListGrows DEF Types
  <2> QED
    BY <2>1 DEF Ip
<1>6. ASSUME cli' = cli, UNCHANGED <<prev, shown, diff>>,
             \A ip \in Keys, c \in Bytes : curr[ip][c] <= curr'[ip][c]
      PROVE  Covered(s)'
  <2>1. \A ip \in Keys, c \in Bytes :
          shown'[ip][c] <= prev'[ip][c] /\ prev'[ip][c] <= curr'[ip][c]
    BY <1>2, <1>3, <1>6 DEF Covered
  <2>2. ASSUME NEW c \in Bytes
        PROVE  /\ cli'[s].step = 0 => diff'[s][c] = 0
               /\ cli'[s].step # 0 => shown'[Ip(s)'][c] + diff'[s][c] <= curr'[Ip(s)'][c]
               /\ cli'[s].step > Saved(c) =>
                    shown'[Ip(s)'][c] + diff'[s][c] <= prev'[Ip(s)'][c]
    <3>1. CASE cli[s].step = 0
      BY <1>3, <1>6, <3>1 DEF Covered
    <3>2. CASE cli[s].step # 0
      <4>1. Ip(s)' = Ip(s) /\ Ip(s) \in Keys
        BY <1>4, <1>5, <1>6, <3>2
      <4> PICK i \in Keys : i = Ip(s)
        BY <4>1
      <4>2. /\ shown[i][c] + diff[s][c] <= curr[i][c]
            /\ cli[s].step > Saved(c) => shown[i][c] + diff[s][c] <= prev[i][c]
        BY <3>2 DEF Covered
      <4> QED
        BY <1>2, <1>3, <1>6, <3>2, <4>1, <4>2
    <3> QED
      BY <3>1, <3>2
  <2> QED
    BY <2>1, <2>2 DEF Covered
<1>7. CASE UNCHANGED vars
  <2>1. \A ip \in Keys, c \in Bytes : curr[ip][c] <= curr'[ip][c]
    BY <1>2, <1>3, <1>7 DEF vars
  <2> QED
    BY <1>6, <1>7, <2>1 DEF vars, bounds, hist
<1>8. ASSUME NEW ip, NEW p, NEW b, Update(ip, p, b)
      PROVE  Covered(s)'
  <2>1. \A i \in Keys, c \in Bytes : curr[i][c] <= curr'[i][c]
    BY <1>2, <1>3, <1>8 DEF Update
  <2> QED
    BY <1>6, <1>8, <2>1 DEF Update, hist
<1>9. CASE Count
  <2>1. PICK i \in Keys, c \in Counters : curr' = [curr EXCEPT ![i][c] = curr[i][c] + 1]
    <3>1. Head(rx) \in Increment /\ curr' = [curr EXCEPT ![Head(rx).ip][Head(rx).c] = @ + 1]
      BY <1>9 DEF Count, Types
    <3>2. Head(rx).ip \in Keys /\ Head(rx).c \in Counters
      BY <3>1 DEF Increment
    <3> QED
      BY <3>1, <3>2
  <2>2. /\ curr'[i][c] = curr[i][c] + 1
        /\ \A j \in Keys, d \in Counters : (j # i \/ d # c) => curr'[j][d] = curr[j][d]
    <3>1. curr \in [Keys -> [Counters -> Nat]] /\ curr[i][c] + 1 \in Nat
      BY <1>2 DEF Types
    <3> QED
      BY <2>1, <3>1, CounterSet
  <2>3. \A j \in Keys, d \in Bytes : curr[j][d] <= curr'[j][d]
    BY <1>2, <1>3, <2>2
  <2> QED
    BY <1>6, <1>9, <2>3 DEF Count, bounds, hist
<1>10. CASE Start(s)
  <2>1. /\ UNCHANGED <<list, curr, prev, shown, diff>> /\ list # <<>> /\ cli[s].step = 0
        /\ cli'[s] = [step |-> 1, pos |-> 1]
    BY <1>10 DEF Start, Types
  <2>2. Ip(s)' \in Keys
    BY <2>1 DEF Ip, Types
  <2> PICK i \in Keys : i = Ip(s)'
    BY <2>2
  <2>3. ASSUME NEW c \in Bytes
        PROVE  shown'[i][c] + diff'[s][c] <= curr'[i][c]
    <3>1. diff[s][c] = 0 /\ shown[i][c] <= prev[i][c] /\ prev[i][c] <= curr[i][c]
      BY <2>1 DEF Covered
    <3> QED
      BY <1>2, <1>3, <2>1, <3>1
  <2>4. cli'[s].step = 1
    BY <2>1
  <2>5. \A c \in Bytes : ~(cli'[s].step > Saved(c))
    BY <1>3, <2>4
  <2> QED
    BY <2>1, <2>3, <2>4, <2>5 DEF Covered
<1>11. ASSUME cli[s].step \in 1 .. 8, Advance(s)
       PROVE  cli'[s].pos = cli[s].pos /\ cli'[s].step = cli[s].step + 1
  <2>1. cli[s] \in Place /\ cli' = [cli EXCEPT ![s].step = cli[s].step + 1]
    BY <1>11 DEF Advance, Types
  <2> QED
    BY <2>1 DEF Place, Types
<1>12. CASE Diff(s)
  <2>1. /\ cli[s].step \in 1 .. 8 /\ Advance(s) /\ UNCHANGED <<list, curr, prev, shown>>
        /\ Steps[cli[s].step].op = "diff"
    BY <1>12, StepsAre DEF Diff, At, bounds, hist
  <2>2. PICK i \in Keys, c \in Counters : i = Ip(s) /\ c = Counter(s)
    BY <2>1, AtEntry
  <2>3. cli'[s].step = cli[s].step + 1 /\ Ip(s)' = i
    BY <1>5, <1>11, <2>1, <2>2
  <2>4. /\ diff'[s][c] = Monus(curr[i][c], prev[i][c])
        /\ \A d \in Counters \ {c} : diff'[s][d] = diff[s][d]
    <3>1. diff' = [diff EXCEPT ![s][c] = Monus(curr[i][c], prev[i][c])]
      BY <1>12, <2>2 DEF Diff
    <3>2. Monus(curr[i][c], prev[i][c]) \in Nat
      BY <1>2 DEF Monus
    <3>3. diff \in [Sessions -> [Counters -> Nat]]
      BY DEF Types
    <3> QED
      BY <3>1, <3>2, <3>3, CounterSet
  <2>5. ASSUME NEW d \in Bytes
        PROVE  /\ shown[i][d] + diff'[s][d] <= curr[i][d]
               /\ cli'[s].step > Saved(d) => shown[i][d] + diff'[s][d] <= prev[i][d]
    <3>1. cli[s].step # Saved(d)
      BY <2>1, StepsAre
    <3>2. cli'[s].step > Saved(d) => cli[s].step > Saved(d)
      BY <1>3, <2>1, <2>3, <3>1
    <3>3. shown[i][d] <= prev[i][d] /\ prev[i][d] <= curr[i][d]
      BY DEF Covered
    <3>4. CASE d = c
      <4>1. cli[s].step > Saved(d) => Steps[cli[s].step].op = "save"
        BY <1>3, <2>1 DEF Steps, Saved
      <4>2. ~(cli'[s].step > Saved(d))
        BY <2>1, <3>2, <4>1
      <4>3. shown[i][d] + Monus(curr[i][d], prev[i][d]) <= curr[i][d]
        BY <1>2, <1>3, <3>3 DEF Monus
      <4> QED
        BY <2>4, <3>4, <4>2, <4>3
    <3>5. CASE d # c
      <4>1. diff'[s][d] = diff[s][d]
        BY <1>3, <2>4, <3>5
      <4> QED
        BY <2>1, <2>2, <3>2, <4>1 DEF Covered
    <3> QED
      BY <3>4, <3>5
  <2>6. cli'[s].step # 0
    BY <2>1, <2>3
  <2> QED
    BY <2>1, <2>3, <2>5, <2>6 DEF Covered
<1>13. CASE Save(s)
  <2>1. /\ cli[s].step \in 1 .. 8 /\ Advance(s) /\ UNCHANGED <<list, curr, diff, shown>>
        /\ Steps[cli[s].step].op = "save"
    BY <1>13, StepsAre DEF Save, At, bounds, hist
  <2>2. PICK i \in Keys, c \in Counters, e \in Counters :
          i = Ip(s) /\ c = Counter(s) /\ e = SavedIn(c)
    BY <2>1, AtEntry
  <2>3. cli'[s].step = cli[s].step + 1 /\ Ip(s)' = i
    BY <1>5, <1>11, <2>1, <2>2
  <2>4. /\ prev'[i][e] = curr[i][c]
        /\ \A j \in Keys, d \in Counters : (j # i \/ d # e) => prev'[j][d] = prev[j][d]
    <3>1. prev' = [prev EXCEPT ![i][e] = curr[i][c]]
      BY <1>13, <2>2 DEF Save
    <3>2. prev \in [Keys -> [Counters -> Nat]] /\ curr[i][c] \in Nat
      BY <1>2 DEF Types
    <3> QED
      BY <3>1, <3>2, CounterSet
  <2>5. \A d \in Bytes : /\ e = d => c = d
                         /\ e = d <=> cli[s].step = Saved(d)
    BY <2>1, <2>2, StepsAre DEF Counter
  <2>6. ASSUME NEW j \in Keys, NEW d \in Bytes
        PROVE  shown[j][d] <= prev'[j][d] /\ prev'[j][d] <= curr[j][d]
    <3>1. shown[j][d] <= prev[j][d] /\ prev[j][d] <= curr[j][d] /\ d \in Counters
      BY <1>3 DEF Covered
    <3>2. prev'[j][d] = prev[j][d] \/ prev'[j][d] = curr[j][d]
      BY <2>4, <2>5, <3>1
    <3> QED
      BY <1>2, <3>1, <3>2
  <2>7. ASSUME NEW d \in Bytes
        PROVE  /\ shown[i][d] + diff[s][d] <= curr[i][d]
               /\ cli'[s].step > Saved(d) => shown[i][d] + diff[s][d] <= prev'[i][d]
    <3>1. /\ shown[i][d] + diff[s][d] <= curr[i][d]
          /\ cli[s].step > Saved(d) => shown[i][d] + diff[s][d] <= prev[i][d]
      BY <2>1, <2>2 DEF Covered
    <3>2. CASE cli[s].step = Saved(d)
      BY <2>4, <2>5, <3>1, <3>2
    <3>3. CASE cli[s].step # Saved(d)
      <4>1. prev'[i][d] = prev[i][d]
        BY <1>3, <2>4, <2>5, <3>3
      <4>2. cli'[s].step > Saved(d) => cli[s].step > Saved(d)
        BY <1>3, <2>1, <2>3, <3>3
      <4> QED
        BY <3>1, <4>1, <4>2
    <3> QED
      BY <3>2, <3>3
  <2>8. cli'[s].step # 0
    BY <2>1, <2>3
  <2> QED
    BY <2>1, <2>3, <2>6, <2>7, <2>8 DEF Covered
<1>14. CASE Show(s)
  <2>1. cli[s].step = 9 /\ UNCHANGED <<list, curr, prev>>
    BY <1>14, StepsAre DEF Show
  <2>2. PICK i \in Keys : i = Ip(s)
    BY <2>1, AtEntry
  <2>3. /\ \A c \in Counters : shown'[i][c] = shown[i][c] + diff[s][c]
        /\ \A j \in Keys \ {i} : shown'[j] = shown[j]
    BY <1>14, <2>2 DEF Show, Types
  <2>4. \A c \in Counters : diff'[s][c] = 0
    BY <1>14 DEF Show, Types, Zero
  <2>5. ASSUME NEW j \in Keys, NEW d \in Bytes
        PROVE  shown'[j][d] <= prev'[j][d] /\ prev'[j][d] <= curr'[j][d]
    <3>1. shown[j][d] <= prev[j][d] /\ prev[j][d] <= curr[j][d]
      BY DEF Covered
    <3>2. j = i => shown[j][d] + diff[s][d] <= prev[j][d]
      BY <1>3, <2>1, <2>2 DEF Covered
    <3> QED
      BY <1>3, <2>1, <2>3, <3>1, <3>2
  <2>6. cli'[s].step \in {0, 1}
    BY <1>14 DEF Show, Types
  <2>7. cli'[s].step # 0 => Ip(s)' \in Keys
    BY <1>1, <2>6 DEF Types, Ip
  <2>8. ASSUME NEW d \in Bytes, cli'[s].step # 0
        PROVE  shown'[Ip(s)'][d] + diff'[s][d] <= curr'[Ip(s)'][d]
    <3> PICK j \in Keys : j = Ip(s)'
      BY <2>7, <2>8
    <3>1. shown'[j][d] <= curr'[j][d] /\ diff'[s][d] = 0 /\ shown'[j][d] \in Nat
      <4>1. shown'[j][d] <= prev'[j][d] /\ prev'[j][d] <= curr'[j][d]
        BY <2>5
      <4> QED
        BY <1>2, <1>3, <2>4, <4>1
    <3> QED
      BY <3>1
  <2>9. \A c \in Bytes : ~(cli'[s].step > Saved(c))
    BY <1>3, <2>6
  <2> QED
    BY <1>3, <2>4, <2>5, <2>8, <2>9 DEF Covered
<1>15. \/ RxThread \/ Session(s) \/ UNCHANGED vars
  BY <1>1 DEF Next
<1> QED
  BY <1>7, <1>8, <1>9, <1>10, <1>12, <1>13, <1>14, <1>15
  DEF RxThread, wlan_ip_static_update_rx, wlan_ip_static_update_tx, Session

-----------------------------------------------------------------------------
(* The theorems.                                                           *)

\* The invariant holds at the start.
LEMMA IpInit ==
  ASSUME Init
  PROVE  IpInv
<1>1. Zero \in [Counters -> Nat] /\ \A c \in Counters : Zero[c] = 0
  BY DEF Zero
<1>2. [step |-> 0, pos |-> 1] \in Place
  BY StepsAre DEF Place
<1>3. Entered = {} /\ list = <<>> /\ Len(list) = 0
  BY DEF Init, Entered
<1>4. Types
  BY <1>1, <1>2, <1>3 DEF Init, Types
<1>5. Listed
  BY <1>3, MakeHolds DEF Init, Listed
<1>6. ASSUME NEW s \in Sessions PROVE Walked(s)
  <2>1. cli[s].step = 0 /\ old[s] = {} /\ seen[s] = <<>>
    BY DEF Init
  <2> QED
    BY <1>3, <2>1 DEF Walked
<1>7. ASSUME NEW s \in Sessions PROVE Covered(s)
  <2>1. /\ \A ip \in Keys, c \in Counters : curr[ip][c] = 0 /\ prev[ip][c] = 0 /\ shown[ip][c] = 0
        /\ \A c \in Counters : diff[s][c] = 0
        /\ cli[s].step = 0
    BY <1>1 DEF Init
  <2>2. \A c \in Bytes : c \in Counters /\ ~(0 > Saved(c))
    BY StepsAre DEF Saved
  <2> QED
    BY <2>1, <2>2 DEF Covered
<1> QED
  BY <1>4, <1>5, <1>6, <1>7 DEF IpInv

\* Each step keeps it.
LEMMA IpStep ==
  ASSUME IpInv, [Next]_vars
  PROVE  IpInv'
<1>1. Types' /\ Listed'
  BY TypesStep, ListedStep DEF IpInv
<1>2. \A s \in Sessions : Walked(s)'
  BY WalkedStep DEF IpInv
<1>3. OneSession => \A s \in Sessions : Covered(s)'
  BY CoveredStep DEF IpInv
<1>4. OneSession' <=> OneSession
  BY DEF OneSession
<1> QED
  BY <1>1, <1>2, <1>3, <1>4 DEF IpInv

\* IpInv is an invariant.
THEOREM IpInvariant == Spec => []IpInv
<1>1. Init => IpInv
  BY IpInit
<1>2. IpInv /\ [Next]_vars => IpInv'
  BY IpStep
<1> QED
  BY <1>1, <1>2, PTL DEF Spec

\* Counters are natural numbers; a session in an entry is at a step of it and
\* inside the list (wlan_ip_dump_static).
THEOREM IpTypes == Spec => []TypeOK
<1>1. IpInv => TypeOK
  <2> SUFFICES ASSUME IpInv PROVE TypeOK
    OBVIOUS
  <2>1. Types
    BY DEF IpInv
  <2>2. ASSUME NEW s \in Sessions
        PROVE  \/ cli[s].step = 0
               \/ cli[s].step \in 1 .. Len(Steps) + 1 /\ cli[s].pos \in DOMAIN list
    <3>1. cli[s].step \in 0 .. 9 /\ (cli[s].step # 0 => cli[s].pos \in DOMAIN list)
      BY <2>1, AtEntry DEF Types
    <3> QED
      BY <3>1, StepsAre
  <2> QED
    BY <2>1, <2>2 DEF TypeOK, Types
<1> QED
  BY <1>1, IpInvariant, PTL

\* Whatever IPs are entered, whatever they hash to and however often the
\* buckets double, uthash's own check passes and an IP is found if and only if
\* it was entered (HASH_ADD, HASH_EXPAND_BUCKETS, HASH_FIND).
THEOREM TableFinds == Spec => []TableAgrees
<1>1. IpInv => TableAgrees
  <2> SUFFICES ASSUME IpInv PROVE TableAgrees
    OBVIOUS
  <2>1. Entered \in SUBSET Keys /\ Holding(tbl, Entered) /\ Len(list) = tbl.num_items
    BY DEF IpInv, Types, Listed, Entered
  <2>2. HASH_FSCK(tbl, list)
    BY <2>1, FsckHolds
  <2>3. \A ip \in Keys : HASH_FIND(tbl, ip) <=> ip \in Entered
    BY <2>1, FindHeld
  <2> QED
    BY <2>2, <2>3 DEF TableAgrees
<1> QED
  BY <1>1, IpInvariant, PTL

\* A command shows each IP that was there when it began, and no IP twice,
\* whatever is entered meanwhile (wlan_ip_dump_static).
THEOREM EachIpShown == Spec => []EachIpOnce
<1>1. IpInv => EachIpOnce
  <2> SUFFICES ASSUME IpInv, NEW s \in Sessions
               PROVE  /\ \A x, y \in DOMAIN seen[s] : seen[s][x] = seen[s][y] => x = y
                      /\ cli[s].step = 0 => old[s] \subseteq {seen[s][x] : x \in DOMAIN seen[s]}
    BY DEF EachIpOnce
  <2>1. Walked(s) /\ Types /\ Listed
    BY DEF IpInv
  <2>2. \A x \in DOMAIN seen[s] : x \in DOMAIN list /\ seen[s][x] = list[x]
    BY <2>1 DEF Walked, Types
  <2>3. \A x, y \in DOMAIN list : list[x] = list[y] => x = y
    BY <2>1 DEF Listed
  <2>4. cli[s].step = 0 => old[s] \subseteq {seen[s][x] : x \in DOMAIN seen[s]}
    BY <2>1 DEF Walked
  <2> QED
    BY <2>2, <2>3, <2>4
<1> QED
  BY <1>1, IpInvariant, PTL

\* With one session, no byte is in the rates of two intervals, whenever bytes
\* arrive (show_throuthput).
THEOREM BytesShownOnce == Spec => []ByteRateOnce
<1>1. IpInv => ByteRateOnce
  <2> SUFFICES ASSUME IpInv, OneSession, NEW ip \in Keys, NEW c \in Bytes
               PROVE  shown[ip][c] <= prev[ip][c] /\ prev[ip][c] <= curr[ip][c]
    BY DEF ByteRateOnce, OneSession, Bytes
  <2>1. PICK s \in Sessions : Covered(s)
    BY DEF IpInv, OneSession
  <2> QED
    BY <2>1 DEF Covered
<1> QED
  BY <1>1, IpInvariant, PTL
=============================================================================
