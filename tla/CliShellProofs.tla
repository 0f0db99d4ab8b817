--------------------------- MODULE CliShellProofs ---------------------------
(***************************************************************************)
(* Proofs about the commands of a session of libcli: a pipeline of filters *)
(* that keep their state from line to line gives out what each filter,     *)
(* applied to the whole of what comes to it, lets through; and whatever    *)
(* lines are entered, completed, built and executed, the abbreviations are *)
(* those of the mode and the privilege, and a buildmode adds its commands  *)
(* behind those of the application and takes them away again.              *)
(***************************************************************************)
EXTENDS CliShell, SequenceTheorems, FiniteSetTheorems, TLAPS

-----------------------------------------------------------------------------
(* Induction and recursion.                                                *)

\* A set of natural numbers has a least element.
LEMMA NatMin ==
  ASSUME NEW S \in SUBSET Nat, S # {}
  PROVE  \E m \in S : \A k \in S : m <= k
<1> DEFINE R == OpToRel(<, Nat)
<1>1. IsWellFoundedOn(R, Nat)
  BY NatLessThanWellFounded
<1>2. PICK m \in S : \A k \in S : ~ (<<k, m>> \in R)
  <2> HIDE DEF R
  <2> QED
    BY <1>1, WFMin
<1>3. \A k \in S : k < m => <<k, m>> \in R
  BY DEF OpToRel
<1> HIDE DEF R
<1>4. \A k \in S : m <= k
  <2> TAKE k \in S
  <2>1. k \in Nat /\ m \in Nat
    OBVIOUS
  <2>2. ~ (k < m)
    BY <1>2, <1>3
  <2> QED
    BY <2>1, <2>2
<1> QED
  BY <1>4

\* Induction over a set: a first-order form of the principle.
LEMMA NatInd ==
  ASSUME NEW S, 0 \in S, \A n \in Nat : n \in S => n + 1 \in S
  PROVE  \A n \in Nat : n \in S
<1> SUFFICES ASSUME Nat \ S # {} PROVE FALSE
  OBVIOUS
<1>1. PICK m \in Nat \ S : \A k \in Nat \ S : m <= k
  BY NatMin
<1>2. m # 0
  OBVIOUS
<1>3. m - 1 \in Nat /\ m - 1 < m /\ (m - 1) + 1 = m
  BY <1>2
<1>4. m - 1 \in S
  BY <1>1, <1>3
<1> QED
  BY <1>3, <1>4

\* Induction up to a bound.
LEMMA BoundedInd ==
  ASSUME NEW m \in Nat, NEW S, 0 \in S, \A n \in 0 .. m - 1 : n \in S => n + 1 \in S
  PROVE  \A n \in 0 .. m : n \in S
<1> DEFINE T == {n \in Nat : n <= m => n \in S}
<1>1. 0 \in T
  OBVIOUS
<1>2. \A n \in Nat : n \in T => n + 1 \in T
  OBVIOUS
<1> HIDE DEF T
<1>3. \A n \in Nat : n \in T
  BY <1>1, <1>2, NatInd
<1> QED
  BY <1>3 DEF T

-----------------------------------------------------------------------------
\* A function on 0 .. n is given by its first value and what takes each value
\* to the next.
Rule(G, n, D) == G \in [1 .. n -> [D -> D]]

Iterates(f, G, n, D, d) ==
  /\ f \in [0 .. n -> D]
  /\ f[0] = d
  /\ \A m \in 1 .. n : f[m] = G[m][f[m - 1]]

\* There is a function that follows a rule which stays within D.
LEMMA Recursion ==
  ASSUME NEW n \in Nat, NEW D, NEW d \in D, NEW G, Rule(G, n, D)
  PROVE  \E f : Iterates(f, G, n, D, d)
<1> USE DEF Rule, Iterates
<1> DEFINE Follows(f, k) == f[0] = d /\ \A m \in 1 .. k : f[m] = G[m][f[m - 1]]
           S == {k \in 0 .. n : \E f \in [0 .. n -> D] : Follows(f, k)}
<1>1. 0 \in S
  <2> DEFINE f == [m \in 0 .. n |-> d]
  <2>1. f \in [0 .. n -> D] /\ Follows(f, 0)
    OBVIOUS
  <2> HIDE DEF f, Follows
  <2> QED
    BY <2>1
<1>2. ASSUME NEW k \in 0 .. n - 1, k \in S PROVE k + 1 \in S
  <2>1. PICK f \in [0 .. n -> D] : Follows(f, k)
    BY <1>2
  <2> DEFINE g == [f EXCEPT ![k + 1] = G[k + 1][f[k]]]
  <2>2. k + 1 \in 1 .. n /\ k \in 0 .. n
    OBVIOUS
  <2>3. G[k + 1][f[k]] \in D
    BY <2>2
  <2>4. /\ g \in [0 .. n -> D]
        /\ g[k + 1] = G[k + 1][f[k]]
        /\ \A m \in 0 .. k : g[m] = f[m]
    BY <2>2, <2>3
  <2> HIDE DEF g
  <2>5. ASSUME NEW m \in 1 .. k + 1 PROVE g[m] = G[m][g[m - 1]]
    <3>1. CASE m = k + 1
      <4>1. m - 1 = k /\ k \in 0 .. k
        BY <3>1
      <4> QED
        BY <2>4, <3>1, <4>1
    <3>2. CASE m # k + 1
      <4>1. m \in 1 .. k /\ m \in 0 .. k /\ m - 1 \in 0 .. k
        BY <3>2
      <4> QED
        BY <2>1, <2>4, <4>1
    <3> QED
      BY <3>1, <3>2
  <2>6. g[0] = d
    BY <2>1, <2>4
  <2>7. Follows(g, k + 1)
    BY <2>5, <2>6
  <2> HIDE DEF Follows
  <2> QED
    BY <2>2, <2>4, <2>7
<1>3. n \in S
  <2> HIDE DEF S
  <2>1. \A k \in 0 .. n : k \in S
    BY <1>1, <1>2, BoundedInd
  <2> QED
    BY <2>1
<1> QED
  BY <1>3

\* What each value passes on to the next, all have.
LEMMA Passed ==
  ASSUME NEW n \in Nat, NEW D, NEW f, f[0] \in D,
         \A m \in 1 .. n : f[m - 1] \in D => f[m] \in D
  PROVE  \A m \in 0 .. n : f[m] \in D
<1> DEFINE S == {m \in 0 .. n : f[m] \in D}
<1>1. 0 \in S
  OBVIOUS
<1>2. \A m \in 0 .. n - 1 : m \in S => m + 1 \in S
  OBVIOUS
<1> HIDE DEF S
<1>3. \A m \in 0 .. n : m \in S
  BY <1>1, <1>2, BoundedInd
<1> QED
  BY <1>3 DEF S

-----------------------------------------------------------------------------
(* What one filter does with a line.                                       *)

Kinds == {"match", "range", "count"}

\* The filter lets the line at n through.
KeepAt(f, text, n) == CASE f.kind = "match" -> Contains(text[n], f.pattern) # f.invert
                        [] f.kind = "range" -> InRange(f, text, n)
                        [] f.kind = "count" -> FALSE

IsKept(k, f, text) ==
  k = [n \in 0 .. Len(text) |->
         IF n = 0 THEN <<>>
         ELSE IF KeepAt(f, text, n) THEN Append(k[n - 1], text[n]) ELSE k[n - 1]]

\* The recursive definition of Kept has a solution.
LEMMA KeptExists ==
  ASSUME NEW Y, NEW text \in Seq(Y), NEW f
  PROVE  \E k : IsKept(k, f, text)
<1> DEFINE n == Len(text)
           D == Seq(Y)
           G == [m \in 1 .. n |-> [s \in D |-> IF KeepAt(f, text, m) THEN Append(s, text[m]) ELSE s]]
<1>1. n \in Nat /\ <<>> \in D /\ \A m \in 1 .. n : text[m] \in Y
  OBVIOUS
<1>2. \A m \in 1 .. n, s \in D : (IF KeepAt(f, text, m) THEN Append(s, text[m]) ELSE s) \in D
  BY <1>1, AppendProperties
<1>3. G \in [1 .. n -> [D -> D]]
  BY <1>2
<1>4. \A m \in 1 .. n, s \in D :
        G[m][s] = IF KeepAt(f, text, m) THEN Append(s, text[m]) ELSE s
  OBVIOUS
<1> HIDE DEF D, G, n
<1>4a. Rule(G, n, D)
  BY <1>3 DEF Rule
<1>4b. PICK k : Iterates(k, G, n, D, <<>>)
  BY <1>1, <1>4a, Recursion
<1>5. k \in [0 .. n -> D] /\ k[0] = <<>> /\ \A m \in 1 .. n : k[m] = G[m][k[m - 1]]
  BY <1>4b DEF Iterates
<1>6. ASSUME NEW m \in 0 .. n
      PROVE  k[m] = IF m = 0 THEN <<>>
                    ELSE IF KeepAt(f, text, m) THEN Append(k[m - 1], text[m]) ELSE k[m - 1]
  <2>1. CASE m = 0
    BY <1>5, <2>1
  <2>2. CASE m # 0
    <3>1. m \in 1 .. n /\ m - 1 \in 0 .. n
      BY <1>1, <2>2
    <3>2. k[m - 1] \in D
      BY <1>5, <3>1
    <3> QED
      BY <1>4, <1>5, <2>2, <3>1, <3>2
  <2> QED
    BY <2>1, <2>2
<1>7. IsKept(k, f, text)
  <2>1. k = [m \in 0 .. n |-> k[m]]
    BY <1>5
  <2> QED
    BY <1>6, <2>1 DEF IsKept, n
<1> QED
  BY <1>7

KeptOf(f, text) == CHOOSE k : IsKept(k, f, text)

\* What is kept of the first lines, the lines of the text one by one.
Keeps(k, f, text) ==
  /\ k[0] = <<>>
  /\ \A m \in 1 .. Len(text) :
       k[m] = IF KeepAt(f, text, m) THEN Append(k[m - 1], text[m]) ELSE k[m - 1]

\* What a filter keeps of a text, line by line.
LEMMA KeptIs ==
  ASSUME NEW Y, NEW text \in Seq(Y), NEW f
  PROVE  /\ Kept(f, text) = KeptOf(f, text)[Len(text)]
         /\ Keeps(KeptOf(f, text), f, text)
<1>1. IsKept(KeptOf(f, text), f, text)
  BY KeptExists DEF KeptOf
<1>2. Kept(f, text) = KeptOf(f, text)[Len(text)]
  BY DEF Kept, KeptOf, IsKept, KeepAt
<1> DEFINE k == KeptOf(f, text)
<1> HIDE DEF k
<1>3. IsKept(k, f, text)
  BY <1>1 DEF k
<1>4. Len(text) \in Nat
  OBVIOUS
<1>5. \A m \in 0 .. Len(text) :
        k[m] = IF m = 0 THEN <<>>
               ELSE IF KeepAt(f, text, m) THEN Append(k[m - 1], text[m]) ELSE k[m - 1]
  BY <1>3 DEF IsKept
<1>6. 0 \in 0 .. Len(text) /\ \A m \in 1 .. Len(text) : m \in 0 .. Len(text) /\ m # 0
  BY <1>4
<1>7. Keeps(k, f, text)
  BY <1>5, <1>6 DEF Keeps
<1> QED
  BY <1>2, <1>7 DEF k

\* What a filter keeps are lines of the text.
LEMMA KeptTyped ==
  ASSUME NEW Y, NEW text \in Seq(Y), NEW f
  PROVE  \A m \in 0 .. Len(text) : KeptOf(f, text)[m] \in Seq(Y)
<1> DEFINE k == KeptOf(f, text)
<1>0. Keeps(k, f, text)
  BY KeptIs
<1>1. k[0] \in Seq(Y)
  BY <1>0 DEF Keeps
<1>2. ASSUME NEW m \in 1 .. Len(text), k[m - 1] \in Seq(Y) PROVE k[m] \in Seq(Y)
  <2>1. text[m] \in Y
    OBVIOUS
  <2>2. Append(k[m - 1], text[m]) \in Seq(Y)
    BY <1>2, <2>1, AppendProperties
  <2> QED
    BY <1>0, <1>2, <2>2 DEF Keeps
<1> HIDE DEF k
<1>3. Len(text) \in Nat
  OBVIOUS
<1>4. \A m \in 0 .. Len(text) : k[m] \in Seq(Y)
  BY <1>1, <1>2, <1>3, Passed
<1> QED
  BY <1>4 DEF k

\* What is kept of a text with one more line.
LEMMA KeptAppend ==
  ASSUME NEW Y, NEW text \in Seq(Y), NEW f, NEW line \in Y,
         NEW u, u = Append(text, line)
  PROVE  Kept(f, u) = IF KeepAt(f, u, Len(text) + 1)
                      THEN Append(Kept(f, text), line) ELSE Kept(f, text)
<1> DEFINE n == Len(text)
           k == KeptOf(f, text)
           h == KeptOf(f, u)
<1>1. /\ u \in Seq(Y) /\ Len(u) = n + 1 /\ n \in Nat
      /\ u[n + 1] = line /\ \A m \in 1 .. n : u[m] = text[m]
  BY AppendProperties
<1>2. \A m \in 1 .. n : KeepAt(f, u, m) = KeepAt(f, text, m)
  <2> TAKE m \in 1 .. n
  <2>1. \A x \in 1 .. m : u[x] = text[x]
    BY <1>1
  <2>2. InRange(f, u, m) = InRange(f, text, m)
    <3>1. \A s \in 1 .. m : \A x \in s .. m - 1 : u[x] = text[x]
      BY <1>1
    <3> QED
      BY <2>1, <3>1 DEF InRange
  <2>3. u[m] = text[m]
    BY <1>1
  <2> QED
    BY <2>2, <2>3 DEF KeepAt
<1>2a. Keeps(k, f, text) /\ Keeps(h, f, u)
  BY <1>1, KeptIs
<1>2b. Kept(f, u) = h[n + 1] /\ Kept(f, text) = k[n]
  BY <1>1, KeptIs
<1> HIDE DEF k, h
<1>3. \A m \in 0 .. n : h[m] = k[m]
  <2> DEFINE S == {m \in 0 .. n : h[m] = k[m]}
  <2>1. 0 \in S
    BY <1>1, <1>2a DEF Keeps
  <2>2. ASSUME NEW m \in 0 .. n - 1, m \in S PROVE m + 1 \in S
    <3>1. m + 1 \in 1 .. n /\ m + 1 \in 1 .. n + 1 /\ (m + 1) - 1 = m
      BY <1>1
    <3>2. k[m + 1] = IF KeepAt(f, text, m + 1) THEN Append(k[m], text[m + 1]) ELSE k[m]
      BY <1>2a, <3>1 DEF Keeps
    <3>3. h[m + 1] = IF KeepAt(f, u, m + 1) THEN Append(h[m], u[m + 1]) ELSE h[m]
      BY <1>1, <1>2a, <3>1 DEF Keeps
    <3>4. h[m] = k[m]
      BY <2>2
    <3> QED
      BY <1>1, <1>2, <3>1, <3>2, <3>3, <3>4
  <2> HIDE DEF S
  <2>3. \A m \in 0 .. n : m \in S
    BY <1>1, <2>1, <2>2, BoundedInd
  <2> QED
    BY <2>3 DEF S
<1>4. h[n + 1] = IF KeepAt(f, u, n + 1) THEN Append(h[n], u[n + 1]) ELSE h[n]
  <2>1. n + 1 \in 1 .. n + 1 /\ (n + 1) - 1 = n
    BY <1>1
  <2> QED
    BY <1>1, <1>2a, <2>1 DEF Keeps
<1>6. h[n] = k[n]
  BY <1>1, <1>3
<1> QED
  BY <1>1, <1>2b, <1>4, <1>6

-----------------------------------------------------------------------------
(* What a filter keeps from line to line.                                  *)

\* The line ends the range.
Closes(f, line) == \E to \in f.to : Contains(line, to)

\* A range that begins in the text is still open after it.
Open(f, text) ==
  \E s \in 1 .. Len(text) :
    Contains(text[s], f.from) /\ \A x \in s .. Len(text) : ~Closes(f, text[x])

Number(text) == Cardinality({n \in DOMAIN text : text[n] # {}})

DataFor(f, text) == CASE f.kind = "match" -> TRUE
                      [] f.kind = "range" -> Open(f, text)
                      [] f.kind = "count" -> Number(text)

\* A line that is not empty counts.
LEMMA NumberAppend ==
  ASSUME NEW Y, NEW text \in Seq(Y), NEW line \in Y
  PROVE  Number(Append(text, line)) = IF line = {} THEN Number(text) ELSE Number(text) + 1
<1> DEFINE n == Len(text)
           u == Append(text, line)
           A == {m \in DOMAIN text : text[m] # {}}
           B == {m \in DOMAIN u : u[m] # {}}
<1>1. /\ DOMAIN text = 1 .. n /\ DOMAIN u = 1 .. n + 1 /\ n \in Nat
      /\ u[n + 1] = line /\ \A m \in 1 .. n : u[m] = text[m]
  BY AppendProperties
<1> HIDE DEF u, n
<1>2. B = IF line = {} THEN A ELSE A \cup {n + 1}
  <2>1. \A m \in 1 .. n + 1 : m = n + 1 \/ m \in 1 .. n
    BY <1>1
  <2>2. n + 1 \in 1 .. n + 1 /\ 1 .. n \subseteq 1 .. n + 1
    BY <1>1
  <2> QED
    BY <1>1, <2>1, <2>2
<1>3. n + 1 \notin A
  BY <1>1
<1>4. IsFiniteSet(A)
  <2>1. A \subseteq 1 .. n /\ IsFiniteSet(1 .. n)
    BY <1>1, FS_Interval
  <2> QED
    BY <2>1, FS_Subset
<1> HIDE DEF A, B
<1>5. Cardinality(B) = IF line = {} THEN Cardinality(A) ELSE Cardinality(A) + 1
  BY <1>2, <1>3, <1>4, FS_AddElement
<1> QED
  BY <1>5 DEF Number, A, B, u

\* A range is open at a line if it was open before it, or begins with it.
LEMMA OpenAppend ==
  ASSUME NEW Y, NEW text \in Seq(Y), NEW line \in Y, NEW u, u = Append(text, line), NEW f
  PROVE  /\ InRange(f, u, Len(text) + 1) <=> (Open(f, text) \/ Contains(line, f.from))
         /\ Open(f, u) <=> InRange(f, u, Len(text) + 1) /\ ~Closes(f, line)
<1> DEFINE n == Len(text)
<1>1. /\ n \in Nat /\ Len(u) = n + 1
      /\ u[n + 1] = line /\ \A m \in 1 .. n : u[m] = text[m]
  BY AppendProperties
<1> HIDE DEF n
<1>2. ASSUME NEW s \in 1 .. n
      PROVE  /\ s \in 1 .. n + 1 /\ u[s] = text[s]
             /\ \A x \in s .. n : u[x] = text[x]
             /\ s .. (n + 1) - 1 = s .. n
  BY <1>1
<1>3. /\ 1 .. n + 1 = (1 .. n) \cup {n + 1}
      /\ (n + 1) .. (n + 1) - 1 = {}
      /\ n + 1 \in 1 .. n + 1
  BY <1>1
<1>4. InRange(f, u, n + 1) <=> (Open(f, text) \/ Contains(line, f.from))
  <2>1. ASSUME NEW s \in 1 .. n + 1, Contains(u[s], f.from),
               \A k \in s .. (n + 1) - 1 : ~Closes(f, u[k])
        PROVE  Open(f, text) \/ Contains(line, f.from)
    <3>1. CASE s = n + 1
      BY <1>1, <2>1, <3>1
    <3>2. CASE s \in 1 .. n
      <4>1. Contains(text[s], f.from) /\ \A x \in s .. n : ~Closes(f, text[x])
        BY <1>2, <2>1, <3>2
      <4> QED
        BY <3>2, <4>1 DEF Open, n
    <3> QED
      BY <1>3, <3>1, <3>2
  <2>2. ASSUME Open(f, text) PROVE InRange(f, u, n + 1)
    <3>1. PICK s \in 1 .. n : Contains(text[s], f.from) /\ \A x \in s .. n : ~Closes(f, text[x])
      BY <2>2 DEF Open, n
    <3>2. s \in 1 .. n + 1 /\ Contains(u[s], f.from) /\ \A x \in s .. (n + 1) - 1 : ~Closes(f, u[x])
      BY <1>2, <3>1
    <3> QED
      BY <3>2 DEF InRange, Closes
  <2>3. ASSUME Contains(line, f.from) PROVE InRange(f, u, n + 1)
    <3>1. Contains(u[n + 1], f.from) /\ \A x \in (n + 1) .. (n + 1) - 1 : ~Closes(f, u[x])
      BY <1>1, <1>3, <2>3
    <3> QED
      BY <1>3, <3>1 DEF InRange, Closes
  <2> QED
    BY <2>1, <2>2, <2>3 DEF InRange, Closes
<1>5. Open(f, u) <=> InRange(f, u, n + 1) /\ ~Closes(f, line)
  <2> DEFINE D(s) == Contains(u[s], f.from)
             C(k) == Closes(f, u[k])
  <2>1. /\ Open(f, u) <=> \E s \in 1 .. n + 1 : D(s) /\ \A k \in s .. n + 1 : ~C(k)
        /\ InRange(f, u, n + 1) <=>
             \E s \in 1 .. n + 1 : D(s) /\ \A k \in s .. (n + 1) - 1 : ~C(k)
        /\ Closes(f, line) = C(n + 1)
    <3>1. Open(f, u) <=> \E s \in 1 .. n + 1 : D(s) /\ \A k \in s .. n + 1 : ~C(k)
      BY <1>1 DEF Open
    <3>2. InRange(f, u, n + 1) <=>
            \E s \in 1 .. n + 1 : D(s) /\ \A k \in s .. (n + 1) - 1 : ~C(k)
      BY DEF InRange, Closes
    <3> QED
      BY <1>1, <3>1, <3>2
  <2> HIDE DEF D, C
  <2>2. ASSUME NEW s \in 1 .. n + 1
        PROVE  (\A k \in s .. n + 1 : ~C(k)) <=> (\A k \in s .. (n + 1) - 1 : ~C(k)) /\ ~C(n + 1)
    <3>1. s .. n + 1 = (s .. (n + 1) - 1) \cup {n + 1}
      BY <1>1
    <3> QED
      BY <3>1
  <2> QED
    BY <2>1, <2>2
<1> QED
  BY <1>4, <1>5 DEF n

Faithful(f, text, line, u) ==
  /\ Through(f, line, DataFor(f, text)).pass <=> KeepAt(f, u, Len(text) + 1)
  /\ Through(f, line, DataFor(f, text)).data = DataFor(f, u)

\* A filter that kept what the text before the line leaves lets the line
\* through if it keeps it in the whole text.
LEMMA ThroughIs ==
  ASSUME NEW Y, NEW text \in Seq(Y), NEW line \in Y, NEW u, u = Append(text, line),
         NEW f, f.kind \in Kinds
  PROVE  Faithful(f, text, line, u)
<1> USE DEF Faithful
<1>1. u[Len(text) + 1] = line
  BY AppendProperties
<1>2. CASE f.kind = "match"
  BY <1>1, <1>2 DEF Through, cli_match_filter, DataFor, KeepAt
<1>3. CASE f.kind = "range"
  <2>1. DataFor(f, text) = Open(f, text) /\ DataFor(f, u) = Open(f, u)
    BY <1>3 DEF DataFor
  <2>2. /\ Through(f, line, Open(f, text)).pass = (Open(f, text) \/ Contains(line, f.from))
        /\ Through(f, line, Open(f, text)).data =
             ((Open(f, text) \/ Contains(line, f.from)) /\ ~Closes(f, line))
    BY <1>3 DEF Through, cli_range_filter, Closes
  <2>3. KeepAt(f, u, Len(text) + 1) <=> InRange(f, u, Len(text) + 1)
    BY <1>3 DEF KeepAt
  <2>4. Open(f, u) \in BOOLEAN
    BY DEF Open
  <2> QED
    BY <2>1, <2>2, <2>3, <2>4, OpenAppend
<1>4. CASE f.kind = "count"
  BY <1>4, NumberAppend DEF Through, cli_count_filter, DataFor, KeepAt
<1> QED
  BY <1>2, <1>3, <1>4 DEF Kinds

-----------------------------------------------------------------------------
(* What each filter gets: the whole of what the ones before it let through.*)

IsPiped(p, chain, text) ==
  p = [n \in 0 .. Len(chain) |-> IF n = 0 THEN text ELSE Kept(chain[n], p[n - 1])]

PipedOf(chain, text) == CHOOSE p : IsPiped(p, chain, text)

Pipes(p, chain, text) ==
  /\ p[0] = text
  /\ \A n \in 1 .. Len(chain) : p[n] = Kept(chain[n], p[n - 1])

\* What a filter keeps of a text is a text.
LEMMA KeptSeq ==
  ASSUME NEW Y, NEW text \in Seq(Y), NEW f
  PROVE  Kept(f, text) \in Seq(Y)
<1>1. Len(text) \in 0 .. Len(text)
  OBVIOUS
<1> QED
  BY <1>1, KeptIs, KeptTyped

\* The texts between the filters of a chain exist.
LEMMA PipedExists ==
  ASSUME NEW X, NEW chain \in Seq(X), NEW Y, NEW text \in Seq(Y)
  PROVE  \E p : IsPiped(p, chain, text)
<1> DEFINE n == Len(chain)
           D == Seq(Y)
           G == [m \in 1 .. n |-> [s \in D |-> Kept(chain[m], s)]]
<1>1. n \in Nat /\ text \in D
  OBVIOUS
<1>2. \A m \in 1 .. n, s \in D : Kept(chain[m], s) \in D
  BY KeptSeq
<1> HIDE DEF D, n
<1>3. Rule(G, n, D)
  BY <1>2 DEF Rule
<1>4. \A m \in 1 .. n, s \in D : G[m][s] = Kept(chain[m], s)
  OBVIOUS
<1> HIDE DEF G
<1>5. PICK p : Iterates(p, G, n, D, text)
  BY <1>1, <1>3, Recursion
<1>6. p \in [0 .. n -> D] /\ p[0] = text /\ \A m \in 1 .. n : p[m] = G[m][p[m - 1]]
  BY <1>5 DEF Iterates
<1>7. ASSUME NEW m \in 0 .. n
      PROVE  p[m] = IF m = 0 THEN text ELSE Kept(chain[m], p[m - 1])
  <2>1. CASE m = 0
    BY <1>6, <2>1
  <2>2. CASE m # 0
    <3>1. m \in 1 .. n /\ m - 1 \in 0 .. n
      BY <1>1, <2>2
    <3>2. p[m - 1] \in D
      BY <1>6, <3>1
    <3> QED
      BY <1>4, <1>6, <2>2, <3>1, <3>2
  <2> QED
    BY <2>1, <2>2
<1>8. IsPiped(p, chain, text)
  <2>1. p = [m \in 0 .. n |-> p[m]]
    BY <1>6
  <2> QED
    BY <1>7, <2>1 DEF IsPiped, n
<1> QED
  BY <1>8

\* The equations of the pipeline, and the types.
LEMMA PipedIs ==
  ASSUME NEW X, NEW chain \in Seq(X), NEW Y, NEW text \in Seq(Y)
  PROVE  /\ Pipes(PipedOf(chain, text), chain, text)
         /\ \A n \in 0 .. Len(chain) : PipedOf(chain, text)[n] \in Seq(Y)
<1> DEFINE p == PipedOf(chain, text)
<1>1. IsPiped(p, chain, text)
  BY PipedExists DEF PipedOf
<1> HIDE DEF p
<1>2. Len(chain) \in Nat
  OBVIOUS
<1>3. \A m \in 0 .. Len(chain) : p[m] = IF m = 0 THEN text ELSE Kept(chain[m], p[m - 1])
  BY <1>1 DEF IsPiped
<1>4. 0 \in 0 .. Len(chain) /\ \A m \in 1 .. Len(chain) : m \in 0 .. Len(chain) /\ m # 0
  BY <1>2
<1>5. Pipes(p, chain, text)
  BY <1>3, <1>4 DEF Pipes
<1>6. p[0] \in Seq(Y)
  BY <1>5 DEF Pipes
<1>7. \A m \in 1 .. Len(chain) : p[m - 1] \in Seq(Y) => p[m] \in Seq(Y)
  BY <1>5, KeptSeq DEF Pipes
<1>8. \A m \in 0 .. Len(chain) : p[m] \in Seq(Y)
  BY <1>2, <1>6, <1>7, Passed
<1> QED
  BY <1>5, <1>8 DEF p

\* The line goes as far as filter n.
Extends(q, p, line, n) == q[n] = Append(p[n], line)

\* The line is kept by filter n, or not, or did not come so far.
Grows(chain, p, q, line, n) ==
  IF Extends(q, p, line, n - 1) /\ KeepAt(chain[n], q[n - 1], Len(p[n - 1]) + 1)
  THEN Extends(q, p, line, n)
  ELSE q[n] = p[n]

\* A further line reaches each filter or leaves what it gets as it was.
LEMMA PipedAppend ==
  ASSUME NEW X, NEW chain \in Seq(X), NEW Y, NEW text \in Seq(Y), NEW line \in Y,
         NEW u, u = Append(text, line),
         NEW p, p = PipedOf(chain, text), NEW q, q = PipedOf(chain, u)
  PROVE  /\ Extends(q, p, line, 0)
         /\ \A n \in 1 .. Len(chain) : Grows(chain, p, q, line, n)
<1>1. u \in Seq(Y)
  BY AppendProperties
<1>2. /\ Pipes(p, chain, text) /\ Pipes(q, chain, u)
      /\ \A n \in 0 .. Len(chain) : p[n] \in Seq(Y)
  BY <1>1, PipedIs
<1>3. Len(chain) \in Nat
  OBVIOUS
<1>4. Extends(q, p, line, 0)
  BY <1>2 DEF Pipes, Extends
<1>5. ASSUME NEW n \in 1 .. Len(chain)
      PROVE  /\ n - 1 \in 0 .. Len(chain) /\ p[n - 1] \in Seq(Y)
             /\ p[n] = Kept(chain[n], p[n - 1]) /\ q[n] = Kept(chain[n], q[n - 1])
  <2>1. n - 1 \in 0 .. Len(chain)
    BY <1>3
  <2> QED
    BY <1>2, <2>1 DEF Pipes
<1>6. ASSUME NEW n \in 1 .. Len(chain), Extends(q, p, line, n - 1)
      PROVE  IF KeepAt(chain[n], q[n - 1], Len(p[n - 1]) + 1)
             THEN Extends(q, p, line, n) ELSE q[n] = p[n]
  <2>1. Kept(chain[n], q[n - 1]) =
          IF KeepAt(chain[n], q[n - 1], Len(p[n - 1]) + 1)
          THEN Append(Kept(chain[n], p[n - 1]), line) ELSE Kept(chain[n], p[n - 1])
    <3>1. \A s \in Seq(Y) : \A v : v = Append(s, line) =>
            Kept(chain[n], v) = IF KeepAt(chain[n], v, Len(s) + 1)
                                THEN Append(Kept(chain[n], s), line) ELSE Kept(chain[n], s)
      BY KeptAppend
    <3> QED
      BY <1>5, <1>6, <3>1 DEF Extends
  <2> QED
    BY <1>5, <2>1 DEF Extends
<1>7. ASSUME NEW n \in 1 .. Len(chain), ~Extends(q, p, line, n - 1)
      PROVE  q[n] = p[n]
  <2> DEFINE S == {m \in 0 .. Len(chain) : Extends(q, p, line, m) \/ q[m] = p[m]}
  <2>1. 0 \in S
    BY <1>3, <1>4
  <2>2. ASSUME NEW m \in 0 .. Len(chain) - 1, m \in S PROVE m + 1 \in S
    <3>1. m + 1 \in 1 .. Len(chain) /\ m + 1 \in 0 .. Len(chain) /\ (m + 1) - 1 = m
      BY <1>3
    <3>2. CASE Extends(q, p, line, m)
      BY <1>6, <3>1, <3>2
    <3>3. CASE q[m] = p[m]
      BY <1>5, <3>1, <3>3
    <3> QED
      BY <2>2, <3>2, <3>3
  <2> HIDE DEF S
  <2>3. \A m \in 0 .. Len(chain) : m \in S
    BY <1>3, <2>1, <2>2, BoundedInd
  <2>4. n - 1 \in S
    BY <1>5, <2>3
  <2>5. q[n - 1] = p[n - 1]
    BY <1>7, <2>4 DEF S
  <2> QED
    BY <1>5, <2>5
<1> QED
  BY <1>4, <1>6, <1>7 DEF Grows

-----------------------------------------------------------------------------
(* One line through the pipeline.                                          *)

\* The state of the pipeline after it printed a text.
StateOf(chain, text) ==
  [data |-> [i \in DOMAIN chain |-> DataFor(chain[i], PipedOf(chain, text)[i - 1])],
   out |-> PipedOf(chain, text)[Len(chain)]]

\* What has been done with the line before filter n + 1.
RunStep(r, chain, line, n) ==
  LET before == r[n - 1]
      now == Through(chain[n], line, before.data[n])
  IN IF before.print
     THEN [print |-> before.print /\ now.pass,
           data |-> [before.data EXCEPT ![n] = now.data]]
     ELSE before

IsRun(r, chain, st, line) ==
  r = [n \in 0 .. Len(chain) |->
         IF n = 0 THEN [print |-> TRUE, data |-> st.data] ELSE RunStep(r, chain, line, n)]

RunOf(chain, st, line) == CHOOSE r : IsRun(r, chain, st, line)

\* A line is printed by the run through the filters.
LEMMA PrintLineIs ==
  ASSUME NEW chain, NEW st, NEW line
  PROVE  PrintLine(chain, st, line) =
           LET after == RunOf(chain, st, line)[Len(chain)]
           IN [data |-> after.data,
               out |-> IF after.print THEN Append(st.out, line) ELSE st.out]
BY DEF PrintLine, RunOf, IsRun, RunStep, Goes

\* The data when the line has gone through the first n filters.
HalfWay(chain, p, q, n) ==
  [i \in DOMAIN chain |-> IF i <= n THEN DataFor(chain[i], q[i - 1]) ELSE DataFor(chain[i], p[i - 1])]

RunAt(chain, p, q, line, n) ==
  [print |-> q[n] = Append(p[n], line), data |-> HalfWay(chain, p, q, n)]

Came(r, chain, p, q, line, n) == r[n] = RunAt(chain, p, q, line, n)

\* A pipeline of filters, and a line after a text.
OneMore(X, chain, Y, text, line, u, p, q) ==
  /\ chain \in Seq(X) /\ \A i \in DOMAIN chain : chain[i].kind \in Kinds
  /\ text \in Seq(Y) /\ line \in Y
  /\ u = Append(text, line)
  /\ p = PipedOf(chain, text) /\ q = PipedOf(chain, u)

\* A filter takes the line, if it comes so far, and its data to the next.
LEMMA RunGoes ==
  ASSUME NEW X, NEW chain, NEW Y, NEW text, NEW line, NEW u, NEW p, NEW q,
         OneMore(X, chain, Y, text, line, u, p, q),
         NEW n \in 1 .. Len(chain), NEW r, Came(r, chain, p, q, line, n - 1)
  PROVE  RunStep(r, chain, line, n) = RunAt(chain, p, q, line, n)
<1> DEFINE b == RunAt(chain, p, q, line, n - 1)
           now == Through(chain[n], line, b.data[n])
           f == chain[n]
<1>0. r[n - 1] = b
  BY DEF Came
<1> USE DEF OneMore
<1>1. /\ Len(chain) \in Nat /\ DOMAIN chain = 1 .. Len(chain) /\ n \in DOMAIN chain
      /\ n - 1 \in 0 .. Len(chain) /\ ~(n <= n - 1) /\ f.kind \in Kinds
  OBVIOUS
<1>2. p[n - 1] \in Seq(Y) /\ p[n] \in Seq(Y)
  BY <1>1, PipedIs
<1>3. b.print = Extends(q, p, line, n - 1) /\ b.data = HalfWay(chain, p, q, n - 1)
  BY DEF RunAt, Extends
<1>4. b.data[n] = DataFor(f, p[n - 1])
  BY <1>1, <1>3 DEF HalfWay
<1>5. \A i \in DOMAIN chain : i # n => (i <= n - 1 <=> i <= n)
  BY <1>1
<1>6. IF Extends(q, p, line, n - 1) /\ KeepAt(f, q[n - 1], Len(p[n - 1]) + 1)
      THEN Extends(q, p, line, n) ELSE q[n] = p[n]
  <2>1. Grows(chain, p, q, line, n)
    BY PipedAppend
  <2> QED
    BY <2>1 DEF Grows
<1>7. q[n] = p[n] => ~Extends(q, p, line, n)
  <2>1. Len(Append(p[n], line)) # Len(p[n])
    BY <1>2
  <2> QED
    BY <2>1 DEF Extends
<1> HIDE DEF b
<1>8. CASE Extends(q, p, line, n - 1)
  <2>0. \A s \in Seq(Y) : \A v : v = Append(s, line) => Faithful(f, s, line, v)
    BY <1>1, ThroughIs
  <2>1. Faithful(f, p[n - 1], line, q[n - 1])
    BY <1>2, <1>8, <2>0 DEF Extends
  <2>2. /\ now.pass <=> KeepAt(f, q[n - 1], Len(p[n - 1]) + 1)
        /\ now.data = DataFor(f, q[n - 1])
    BY <1>4, <2>1 DEF Faithful
  <2>3. (b.print /\ now.pass) = Extends(q, p, line, n)
    BY <1>3, <1>6, <1>7, <1>8, <2>2 DEF Extends
  <2>4. [HalfWay(chain, p, q, n - 1) EXCEPT ![n] = DataFor(f, q[n - 1])] = HalfWay(chain, p, q, n)
    <3> DEFINE h == HalfWay(chain, p, q, n - 1)
               k == HalfWay(chain, p, q, n)
               e == [h EXCEPT ![n] = DataFor(f, q[n - 1])]
    <3>1. DOMAIN h = DOMAIN chain /\ k = [i \in DOMAIN chain |-> k[i]]
      BY DEF HalfWay
    <3>2. k[n] = DataFor(f, q[n - 1])
      BY <1>1 DEF HalfWay
    <3>3. \A i \in DOMAIN chain : i # n => k[i] = h[i]
      BY <1>5 DEF HalfWay
    <3> HIDE DEF h, k
    <3>4. e = [i \in DOMAIN chain |-> e[i]] /\ e[n] = DataFor(f, q[n - 1])
          /\ \A i \in DOMAIN chain : i # n => e[i] = h[i]
      BY <1>1, <3>1
    <3> HIDE DEF e
    <3>5. e = k
      BY <3>1, <3>2, <3>3, <3>4
    <3> QED
      BY <3>5 DEF e, h, k
  <2>5. RunStep(r, chain, line, n) =
          [print |-> b.print /\ now.pass, data |-> [b.data EXCEPT ![n] = now.data]]
    BY <1>0, <1>3, <1>8 DEF RunStep
  <2> QED
    BY <1>3, <2>2, <2>3, <2>4, <2>5 DEF RunAt, Extends
<1>9. CASE ~Extends(q, p, line, n - 1)
  <2>1. q[n] = p[n] /\ ~Extends(q, p, line, n)
    BY <1>6, <1>7, <1>9
  <2>2. q[n - 1] = p[n - 1]
    <3>1. CASE n = 1
      <4>1. Extends(q, p, line, 0)
        BY PipedAppend
      <4>2. n - 1 = 0
        BY <3>1
      <4> QED
        BY <1>9, <4>1, <4>2
    <3>2. CASE n # 1
      <4>1. n - 1 \in 1 .. Len(chain)
        BY <3>2
      <4>2. Grows(chain, p, q, line, n - 1)
        BY <4>1, PipedAppend
      <4> QED
        BY <1>9, <4>2 DEF Grows
    <3> QED
      BY <3>1, <3>2
  <2>3. HalfWay(chain, p, q, n - 1) = HalfWay(chain, p, q, n)
    BY <1>1, <1>5, <2>2 DEF HalfWay
  <2>4. RunStep(r, chain, line, n) = b
    BY <1>0, <1>3, <1>9 DEF RunStep
  <2> QED
    BY <1>9, <2>1, <2>3, <2>4 DEF RunAt, Extends, b
<1> QED
  BY <1>8, <1>9

\* The line goes through the whole pipeline.
LEMMA LinePrinted ==
  ASSUME NEW X, NEW chain \in Seq(X), \A i \in DOMAIN chain : chain[i].kind \in Kinds,
         NEW Y, NEW text \in Seq(Y), NEW line \in Y
  PROVE  PrintLine(chain, StateOf(chain, text), line) = StateOf(chain, Append(text, line))
<1> DEFINE u == Append(text, line)
           p == PipedOf(chain, text)
           q == PipedOf(chain, u)
           st == StateOf(chain, text)
           n == Len(chain)
           w == [m \in 0 .. n |-> RunAt(chain, p, q, line, m)]
           R == RunOf(chain, st, line)
<1>1. n \in Nat /\ DOMAIN chain = 1 .. n /\ u \in Seq(Y)
  BY AppendProperties
<1>2. /\ st.data = [i \in DOMAIN chain |-> DataFor(chain[i], p[i - 1])] /\ st.out = p[n]
      /\ StateOf(chain, u) = [data |-> [i \in DOMAIN chain |-> DataFor(chain[i], q[i - 1])],
                              out |-> q[n]]
  BY DEF StateOf
<1>3. \A m \in 0 .. n : w[m] = RunAt(chain, p, q, line, m)
  OBVIOUS
<1>4. Extends(q, p, line, 0) /\ \A m \in 1 .. n : Grows(chain, p, q, line, m)
  BY PipedAppend
<1>5. \A m \in 1 .. n : \A r : Came(r, chain, p, q, line, m - 1) =>
        RunStep(r, chain, line, m) = RunAt(chain, p, q, line, m)
  <2>1. OneMore(X, chain, Y, text, line, u, p, q)
    BY DEF OneMore
  <2> HIDE DEF u, p, q
  <2> QED
    BY <2>1, RunGoes
<1>6. p[n] \in Seq(Y)
  BY <1>1, PipedIs
<1> HIDE DEF u, p, q, st, n
<1>7. RunAt(chain, p, q, line, 0) = [print |-> TRUE, data |-> st.data]
  <2>1. \A i \in DOMAIN chain : ~(i <= 0)
    BY <1>1
  <2>2. HalfWay(chain, p, q, 0) = st.data
    BY <1>2, <2>1 DEF HalfWay
  <2>3. (q[0] = Append(p[0], line)) = TRUE
    BY <1>4 DEF Extends
  <2> QED
    BY <2>2, <2>3 DEF RunAt
<1> HIDE DEF w
<1>8. IsRun(w, chain, st, line)
  <2>1. ASSUME NEW m \in 0 .. n
        PROVE  w[m] = IF m = 0 THEN [print |-> TRUE, data |-> st.data] ELSE RunStep(w, chain, line, m)
    <3>1. CASE m = 0
      BY <1>1, <1>3, <1>7, <3>1
    <3>2. CASE m # 0
      <4>1. m \in 1 .. n /\ m - 1 \in 0 .. n
        BY <1>1, <3>2
      <4>2. Came(w, chain, p, q, line, m - 1)
        BY <1>3, <4>1 DEF Came
      <4> QED
        BY <1>3, <1>5, <3>2, <4>1, <4>2
    <3> QED
      BY <3>1, <3>2
  <2>2. w = [m \in 0 .. n |-> w[m]]
    BY DEF w
  <2> QED
    BY <2>1, <2>2 DEF IsRun, n
<1>9. IsRun(R, chain, st, line)
  BY <1>8 DEF RunOf
<1> HIDE DEF R
<1>10. \A m \in 0 .. n :
         R[m] = IF m = 0 THEN [print |-> TRUE, data |-> st.data] ELSE RunStep(R, chain, line, m)
  BY <1>9 DEF IsRun, n
<1> DEFINE S == {m \in 0 .. n : R[m] = RunAt(chain, p, q, line, m)}
<1>11. 0 \in S
  <2>1. 0 \in 0 .. n
    BY <1>1
  <2>2. R[0] = [print |-> TRUE, data |-> st.data]
    BY <1>10, <2>1
  <2> QED
    BY <1>7, <2>1, <2>2
<1>12. ASSUME NEW m \in 0 .. n - 1, m \in S PROVE m + 1 \in S
  <2>1. m + 1 \in 1 .. n /\ m + 1 \in 0 .. n /\ (m + 1) - 1 = m /\ m + 1 # 0
    BY <1>1
  <2>2. Came(R, chain, p, q, line, (m + 1) - 1)
    BY <1>12, <2>1 DEF Came
  <2>3. R[m + 1] = RunStep(R, chain, line, m + 1)
    BY <1>10, <2>1
  <2>4. RunStep(R, chain, line, m + 1) = RunAt(chain, p, q, line, m + 1)
    BY <1>5, <2>1, <2>2
  <2> QED
    BY <2>1, <2>3, <2>4
<1> HIDE DEF S
<1>13. \A m \in 0 .. n : m \in S
  BY <1>1, <1>11, <1>12, BoundedInd
<1>14. R[n] = RunAt(chain, p, q, line, n)
  <2>1. n \in 0 .. n
    BY <1>1
  <2> QED
    BY <1>13, <2>1 DEF S
<1>15. HalfWay(chain, p, q, n) = [i \in DOMAIN chain |-> DataFor(chain[i], q[i - 1])]
  <2>1. \A i \in DOMAIN chain : i <= n
    BY <1>1
  <2> QED
    BY <2>1 DEF HalfWay
<1>16. (IF q[n] = Append(p[n], line) THEN Append(st.out, line) ELSE st.out) = q[n]
  <2>1. q[n] = p[n] \/ q[n] = Append(p[n], line)
    <3>1. CASE n = 0
      BY <1>4, <3>1 DEF Extends
    <3>2. CASE n # 0
      <4>1. n \in 1 .. n
        BY <1>1, <3>2
      <4> QED
        BY <1>4, <4>1 DEF Grows, Extends
    <3> QED
      BY <3>1, <3>2
  <2> QED
    BY <1>2, <2>1
<1>17. PrintLine(chain, st, line) =
         [data |-> R[n].data, out |-> IF R[n].print THEN Append(st.out, line) ELSE st.out]
  BY PrintLineIs DEF R, n
<1>18. R[n].data = HalfWay(chain, p, q, n) /\ R[n].print = (q[n] = Append(p[n], line))
  BY <1>14 DEF RunAt
<1>19. PrintLine(chain, st, line) = StateOf(chain, u)
  BY <1>2, <1>15, <1>16, <1>17, <1>18
<1> QED
  BY <1>19 DEF st, u

-----------------------------------------------------------------------------
(* A text through the pipeline.                                            *)

\* Nothing comes of nothing.
LEMMA PipedEmpty ==
  ASSUME NEW X, NEW chain \in Seq(X)
  PROVE  \A n \in 0 .. Len(chain) : PipedOf(chain, <<>>)[n] = <<>>
<1> DEFINE p == PipedOf(chain, <<>>)
           S == {n \in 0 .. Len(chain) : p[n] = <<>>}
<1>1. Len(chain) \in Nat /\ <<>> \in Seq({})
  OBVIOUS
<1>2. Pipes(p, chain, <<>>)
  BY <1>1, PipedIs
<1> HIDE DEF p
<1>3. \A f : Kept(f, <<>>) = <<>>
  <2> TAKE f
  <2>1. Len(<<>>) = 0
    OBVIOUS
  <2>2. Kept(f, <<>>) = KeptOf(f, <<>>)[Len(<<>>)] /\ Keeps(KeptOf(f, <<>>), f, <<>>)
    BY <1>1, KeptIs
  <2> QED
    BY <2>1, <2>2 DEF Keeps
<1>4. 0 \in S
  BY <1>1, <1>2 DEF Pipes
<1>5. ASSUME NEW n \in 0 .. Len(chain) - 1, n \in S PROVE n + 1 \in S
  <2>1. n + 1 \in 1 .. Len(chain) /\ n + 1 \in 0 .. Len(chain) /\ (n + 1) - 1 = n
    BY <1>1
  <2> QED
    BY <1>2, <1>3, <1>5, <2>1 DEF Pipes
<1> HIDE DEF S
<1>6. \A n \in 0 .. Len(chain) : n \in S
  BY <1>1, <1>4, <1>5, BoundedInd
<1> QED
  BY <1>6 DEF S, p

Untouched(chain) == [data |-> [i \in DOMAIN chain |-> InitData(chain[i])], out |-> <<>>]

\* The data before the first line are those of cli_*_filter_init.
LEMMA StartIs ==
  ASSUME NEW X, NEW chain \in Seq(X), \A i \in DOMAIN chain : chain[i].kind \in Kinds
  PROVE  StateOf(chain, <<>>) = Untouched(chain)
<1>1. Len(chain) \in 0 .. Len(chain) /\ \A i \in DOMAIN chain : i - 1 \in 0 .. Len(chain)
  OBVIOUS
<1>2. \A n \in 0 .. Len(chain) : PipedOf(chain, <<>>)[n] = <<>>
  BY PipedEmpty
<1>3. \A f : f.kind \in Kinds => DataFor(f, <<>>) = InitData(f)
  <2> TAKE f
  <2> HAVE f.kind \in Kinds
  <2>1. Open(f, <<>>) = FALSE
    BY DEF Open
  <2>2. Number(<<>>) = 0
    <3>1. {n \in DOMAIN <<>> : <<>>[n] # {}} = {}
      OBVIOUS
    <3> QED
      BY <3>1, FS_EmptySet DEF Number
  <2> QED
    BY <2>1, <2>2 DEF DataFor, InitData, Kinds
<1>4. PipedOf(chain, <<>>)[Len(chain)] = <<>>
  BY <1>1, <1>2
<1>5. [i \in DOMAIN chain |-> DataFor(chain[i], PipedOf(chain, <<>>)[i - 1])]
        = [i \in DOMAIN chain |-> InitData(chain[i])]
  <2>1. \A i \in DOMAIN chain :
          DataFor(chain[i], PipedOf(chain, <<>>)[i - 1]) = InitData(chain[i])
    BY <1>1, <1>2, <1>3
  <2> QED
    BY <2>1
<1> QED
  BY <1>4, <1>5 DEF StateOf, Untouched

IsPrinted(s, chain, text) ==
  s = [n \in 0 .. Len(text) |->
         IF n = 0 THEN Untouched(chain) ELSE PrintLine(chain, s[n - 1], text[n])]

PrintedOf(chain, text) == CHOOSE s : IsPrinted(s, chain, text)

\* After the text the pipeline is where StateOf says.
LEMMA TextPrinted ==
  ASSUME NEW X, NEW chain \in Seq(X), \A i \in DOMAIN chain : chain[i].kind \in Kinds,
         NEW Y, NEW text \in Seq(Y)
  PROVE  PrintedOf(chain, text)[Len(text)] = StateOf(chain, text)
<1> DEFINE n == Len(text)
           To(m) == StateOf(chain, SubSeq(text, 1, m))
           w == [m \in 0 .. n |-> To(m)]
           R == PrintedOf(chain, text)
<1>1. n \in Nat /\ \A m \in 1 .. n : text[m] \in Y
  OBVIOUS
<1>2. To(0) = Untouched(chain)
  <2>1. SubSeq(text, 1, 0) = <<>>
    OBVIOUS
  <2> QED
    BY <2>1, StartIs
<1>3. ASSUME NEW m \in 1 .. n
      PROVE  PrintLine(chain, To(m - 1), text[m]) = To(m)
  <2>1. SubSeq(text, 1, m - 1) \in Seq(Y)
    BY <1>1
  <2>2. SubSeq(text, 1, m) = Append(SubSeq(text, 1, m - 1), text[m])
    BY <1>1
  <2>3. \A t \in Seq(Y), line \in Y :
          PrintLine(chain, StateOf(chain, t), line) = StateOf(chain, Append(t, line))
    BY LinePrinted
  <2>4. text[m] \in Y
    BY <1>1
  <2> HIDE DEF n
  <2> QED
    BY <2>1, <2>2, <2>3, <2>4
<1>4. To(n) = StateOf(chain, text)
  <2>1. SubSeq(text, 1, n) = text
    OBVIOUS
  <2> QED
    BY <2>1
<1> HIDE DEF To, n
<1>5. \A m \in 0 .. n : w[m] = To(m)
  OBVIOUS
<1> HIDE DEF w
<1>6. IsPrinted(w, chain, text)
  <2>1. ASSUME NEW m \in 0 .. n
        PROVE  w[m] = IF m = 0 THEN Untouched(chain) ELSE PrintLine(chain, w[m - 1], text[m])
    <3>1. CASE m = 0
      BY <1>1, <1>2, <1>5, <3>1
    <3>2. CASE m # 0
      <4>1. m \in 1 .. n /\ m - 1 \in 0 .. n
        BY <1>1, <3>2
      <4> QED
        BY <1>3, <1>5, <3>2, <4>1
    <3> QED
      BY <3>1, <3>2
  <2>2. w = [m \in 0 .. n |-> w[m]]
    BY DEF w
  <2> QED
    BY <2>1, <2>2 DEF IsPrinted, n
<1>7. IsPrinted(R, chain, text)
  BY <1>6 DEF PrintedOf
<1> HIDE DEF R
<1>8. \A m \in 0 .. n :
        R[m] = IF m = 0 THEN Untouched(chain) ELSE PrintLine(chain, R[m - 1], text[m])
  BY <1>7 DEF IsPrinted, n
<1> DEFINE S == {m \in 0 .. n : R[m] = To(m)}
<1>9. 0 \in S
  <2>1. 0 \in 0 .. n
    BY <1>1
  <2>2. R[0] = Untouched(chain)
    BY <1>8, <2>1
  <2> QED
    BY <1>2, <2>1, <2>2
<1>10. ASSUME NEW m \in 0 .. n - 1, m \in S PROVE m + 1 \in S
  <2>1. m + 1 \in 1 .. n /\ m + 1 \in 0 .. n /\ (m + 1) - 1 = m /\ m + 1 # 0
    BY <1>1
  <2>2. R[m + 1] = PrintLine(chain, R[m], text[m + 1])
    BY <1>8, <2>1
  <2>3. PrintLine(chain, To(m), text[m + 1]) = To(m + 1)
    BY <1>3, <2>1
  <2> QED
    BY <1>10, <2>1, <2>2, <2>3
<1> HIDE DEF S
<1>11. \A m \in 0 .. n : m \in S
  BY <1>1, <1>9, <1>10, BoundedInd
<1>12. R[n] = To(n)
  <2>1. n \in 0 .. n
    BY <1>1
  <2> QED
    BY <1>11, <2>1 DEF S
<1> QED
  BY <1>4, <1>12 DEF R, n

-----------------------------------------------------------------------------
(* The filters torn down.                                                  *)

IsTorn(t, chain, d) ==
  t = [i \in 0 .. Len(chain) |->
         IF i = 0 THEN <<>>
         ELSE IF chain[i].kind = "count" THEN Append(t[i - 1], d[i]) ELSE t[i - 1]]

TornOf(chain, d) == CHOOSE t : IsTorn(t, chain, d)

IsCounts(t, chain, p) ==
  t = [i \in 0 .. Len(chain) |->
         IF i = 0 THEN <<>>
         ELSE IF chain[i].kind = "count" THEN Append(t[i - 1], Number(p[i - 1])) ELSE t[i - 1]]

CountsOf(chain, p) == CHOOSE t : IsCounts(t, chain, p)

\* The filters give out what they counted.
LEMMA TornIs ==
  ASSUME NEW X, NEW chain \in Seq(X), NEW p, NEW d,
         \A i \in DOMAIN chain : d[i] = DataFor(chain[i], p[i - 1])
  PROVE  TornOf(chain, d) = CountsOf(chain, p)
<1>1. \A i \in 1 .. Len(chain) : (chain[i].kind = "count" => d[i] = Number(p[i - 1]))
  <2> TAKE i \in 1 .. Len(chain)
  <2>1. i \in DOMAIN chain /\ i # 0
    OBVIOUS
  <2>2. ASSUME chain[i].kind = "count" PROVE d[i] = Number(p[i - 1])
    BY <2>1, <2>2 DEF DataFor
  <2> QED
    BY <2>2
<1>2. Len(chain) \in Nat
  OBVIOUS
<1>3. \A i \in 0 .. Len(chain) : i = 0 \/ i \in 1 .. Len(chain)
  BY <1>2
<1>4. ASSUME NEW t PROVE IsTorn(t, chain, d) = IsCounts(t, chain, p)
  <2>1. \A i \in 0 .. Len(chain) :
          (IF i = 0 THEN <<>>
           ELSE IF chain[i].kind = "count" THEN Append(t[i - 1], d[i]) ELSE t[i - 1])
          = (IF i = 0 THEN <<>>
             ELSE IF chain[i].kind = "count" THEN Append(t[i - 1], Number(p[i - 1])) ELSE t[i - 1])
    BY <1>1, <1>2, <1>3
  <2> QED
    BY <2>1 DEF IsTorn, IsCounts
<1> QED
  BY <1>4 DEF TornOf, CountsOf

-----------------------------------------------------------------------------
\* A command's output comes through the pipeline as it means: each filter on
\* the whole of what the one before it let through, then the counts.
THEOREM FiltersMean ==
  ASSUME NEW X, NEW chain \in Seq(X), \A i \in DOMAIN chain : chain[i].kind \in Kinds,
         NEW Y, NEW text \in Seq(Y)
  PROVE  cli_int_execute_pipeline(chain, text) = Meaning(chain, text)
<1> DEFINE p == PipedOf(chain, text)
           end == PrintedOf(chain, text)[Len(text)]
           n == Len(chain)
<1>1. cli_int_execute_pipeline(chain, text) =
        [lines |-> end.out, counts |-> TornOf(chain, end.data)[n]]
  BY DEF cli_int_execute_pipeline, PrintedOf, IsPrinted, TornOf, IsTorn, Untouched
<1>2. Meaning(chain, text) = [lines |-> p[n], counts |-> CountsOf(chain, p)[n]]
  BY DEF Meaning, PipedOf, IsPiped, CountsOf, IsCounts, Number
<1>3. end = StateOf(chain, text)
  BY TextPrinted
<1>4. /\ end.out = p[n]
      /\ \A i \in DOMAIN chain : end.data[i] = DataFor(chain[i], p[i - 1])
  BY <1>3 DEF StateOf
<1> HIDE DEF end, p
<1>5. TornOf(chain, end.data) = CountsOf(chain, p)
  BY <1>4, TornIs
<1> QED
  BY <1>1, <1>2, <1>4, <1>5

-----------------------------------------------------------------------------
(* Sequences of anything.                                                  *)

\* A sequence is a function on its positions.
LEMMA SeqIs ==
  ASSUME NEW s, IsSequence(s)
  PROVE  Len(s) \in Nat /\ DOMAIN s = 1 .. Len(s) /\ s = [n \in 1 .. Len(s) |-> s[n]]
<1> DEFINE Y == {s[n] : n \in DOMAIN s}
<1>1. s \in Seq(Y)
  BY DEF IsSequence
<1> HIDE DEF Y
<1> QED
  BY <1>1

\* A function on 1 .. n is a sequence of n.
LEMMA SeqFun ==
  ASSUME NEW n \in Nat, NEW s, s = [i \in 1 .. n |-> s[i]]
  PROVE  IsSequence(s) /\ Len(s) = n /\ DOMAIN s = 1 .. n
<1> DEFINE Y == {s[i] : i \in DOMAIN s}
<1>1. DOMAIN s = 1 .. n
  OBVIOUS
<1>2. s \in [1 .. n -> Y]
  BY <1>1
<1> HIDE DEF Y
<1>3. s \in Seq(Y) /\ Len(s) = n
  BY <1>2
<1> QED
  BY <1>1, <1>3 DEF IsSequence, Y

\* A sequence of members of Y is a sequence.
LEMMA SeqOf ==
  ASSUME NEW Y, NEW s \in Seq(Y)
  PROVE  IsSequence(s) /\ \A n \in 1 .. Len(s) : s[n] \in Y
<1>1. s = [n \in 1 .. Len(s) |-> s[n]] /\ Len(s) \in Nat
  OBVIOUS
<1> QED
  BY <1>1, SeqFun

\* Append keeps what was there and puts the new member last.
LEMMA SeqAppend ==
  ASSUME NEW s, IsSequence(s), NEW x
  PROVE  /\ IsSequence(Append(s, x)) /\ Len(Append(s, x)) = Len(s) + 1
         /\ Append(s, x)[Len(s) + 1] = x
         /\ \A n \in 1 .. Len(s) : Append(s, x)[n] = s[n]
<1> DEFINE Y == {s[i] : i \in DOMAIN s} \cup {x}
           t == Append(s, x)
<1>1. s \in Seq({s[i] : i \in DOMAIN s})
  BY DEF IsSequence
<1>2. s \in Seq(Y) /\ x \in Y
  <2>1. \A n \in 1 .. Len(s) : s[n] \in Y
    BY SeqIs
  <2> HIDE DEF Y
  <2>2. s \in Seq(Y)
    BY <2>1, SeqIs
  <2> QED
    BY <2>2 DEF Y
<1> HIDE DEF Y
<1>3. /\ t \in Seq(Y) /\ Len(t) = Len(s) + 1 /\ t[Len(s) + 1] = x
      /\ \A n \in 1 .. Len(s) : t[n] = s[n]
  BY <1>2, AppendProperties
<1> HIDE DEF t
<1>5. IsSequence(t)
  BY <1>3, SeqOf
<1> QED
  BY <1>3, <1>5 DEF t

\* A concatenation is the one sequence and then the other.
LEMMA SeqConcat ==
  ASSUME NEW s, IsSequence(s), NEW t, IsSequence(t)
  PROVE  /\ IsSequence(s \o t) /\ Len(s \o t) = Len(s) + Len(t)
         /\ \A n \in 1 .. Len(s) : (s \o t)[n] = s[n]
         /\ \A n \in 1 .. Len(t) : (s \o t)[Len(s) + n] = t[n]
<1> DEFINE Y == {s[i] : i \in DOMAIN s} \cup {t[i] : i \in DOMAIN t}
           u == s \o t
<1>1. \A n \in 1 .. Len(s) : s[n] \in Y
  BY SeqIs
<1>2. \A n \in 1 .. Len(t) : t[n] \in Y
  BY SeqIs
<1> HIDE DEF Y
<1>3. s \in Seq(Y) /\ t \in Seq(Y)
  BY <1>1, <1>2, SeqIs
<1>4. /\ u \in Seq(Y) /\ Len(u) = Len(s) + Len(t)
      /\ \A n \in 1 .. Len(s) : u[n] = s[n]
      /\ \A n \in 1 .. Len(t) : u[Len(s) + n] = t[n]
  BY <1>3, ConcatProperties
<1> HIDE DEF u
<1>6. IsSequence(u)
  BY <1>4, SeqOf
<1> QED
  BY <1>4, <1>6 DEF u

Joins(u, s, t) ==
  /\ IsSequence(u) /\ Len(u) = Len(s) + Len(t)
  /\ \A n \in 1 .. Len(s) : u[n] = s[n]
  /\ \A n \in 1 .. Len(t) : u[Len(s) + n] = t[n]

\* The empty sequence.
LEMMA SeqEmpty == IsSequence(<<>>) /\ Len(<<>>) = 0
BY DEF IsSequence

\* The sequence of one.
LEMMA SeqOne == \A x : IsSequence(<<x>>) /\ Len(<<x>>) = 1 /\ <<x>>[1] = x
<1> TAKE x
<1>1. <<x>> = [i \in 1 .. 1 |-> <<x>>[i]]
  OBVIOUS
<1>2. IsSequence(<<x>>)
  BY <1>1, SeqFun
<1> QED
  BY <1>2

\* The first elements of a sequence, or those from one on.
LEMMA SeqPart ==
  ASSUME NEW s, IsSequence(s), NEW n \in 0 .. Len(s)
  PROVE  /\ IsSequence(SubSeq(s, 1, n)) /\ Len(SubSeq(s, 1, n)) = n
         /\ \A i \in 1 .. n : SubSeq(s, 1, n)[i] = s[i]
<1> DEFINE Y == {s[i] : i \in DOMAIN s}
           t == SubSeq(s, 1, n)
<1>1. s \in Seq(Y) /\ Len(s) \in Nat
  BY SeqIs DEF IsSequence
<1> HIDE DEF Y
<1>2. t \in Seq(Y) /\ Len(t) = n /\ \A i \in 1 .. n : t[i] = s[i]
  BY <1>1
<1>3. t = [i \in 1 .. n |-> t[i]] /\ n \in Nat
  BY <1>1, <1>2
<1> HIDE DEF t
<1>4. IsSequence(t)
  BY <1>3, SeqFun
<1> QED
  BY <1>2, <1>4 DEF t

-----------------------------------------------------------------------------
(* Those elements of a sequence that are at given places.                  *)

IsSelect(f, s, K) ==
  f = [n \in 0 .. Len(s) |->
         IF n = 0 THEN <<>> ELSE IF n \in K THEN Append(f[n - 1], s[n]) ELSE f[n - 1]]

SelectOf(s, K) == CHOOSE f : IsSelect(f, s, K)

Selects(f, s, K) ==
  /\ f[0] = <<>>
  /\ \A n \in 1 .. Len(s) : f[n] = IF n \in K THEN Append(f[n - 1], s[n]) ELSE f[n - 1]

At(s, K) == {s[n] : n \in K \cap DOMAIN s}

\* The members of a sequence at given places, one step at a time.
LEMMA SelectIs ==
  ASSUME NEW s, IsSequence(s), NEW K
  PROVE  Selects(SelectOf(s, K), s, K)
<1> DEFINE n == Len(s)
           Y == {s[m] : m \in DOMAIN s}
           D == Seq(Y)
           G == [m \in 1 .. n |-> [t \in D |-> IF m \in K THEN Append(t, s[m]) ELSE t]]
<1>1. n \in Nat /\ <<>> \in D /\ \A m \in 1 .. n : s[m] \in Y
  BY SeqIs
<1> HIDE DEF Y
<1>2. \A m \in 1 .. n, t \in D : (IF m \in K THEN Append(t, s[m]) ELSE t) \in D
  BY <1>1, AppendProperties
<1> HIDE DEF D, n
<1>3. Rule(G, n, D)
  BY <1>2 DEF Rule
<1>4. \A m \in 1 .. n, t \in D : G[m][t] = IF m \in K THEN Append(t, s[m]) ELSE t
  OBVIOUS
<1> HIDE DEF G
<1>5. PICK k : Iterates(k, G, n, D, <<>>)
  BY <1>1, <1>3, Recursion
<1>6. k \in [0 .. n -> D] /\ k[0] = <<>> /\ \A m \in 1 .. n : k[m] = G[m][k[m - 1]]
  BY <1>5 DEF Iterates
<1>7. ASSUME NEW m \in 0 .. n
      PROVE  k[m] = IF m = 0 THEN <<>>
                    ELSE IF m \in K THEN Append(k[m - 1], s[m]) ELSE k[m - 1]
  <2>1. CASE m = 0
    BY <1>6, <2>1
  <2>2. CASE m # 0
    <3>1. m \in 1 .. n /\ m - 1 \in 0 .. n
      BY <1>1, <2>2
    <3>2. k[m - 1] \in D
      BY <1>6, <3>1
    <3> QED
      BY <1>4, <1>6, <2>2, <3>1, <3>2
  <2> QED
    BY <2>1, <2>2
<1>8. IsSelect(k, s, K)
  <2>1. k = [m \in 0 .. n |-> k[m]]
    BY <1>6
  <2> QED
    BY <1>7, <2>1 DEF IsSelect, n
<1> DEFINE f == SelectOf(s, K)
<1>9. IsSelect(f, s, K)
  BY <1>8 DEF SelectOf
<1> HIDE DEF f
<1>10. \A m \in 0 .. n :
         f[m] = IF m = 0 THEN <<>> ELSE IF m \in K THEN Append(f[m - 1], s[m]) ELSE f[m - 1]
  BY <1>9 DEF IsSelect, n
<1>11. 0 \in 0 .. n /\ \A m \in 1 .. n : m \in 0 .. n /\ m # 0
  BY <1>1
<1>12. Selects(f, s, K)
  BY <1>10, <1>11 DEF Selects, n
<1> QED
  BY <1>12 DEF f

\* What is selected are elements from there.
LEMMA SelectTyped ==
  ASSUME NEW s, IsSequence(s), NEW K
  PROVE  \A n \in 0 .. Len(s) : SelectOf(s, K)[n] \in Seq(At(s, K))
<1> DEFINE f == SelectOf(s, K)
           Y == At(s, K)
<1>0. Selects(f, s, K)
  BY SelectIs
<1> HIDE DEF f
<1>1. f[0] \in Seq(Y)
  BY <1>0 DEF Selects
<1>2. ASSUME NEW m \in 1 .. Len(s), f[m - 1] \in Seq(Y) PROVE f[m] \in Seq(Y)
  <2>1. CASE m \in K
    <3>1. s[m] \in Y
      BY <2>1, SeqIs DEF At
    <3>2. Append(f[m - 1], s[m]) \in Seq(Y)
      BY <1>2, <3>1, AppendProperties
    <3> QED
      BY <1>0, <2>1, <3>2 DEF Selects
  <2>2. CASE m \notin K
    BY <1>0, <1>2, <2>2 DEF Selects
  <2> QED
    BY <2>1, <2>2
<1> HIDE DEF Y
<1>3. Len(s) \in Nat
  BY SeqIs
<1>4. \A m \in 0 .. Len(s) : f[m] \in Seq(Y)
  BY <1>1, <1>2, <1>3, Passed
<1> QED
  BY <1>4 DEF f, Y

\* The elements up to a place, and none after it.
LEMMA SelectFirst ==
  ASSUME NEW s, IsSequence(s), NEW j \in 0 .. Len(s), NEW K,
         \A n \in 1 .. Len(s) : n \in K <=> n <= j
  PROVE  SelectOf(s, K)[Len(s)] = SubSeq(s, 1, j)
<1> DEFINE f == SelectOf(s, K)
           Upto(n) == IF n <= j THEN n ELSE j
           S == {n \in 0 .. Len(s) : f[n] = SubSeq(s, 1, Upto(n))}
           Y == {s[n] : n \in DOMAIN s}
<1>0. Selects(f, s, K)
  BY SelectIs
<1>1. Len(s) \in Nat /\ s \in Seq(Y)
  BY SeqIs DEF IsSequence
<1> HIDE DEF f, Y
<1>2. 0 \in S
  <2>1. Upto(0) = 0 /\ 0 \in 0 .. Len(s)
    BY <1>1
  <2>2. SubSeq(s, 1, 0) = <<>>
    BY <1>1
  <2> QED
    BY <1>0, <2>1, <2>2 DEF Selects
<1>3. ASSUME NEW n \in 0 .. Len(s) - 1, n \in S PROVE n + 1 \in S
  <2>1. n + 1 \in 1 .. Len(s) /\ n + 1 \in 0 .. Len(s) /\ (n + 1) - 1 = n
    BY <1>1
  <2>2. f[n + 1] = IF n + 1 <= j THEN Append(f[n], s[n + 1]) ELSE f[n]
    BY <1>0, <2>1 DEF Selects
  <2>3. CASE n + 1 <= j
    <3>1. Upto(n + 1) = n + 1 /\ Upto(n) = n
      BY <2>3
    <3>2. Append(SubSeq(s, 1, n), s[n + 1]) = SubSeq(s, 1, n + 1)
      BY <1>1, <2>1
    <3>3. f[n] = SubSeq(s, 1, n)
      BY <1>3, <3>1
    <3>4. f[n + 1] = SubSeq(s, 1, n + 1)
      BY <2>2, <2>3, <3>2, <3>3
    <3> QED
      BY <2>1, <3>1, <3>4
  <2>4. CASE ~(n + 1 <= j)
    <3>1. Upto(n + 1) = j /\ Upto(n) = j
      BY <2>4
    <3> QED
      BY <1>3, <2>1, <2>2, <2>4, <3>1
  <2> QED
    BY <2>3, <2>4
<1>4. Upto(Len(s)) = j
  BY <1>1
<1> HIDE DEF S
<1>5. \A n \in 0 .. Len(s) : n \in S
  BY <1>1, <1>2, <1>3, BoundedInd
<1>6. Len(s) \in S
  BY <1>1, <1>5
<1> QED
  BY <1>4, <1>6 DEF S, f

\* All that is selected was in the sequence, at one of the places.
LEMMA SelectAll ==
  ASSUME NEW s, IsSequence(s), NEW K
  PROVE  /\ IsSequence(SelectOf(s, K)[Len(s)])
         /\ \A n \in 1 .. Len(SelectOf(s, K)[Len(s)]) :
              \E m \in K \cap 1 .. Len(s) : SelectOf(s, K)[Len(s)][n] = s[m]
<1> DEFINE f == SelectOf(s, K)
<1>1. Len(s) \in 0 .. Len(s) /\ DOMAIN s = 1 .. Len(s)
  BY SeqIs
<1>2. f[Len(s)] \in Seq(At(s, K))
  BY <1>1, SelectTyped
<1> HIDE DEF f
<1>3. IsSequence(f[Len(s)]) /\ \A n \in 1 .. Len(f[Len(s)]) : f[Len(s)][n] \in At(s, K)
  BY <1>2, SeqOf
<1> QED
  BY <1>1, <1>3 DEF f, At

\* The pairs of a name, and all others.
PairPlaces(found, name, own) == {n \in DOMAIN found : (found[n].name = name) = own}

\* The pairs of an option are a selection of those found.
LEMMA PairsAre ==
  ASSUME NEW found, IsSequence(found), NEW name, NEW own
  PROVE  PairsOf(found, name, own)
           = SelectOf(found, PairPlaces(found, name, own))[Len(found)]
<1> DEFINE K == PairPlaces(found, name, own)
           Is(f) == f = [n \in 0 .. Len(found) |->
                           IF n = 0 THEN <<>>
                           ELSE IF (found[n].name = name) = own THEN Append(f[n - 1], found[n])
                           ELSE f[n - 1]]
<1>1. \A n \in 0 .. Len(found) : n # 0 => (n \in K <=> (found[n].name = name) = own)
  BY SeqIs DEF PairPlaces
<1> HIDE DEF K
<1>2. ASSUME NEW f PROVE Is(f) = IsSelect(f, found, K)
  <2>1. \A n \in 0 .. Len(found) :
          (IF n = 0 THEN <<>>
           ELSE IF (found[n].name = name) = own THEN Append(f[n - 1], found[n])
           ELSE f[n - 1])
          = (IF n = 0 THEN <<>> ELSE IF n \in K THEN Append(f[n - 1], found[n]) ELSE f[n - 1])
    BY <1>1
  <2> QED
    BY <2>1 DEF IsSelect
<1>3. (CHOOSE f : Is(f)) = SelectOf(found, K)
  BY <1>2 DEF SelectOf
<1>4. PairsOf(found, name, own) = (CHOOSE f : Is(f))[Len(found)]
  BY DEF PairsOf
<1> QED
  BY <1>3, <1>4 DEF K

\* Pairs of sequences, as the words of a line are.
Valued(found) ==
  \A n \in 1 .. Len(found) :
    "value" \in DOMAIN found[n] /\ IsSequence(found[n].value)

\* The pairs of an option are some of those that were found.
LEMMA PairsTyped ==
  ASSUME NEW found, IsSequence(found), NEW name, NEW own
  PROVE  /\ IsSequence(PairsOf(found, name, own))
         /\ Valued(found) => Valued(PairsOf(found, name, own))
<1> DEFINE kept == PairsOf(found, name, own)
           K == PairPlaces(found, name, own)
<1>1. kept = SelectOf(found, K)[Len(found)]
  BY PairsAre
<1> HIDE DEF kept, K
<1>2. /\ IsSequence(kept)
      /\ \A n \in 1 .. Len(kept) : \E m \in 1 .. Len(found) : kept[n] = found[m]
  BY <1>1, SelectAll
<1>3. Valued(found) => Valued(kept)
  BY <1>2 DEF Valued
<1> QED
  BY <1>2, <1>3 DEF kept

OtherPlaces(list, type) == {n \in DOMAIN list : list[n].type # type}

\* What cli_unregister_tree leaves is the selection of the other types.
LEMMA UnregisterIs ==
  ASSUME NEW list, IsSequence(list), NEW type
  PROVE  cli_unregister_tree(list, type) = SelectOf(list, OtherPlaces(list, type))[Len(list)]
<1> DEFINE K == OtherPlaces(list, type)
           Is(f) == f = [n \in 0 .. Len(list) |->
                           IF n = 0 THEN <<>>
                           ELSE IF list[n].type = type THEN f[n - 1]
                           ELSE Append(f[n - 1], list[n])]
<1>1. \A n \in 0 .. Len(list) : n # 0 => (n \in K <=> list[n].type # type)
  BY SeqIs DEF OtherPlaces
<1> HIDE DEF K
<1>2. ASSUME NEW f PROVE Is(f) = IsSelect(f, list, K)
  <2>1. \A n \in 0 .. Len(list) :
          (IF n = 0 THEN <<>>
           ELSE IF list[n].type = type THEN f[n - 1] ELSE Append(f[n - 1], list[n]))
          = (IF n = 0 THEN <<>> ELSE IF n \in K THEN Append(f[n - 1], list[n]) ELSE f[n - 1])
    BY <1>1
  <2> QED
    BY <2>1 DEF IsSelect
<1>3. (CHOOSE f : Is(f)) = SelectOf(list, K)
  BY <1>2 DEF SelectOf
<1>4. cli_unregister_tree(list, type) = (CHOOSE f : Is(f))[Len(list)]
  BY DEF cli_unregister_tree
<1> QED
  BY <1>3, <1>4 DEF K

\* The options that become commands in a buildmode.
OfferedPlaces(optargs, m, transient) ==
  {i \in DOMAIN optargs :
     /\ i > Opener(optargs)
     /\ "build" \notin optargs[i].flags
     /\ optargs[i].kind # "check" /\ optargs[i].enters = NoMode
     /\ optargs[i].mode \in {m, transient}}

\* The options that become commands are a selection of all.
LEMMA OfferedIs ==
  ASSUME NEW optargs, IsSequence(optargs), NEW m, NEW transient
  PROVE  Offered(optargs, m, transient)
           = SelectOf(optargs, OfferedPlaces(optargs, m, transient))[Len(optargs)]
<1> DEFINE K == OfferedPlaces(optargs, m, transient)
           Fits(i) == /\ i > Opener(optargs)
                      /\ "build" \notin optargs[i].flags
                      /\ optargs[i].kind # "check" /\ optargs[i].enters = NoMode
                      /\ optargs[i].mode \in {m, transient}
           Is(f) == f = [n \in 0 .. Len(optargs) |->
                           IF n = 0 THEN <<>>
                           ELSE IF Fits(n) THEN Append(f[n - 1], optargs[n]) ELSE f[n - 1]]
<1>1. \A n \in 0 .. Len(optargs) : n # 0 => (n \in K <=> Fits(n))
  BY SeqIs DEF OfferedPlaces
<1>4. Offered(optargs, m, transient) = (CHOOSE f : Is(f))[Len(optargs)]
  BY DEF Offered
<1> HIDE DEF K, Fits
<1>2. ASSUME NEW f PROVE Is(f) = IsSelect(f, optargs, K)
  <2>1. \A n \in 0 .. Len(optargs) :
          (IF n = 0 THEN <<>> ELSE IF Fits(n) THEN Append(f[n - 1], optargs[n]) ELSE f[n - 1])
          = (IF n = 0 THEN <<>> ELSE IF n \in K THEN Append(f[n - 1], optargs[n]) ELSE f[n - 1])
    BY <1>1
  <2> QED
    BY <2>1 DEF IsSelect
<1>3. (CHOOSE f : Is(f)) = SelectOf(optargs, K)
  BY <1>2 DEF SelectOf
<1> QED
  BY <1>3, <1>4 DEF K

\* The options that become commands are some of those of the command.
LEMMA OfferedTyped ==
  ASSUME NEW optargs, IsSequence(optargs), NEW m, NEW transient
  PROVE  /\ IsSequence(Offered(optargs, m, transient))
         /\ \A n \in 1 .. Len(Offered(optargs, m, transient)) :
              \E k \in 1 .. Len(optargs) : Offered(optargs, m, transient)[n] = optargs[k]
<1> DEFINE offered == Offered(optargs, m, transient)
           K == OfferedPlaces(optargs, m, transient)
<1>1. offered = SelectOf(optargs, K)[Len(optargs)]
  BY OfferedIs
<1> HIDE DEF offered, K
<1>2. /\ IsSequence(offered)
      /\ \A n \in 1 .. Len(offered) : \E k \in 1 .. Len(optargs) : offered[n] = optargs[k]
  BY <1>1, SelectAll
<1> QED
  BY <1>2 DEF offered

-----------------------------------------------------------------------------
(* What the parse of the options keeps.                                    *)

\* cli_set_optarg_value keeps the pairs a sequence.
LEMMA SetTyped ==
  ASSUME NEW found, IsSequence(found), NEW name, NEW value, NEW multiple
  PROVE  LET set == cli_set_optarg_value(found, name, value, multiple)
         IN IsSequence(set) /\ (Valued(found) /\ IsSequence(value) => Valued(set))
<1> DEFINE first == Least({i \in DOMAIN found : found[i].name = name})
           f == [found EXCEPT ![first].value = value]
           a == Append(found, Pair(name, value))
           set == cli_set_optarg_value(found, name, value, multiple)
<1>1. IsSequence(f) /\ (Valued(found) /\ IsSequence(value) => Valued(f))
  <2> HIDE DEF first
  <2>1. Len(found) \in Nat /\ DOMAIN found = 1 .. Len(found) /\ DOMAIN f = 1 .. Len(found)
    BY SeqIs
  <2>2. f = [i \in 1 .. Len(found) |-> f[i]]
    BY <2>1
  <2>3. \A i \in 1 .. Len(found) :
          f[i] = IF i = first THEN [found[i] EXCEPT !.value = value] ELSE found[i]
    BY <2>1
  <2> HIDE DEF f
  <2>4. IsSequence(f) /\ Len(f) = Len(found)
    BY <2>1, <2>2, SeqFun
  <2>5. Valued(found) /\ IsSequence(value) => Valued(f)
    BY <2>3, <2>4 DEF Valued
  <2> QED
    BY <2>4, <2>5
<1>2. IsSequence(a) /\ (Valued(found) /\ IsSequence(value) => Valued(a))
  <2> DEFINE p == Pair(name, value)
  <2>1. "value" \in DOMAIN p /\ p.value = value
    BY DEF Pair
  <2> HIDE DEF p
  <2>2. /\ IsSequence(a) /\ Len(a) = Len(found) + 1 /\ Len(found) \in Nat
        /\ a[Len(found) + 1] = p /\ \A i \in 1 .. Len(found) : a[i] = found[i]
    BY SeqAppend, SeqIs DEF p
  <2> HIDE DEF a
  <2>3. \A i \in 1 .. Len(a) : i \in 1 .. Len(found) \/ i = Len(found) + 1
    BY <2>2
  <2>4. Valued(found) /\ IsSequence(value) => Valued(a)
    BY <2>1, <2>2, <2>3 DEF Valued
  <2> QED
    BY <2>2, <2>4
<1>3. set = f \/ set = a
  BY DEF cli_set_optarg_value
<1> HIDE DEF set, f, a
<1>4. IsSequence(set) /\ (Valued(found) /\ IsSequence(value) => Valued(set))
  BY <1>1, <1>2, <1>3
<1> QED
  BY <1>4 DEF set

\* Words are sequences of characters.
Spelt(words) == IsSequence(words) /\ \A n \in 1 .. Len(words) : IsSequence(words[n])

JoinStep(text, words, n) ==
  text \o (IF n = 1 THEN <<>> ELSE <<" ">>) \o words[n]

IsJoined(f, words) ==
  f = [n \in 0 .. Len(words) |-> IF n = 0 THEN <<>> ELSE JoinStep(f[n - 1], words, n)]

\* The texts of the first words, joined, exist.
LEMMA JoinedExists ==
  ASSUME NEW words, Len(words) \in Nat
  PROVE  \E f : IsJoined(f, words)
<1> DEFINE Part(f, k) ==
             f = [n \in 0 .. k |-> IF n = 0 THEN <<>> ELSE JoinStep(f[n - 1], words, n)]
           S == {k \in 0 .. Len(words) : \E f : Part(f, k)}
<1>1. 0 \in S
  <2> DEFINE f == [n \in 0 .. 0 |-> <<>>]
  <2>1. Part(f, 0)
    OBVIOUS
  <2> HIDE DEF Part
  <2> QED
    BY <2>1
<1>2. ASSUME NEW k \in 0 .. Len(words) - 1, k \in S PROVE k + 1 \in S
  <2>1. PICK f : Part(f, k)
    BY <1>2
  <2> DEFINE v == JoinStep(f[k], words, k + 1)
             g == [n \in 0 .. k + 1 |-> IF n <= k THEN f[n] ELSE v]
  <2> HIDE DEF v
  <2>2. \A n \in 0 .. k + 1 : g[n] = IF n <= k THEN f[n] ELSE v
    OBVIOUS
  <2>3. g = [n \in 0 .. k + 1 |-> g[n]]
    OBVIOUS
  <2> HIDE DEF g
  <2>4. ASSUME NEW n \in 0 .. k + 1
        PROVE  g[n] = IF n = 0 THEN <<>> ELSE JoinStep(g[n - 1], words, n)
    <3>1. CASE n = 0
      <4>1. 0 \in 0 .. k /\ 0 \in 0 .. k + 1 /\ 0 <= k
        OBVIOUS
      <4>2. f[0] = <<>>
        BY <2>1, <4>1
      <4> QED
        BY <2>2, <3>1, <4>1, <4>2
    <3>2. CASE n # 0 /\ n <= k
      <4>1. n \in 0 .. k /\ n - 1 \in 0 .. k + 1 /\ n - 1 <= k
        BY <3>2
      <4>2. f[n] = JoinStep(f[n - 1], words, n)
        BY <2>1, <3>2, <4>1
      <4> QED
        BY <2>2, <3>2, <4>1, <4>2
    <3>3. CASE ~(n <= k)
      <4>1. n = k + 1 /\ n # 0 /\ n - 1 = k /\ k \in 0 .. k + 1 /\ k <= k
        BY <3>3
      <4>2. g[n - 1] = f[k]
        BY <2>2, <4>1
      <4> QED
        BY <2>2, <3>3, <4>1, <4>2 DEF v
    <3> QED
      BY <3>1, <3>2, <3>3
  <2>5. Part(g, k + 1)
    BY <2>3, <2>4
  <2> HIDE DEF Part
  <2> QED
    BY <2>5
<1> HIDE DEF S
<1>3. \A k \in 0 .. Len(words) : k \in S
  BY <1>1, <1>2, BoundedInd
<1>4. Len(words) \in S
  BY <1>3
<1> QED
  BY <1>4 DEF S, IsJoined

\* The text of words that are joined is a sequence of characters.
LEMMA JoinedTyped ==
  ASSUME NEW words, Spelt(words)
  PROVE  IsSequence(join_words(words))
<1> DEFINE f == CHOOSE f : IsJoined(f, words)
           S == {k \in 0 .. Len(words) : IsSequence(f[k])}
<1>0. Len(words) \in Nat
  BY SeqIs DEF Spelt
<1>1. IsJoined(f, words)
  BY <1>0, JoinedExists
<1>2. join_words(words) = f[Len(words)]
  BY DEF join_words, IsJoined, JoinStep
<1> HIDE DEF f
<1>3. 0 \in S
  <2>1. 0 \in 0 .. Len(words)
    BY <1>0
  <2>2. f[0] = <<>>
    BY <1>1, <2>1 DEF IsJoined
  <2> QED
    BY <2>1, <2>2, SeqEmpty
<1>4. ASSUME NEW k \in 0 .. Len(words) - 1, k \in S PROVE k + 1 \in S
  <2>1. k + 1 \in 1 .. Len(words) /\ k + 1 \in 0 .. Len(words) /\ k + 1 # 0 /\ k + 1 - 1 = k
    BY <1>0
  <2> DEFINE gap == IF k + 1 = 1 THEN <<>> ELSE <<" ">>
  <2>2. f[k + 1] = JoinStep(f[k], words, k + 1)
    BY <1>1, <2>1 DEF IsJoined
  <2>3. JoinStep(f[k], words, k + 1) = f[k] \o gap \o words[k + 1]
    BY DEF JoinStep
  <2>4. IsSequence(gap)
    BY SeqEmpty, SeqOne
  <2> HIDE DEF gap
  <2>5. IsSequence(f[k]) /\ IsSequence(words[k + 1])
    BY <1>4, <2>1 DEF Spelt
  <2>6. \A x, y : IsSequence(x) /\ IsSequence(y) => IsSequence(x \o y)
    BY SeqConcat
  <2>7. IsSequence(f[k] \o gap \o words[k + 1])
    BY <2>4, <2>5, <2>6
  <2> QED
    BY <2>1, <2>2, <2>3, <2>7
<1> HIDE DEF S
<1>5. \A k \in 0 .. Len(words) : k \in S
  BY <1>0, <1>3, <1>4, BoundedInd
<1>6. Len(words) \in S
  BY <1>0, <1>5
<1> QED
  BY <1>2, <1>6 DEF S

\* The words from one on.
LEMMA RestSpelt ==
  ASSUME NEW words, Spelt(words), NEW k \in 1 .. Len(words)
  PROVE  Spelt(SubSeq(words, k, Len(words)))
<1> DEFINE Y == {words[n] : n \in DOMAIN words}
           t == SubSeq(words, k, Len(words))
<1>1. words \in Seq(Y) /\ Len(words) \in Nat /\ \A x \in Y : IsSequence(x)
  BY SeqIs DEF Spelt, IsSequence
<1> HIDE DEF Y
<1>2. t \in Seq(Y)
  BY <1>1
<1> HIDE DEF t
<1>3. Spelt(t)
  BY <1>1, <1>2, SeqOf DEF Spelt
<1> QED
  BY <1>3 DEF t

\* What is recorded is a word of the line, or many joined.
LEMMA ValueTyped ==
  ASSUME NEW words, Spelt(words), NEW k \in 1 .. Len(words), NEW next, IsSequence(next), NEW o
  PROVE  IsSequence(Value(o, words, k, next))
<1>1. Len(words) \in Nat
  BY SeqIs DEF Spelt
<1>2. IsSequence(join_words(SubSeq(words, k, Len(words))))
  BY RestSpelt, JoinedTyped
<1>3. IsSequence(Taken(o, words, k, next))
  <2>1. k < Len(words) => k + 1 \in 1 .. Len(words)
    BY <1>1
  <2>2. \/ Taken(o, words, k, next) = words[k]
        \/ Taken(o, words, k, next) = next
        \/ k < Len(words) /\ Taken(o, words, k, next) = words[k + 1]
    BY DEF Taken
  <2> QED
    BY <2>1, <2>2 DEF Spelt
<1> QED
  BY <1>2, <1>3 DEF Value

Slots == {"word", "optarg", "found", "ctx", "status", "done", "left", "last"}

\* A parse that may not open a buildmode does not; of words that are spelt it
\* finds values that are.
Fine(st, allow, spelt) ==
  /\ Slots \subseteq DOMAIN st
  /\ {"transient", "allow_buildmode", "next"} \subseteq DOMAIN st.ctx
  /\ IsSequence(st.found)
  /\ st.ctx.allow_buildmode = allow
  /\ ~allow => st.status # "BUILDMODE_START"
  /\ spelt => /\ st.word \in Nat \ {0}
              /\ Valued(st.found)
              /\ IsSequence(st.ctx.next)

\* The parse stops, with a buildmode only where one may be opened.
LEMMA StopFine ==
  ASSUME NEW st, NEW allow \in BOOLEAN, NEW spelt \in BOOLEAN, Fine(st, allow, spelt), NEW status,
         status # "BUILDMODE_START" \/ allow
  PROVE  Fine(Stop(st, status), allow, spelt)
BY DEF Fine, Stop, Slots

\* A value is recorded.
LEMMA RecordFine ==
  ASSUME NEW st, NEW allow \in BOOLEAN, NEW spelt \in BOOLEAN, Fine(st, allow, spelt), NEW o, NEW value,
         spelt => IsSequence(value)
  PROVE  Fine(Record(st, o, value), allow, spelt)
<1> DEFINE many == "multiple" \in o.flags /\ "rest" \notin o.flags
           found == cli_set_optarg_value(st.found, o.name, value, many)
           transient == IF value \in DOMAIN o.enters THEN o.enters[value] ELSE st.ctx.transient
<1>1. IsSequence(found) /\ (spelt => Valued(found))
  BY SetTyped DEF Fine
<1>2. Record(st, o, value) = [st EXCEPT !.found = found, !.ctx.transient = transient]
  BY DEF Record
<1> HIDE DEF found, transient
<1> QED
  BY <1>1, <1>2 DEF Fine, Slots

\* A word is taken for an option.
LEMMA TakeFine ==
  ASSUME NEW st, NEW allow \in BOOLEAN, NEW spelt \in BOOLEAN, Fine(st, allow, spelt), NEW optargs, NEW words, NEW i,
         spelt => Spelt(words) /\ st.word <= Len(words)
  PROVE  Fine(TakeWord(st, optargs, words, i), allow, spelt)
<1> DEFINE o == optargs[i]
           k == st.word
           last == st.last \/ LastWord(o, words, k)
           next == st.ctx.next
           value == Value(o, words, k, next)
           kept == [Record(st, o, value) EXCEPT !.last = last]
           on == [kept EXCEPT !.optarg = IF o.kind = "argument" THEN i + 1 ELSE @,
                              !.word = k + (IF o.kind = "option" THEN 2 ELSE 1)]
           left == [st EXCEPT !.left = TRUE]
<1>1. Fine(kept, allow, spelt)
  <2>1. spelt => IsSequence(value)
    <3> SUFFICES ASSUME spelt PROVE IsSequence(value)
      OBVIOUS
    <3>1. Spelt(words) /\ k \in 1 .. Len(words) /\ IsSequence(next)
      <4>1. Spelt(words) /\ k \in Nat \ {0} /\ k <= Len(words) /\ IsSequence(next)
        BY DEF Fine
      <4>2. Len(words) \in Nat
        BY <4>1, SeqIs DEF Spelt
      <4> HIDE DEF k, next
      <4> QED
        BY <4>1, <4>2
    <3> HIDE DEF k, next, o
    <3> QED
      BY <3>1, ValueTyped
  <2> HIDE DEF value
  <2>2. Fine(Record(st, o, value), allow, spelt)
    BY <2>1, RecordFine
  <2> HIDE DEF last
  <2> QED
    BY <2>2 DEF Fine, Slots
<1>2. Fine(left, allow, spelt)
  BY DEF Fine, Slots
<1>3. TakeWord(st, optargs, words, i) =
        IF o.kind = "option" /\ k = Len(words) /\ next = NoWord
        THEN Stop(st, "MISSING_VALUE")
        ELSE IF ~Accepts(o, Taken(o, words, k, next)) THEN Stop(st, "ERROR")
        ELSE IF "unrecorded" \in o.flags THEN left
        ELSE IF o.enters # NoMode /\ value \notin DOMAIN o.enters THEN Stop(kept, "ERROR")
        ELSE IF "build" \in o.flags /\ last /\ st.ctx.allow_buildmode
        THEN Stop(kept, "BUILDMODE_START")
        ELSE on
  BY DEF TakeWord
<1> HIDE DEF last, value, kept
<1>4. Fine(on, allow, spelt)
  <2> DEFINE to == k + (IF o.kind = "option" THEN 2 ELSE 1)
             optarg == IF o.kind = "argument" THEN i + 1 ELSE kept.optarg
  <2>1. spelt => to \in Nat \ {0}
    BY DEF Fine
  <2>2. on = [kept EXCEPT !.optarg = optarg, !.word = to]
    OBVIOUS
  <2> HIDE DEF to, optarg, on
  <2> QED
    BY <1>1, <2>1, <2>2 DEF Fine, Slots
<1> HIDE DEF on, left
<1>5. /\ Fine(Stop(st, "MISSING_VALUE"), allow, spelt) /\ Fine(Stop(st, "ERROR"), allow, spelt)
      /\ Fine(Stop(kept, "ERROR"), allow, spelt)
      /\ allow => Fine(Stop(kept, "BUILDMODE_START"), allow, spelt)
  BY <1>1, StopFine
<1>6. st.ctx.allow_buildmode = allow
  BY DEF Fine
<1> QED
  BY <1>2, <1>3, <1>4, <1>5, <1>6

\* One word of cli_int_parse_optargs.
LEMMA ParseFine ==
  ASSUME NEW st, NEW allow \in BOOLEAN, NEW spelt \in BOOLEAN, Fine(st, allow, spelt), NEW optargs, NEW words,
         Len(words) \in Nat, spelt => Spelt(words)
  PROVE  Fine(ParseWord(st, optargs, words), allow, spelt)
<1> DEFINE left == [st EXCEPT !.left = TRUE]
           least == Least(Candidates(optargs, st.optarg, st.ctx, words[st.word]))
<1>1. Fine(left, allow, spelt)
  BY DEF Fine, Slots
<1>2. Fine(Stop(st, "ERROR"), allow, spelt) /\ Fine(Stop(st, "AMBIGUOUS"), allow, spelt)
  BY StopFine
<1>3. (spelt => st.word <= Len(words)) => Fine(TakeWord(st, optargs, words, least), allow, spelt)
  BY TakeFine
<1>4. \/ ParseWord(st, optargs, words) = st
      \/ ParseWord(st, optargs, words) = Stop(st, "ERROR")
      \/ ParseWord(st, optargs, words) = left
      \/ ParseWord(st, optargs, words) = Stop(st, "AMBIGUOUS")
      \/ /\ ~(st.word > Len(words))
         /\ ParseWord(st, optargs, words) = TakeWord(st, optargs, words, least)
  BY DEF ParseWord
<1> HIDE DEF left, least
<1>5. ~(st.word > Len(words)) => (spelt => st.word <= Len(words))
  BY DEF Fine
<1> QED
  BY <1>1, <1>2, <1>3, <1>4, <1>5

\* One word of the parse that completion makes.
LEMMA CompleteFine ==
  ASSUME NEW st, NEW spelt \in BOOLEAN, Fine(st, FALSE, spelt), NEW optargs, NEW words, NEW key,
         Len(words) \in Nat, spelt => Spelt(words),
         {"entries", "lost"} \subseteq DOMAIN st
  PROVE  /\ Fine(CompleteWord(st, optargs, words, key), FALSE, spelt)
         /\ {"entries", "lost"} \subseteq DOMAIN CompleteWord(st, optargs, words, key)
<1> DEFINE C == Candidates(optargs, st.optarg, st.ctx, words[st.word])
           here == {i \in C : AtName(optargs[i], words, st.word)
                                \/ AtValue(optargs[i], words, st.word)}
           offers == OffersOf(optargs, here, st, words, key)
           left == [st EXCEPT !.left = TRUE]
           given == [st EXCEPT !.entries = offers]
           lost == [st EXCEPT !.lost = TRUE]
           E == {"entries", "lost"}
           Good(s) == Fine(s, FALSE, spelt) /\ E \subseteq DOMAIN s
<1>1. \/ CompleteWord(st, optargs, words, key) = st
      \/ CompleteWord(st, optargs, words, key) = Stop(st, "ERROR")
      \/ CompleteWord(st, optargs, words, key) = left
      \/ CompleteWord(st, optargs, words, key) = Stop(st, "AMBIGUOUS")
      \/ CompleteWord(st, optargs, words, key) = Stop(given, "OK")
      \/ CompleteWord(st, optargs, words, key) = Stop(lost, "ERROR")
      \/ /\ ~(st.word > Len(words))
         /\ CompleteWord(st, optargs, words, key) = TakeWord(st, optargs, words, Least(C))
  BY DEF CompleteWord
<1> HIDE DEF C, here, offers
<1>2. Good(left) /\ Good(given) /\ Good(lost)
  BY DEF Fine, Slots
<1> HIDE DEF left, given, lost
<1>3. \A s, x : E \subseteq DOMAIN s => E \subseteq DOMAIN Stop(s, x)
  BY DEF Stop
<1>4. ASSUME ~(st.word > Len(words)) PROVE Good(TakeWord(st, optargs, words, Least(C)))
  <2>0. spelt => st.word <= Len(words)
    BY <1>4 DEF Fine
  <2>1. Fine(TakeWord(st, optargs, words, Least(C)), FALSE, spelt)
    BY <2>0, TakeFine
  <2>2. E \subseteq DOMAIN TakeWord(st, optargs, words, Least(C))
    BY <1>3 DEF TakeWord, Record, Stop
  <2> QED
    BY <2>1, <2>2
<1>5. /\ Good(Stop(st, "ERROR")) /\ Good(Stop(st, "AMBIGUOUS"))
      /\ Good(Stop(given, "OK")) /\ Good(Stop(lost, "ERROR"))
  BY <1>2, <1>3, StopFine
<1> QED
  BY <1>1, <1>2, <1>4, <1>5

IsParsing(f, optargs, words, start) ==
  f = [n \in 0 .. Len(words) |->
         IF n = 0 THEN start ELSE ParseWord(f[n - 1], optargs, words)]

\* The states of a parse exist, whatever the words.
LEMMA ParsingExists ==
  ASSUME NEW optargs, NEW words, Len(words) \in Nat, NEW start
  PROVE  \E f : IsParsing(f, optargs, words, start)
<1> DEFINE Part(f, k) ==
             f = [n \in 0 .. k |-> IF n = 0 THEN start ELSE ParseWord(f[n - 1], optargs, words)]
           S == {k \in 0 .. Len(words) : \E f : Part(f, k)}
<1>1. 0 \in S
  <2> DEFINE f == [n \in 0 .. 0 |-> start]
  <2>1. Part(f, 0)
    OBVIOUS
  <2> HIDE DEF Part
  <2> QED
    BY <2>1
<1>2. ASSUME NEW k \in 0 .. Len(words) - 1, k \in S PROVE k + 1 \in S
  <2>1. PICK f : Part(f, k)
    BY <1>2
  <2> DEFINE v == ParseWord(f[k], optargs, words)
             g == [n \in 0 .. k + 1 |-> IF n <= k THEN f[n] ELSE v]
  <2> HIDE DEF v
  <2>2. \A n \in 0 .. k + 1 : g[n] = IF n <= k THEN f[n] ELSE v
    OBVIOUS
  <2>3. g = [n \in 0 .. k + 1 |-> g[n]]
    OBVIOUS
  <2> HIDE DEF g
  <2>4. ASSUME NEW n \in 0 .. k + 1
        PROVE  g[n] = IF n = 0 THEN start ELSE ParseWord(g[n - 1], optargs, words)
    <3>1. CASE n = 0
      <4>1. 0 \in 0 .. k /\ 0 \in 0 .. k + 1 /\ 0 <= k
        OBVIOUS
      <4>2. f[0] = start
        BY <2>1, <4>1
      <4> QED
        BY <2>2, <3>1, <4>1, <4>2
    <3>2. CASE n # 0 /\ n <= k
      <4>1. n \in 0 .. k /\ n - 1 \in 0 .. k + 1 /\ n - 1 <= k
        BY <3>2
      <4>2. f[n] = ParseWord(f[n - 1], optargs, words)
        BY <2>1, <3>2, <4>1
      <4> QED
        BY <2>2, <3>2, <4>1, <4>2
    <3>3. CASE ~(n <= k)
      <4>1. n = k + 1 /\ n # 0 /\ n - 1 = k /\ k \in 0 .. k + 1 /\ k <= k
        BY <3>3
      <4>2. g[n - 1] = f[k]
        BY <2>2, <4>1
      <4> QED
        BY <2>2, <3>3, <4>1, <4>2 DEF v
    <3> QED
      BY <3>1, <3>2, <3>3
  <2>5. Part(g, k + 1)
    BY <2>3, <2>4
  <2> HIDE DEF Part
  <2> QED
    BY <2>5
<1> HIDE DEF S
<1>3. \A k \in 0 .. Len(words) : k \in S
  BY <1>1, <1>2, BoundedInd
<1>4. Len(words) \in S
  BY <1>3
<1> QED
  BY <1>4 DEF S, IsParsing

ParsingOf(optargs, words, start) == CHOOSE f : IsParsing(f, optargs, words, start)

\* The whole parse.
LEMMA ParsingFine ==
  ASSUME NEW optargs, NEW words, Len(words) \in Nat, NEW allow \in BOOLEAN,
         NEW spelt \in BOOLEAN, spelt => Spelt(words), NEW start, Fine(start, allow, spelt)
  PROVE  Fine(ParsingOf(optargs, words, start)[Len(words)], allow, spelt)
<1> DEFINE f == ParsingOf(optargs, words, start)
           Good(s) == Fine(s, allow, spelt)
<1>1. IsParsing(f, optargs, words, start)
  BY ParsingExists DEF ParsingOf
<1> HIDE DEF f
<1>2. f[0] = start
  <2>1. 0 \in 0 .. Len(words)
    OBVIOUS
  <2> QED
    BY <1>1, <2>1 DEF IsParsing
<1>3. \A n \in 1 .. Len(words) : f[n] = ParseWord(f[n - 1], optargs, words)
  <2>1. \A n \in 1 .. Len(words) : n \in 0 .. Len(words) /\ n # 0
    OBVIOUS
  <2> QED
    BY <1>1, <2>1 DEF IsParsing
<1>4. \A s : Good(s) => Good(ParseWord(s, optargs, words))
  BY ParseFine
<1>5. Good(start)
  OBVIOUS
<1> HIDE DEF Good
<1> DEFINE S == {n \in 0 .. Len(words) : Good(f[n])}
<1>6. 0 \in S
  BY <1>2, <1>5
<1>7. ASSUME NEW n \in 0 .. Len(words) - 1, n \in S PROVE n + 1 \in S
  <2>1. n + 1 \in 1 .. Len(words) /\ n + 1 \in 0 .. Len(words) /\ (n + 1) - 1 = n
    OBVIOUS
  <2> QED
    BY <1>3, <1>4, <1>7, <2>1
<1> HIDE DEF S
<1>8. \A n \in 0 .. Len(words) : n \in S
  BY <1>6, <1>7, BoundedInd
<1>9. Len(words) \in S
  BY <1>8
<1> QED
  BY <1>9 DEF S, f, Good


IsCompleting(f, optargs, words, key, start) ==
  f = [n \in 0 .. Len(words) |->
         IF n = 0 THEN start ELSE CompleteWord(f[n - 1], optargs, words, key)]

\* The states of the parse that completion makes exist.
LEMMA CompletingExists ==
  ASSUME NEW optargs, NEW words, Len(words) \in Nat, NEW key, NEW start
  PROVE  \E f : IsCompleting(f, optargs, words, key, start)
<1> DEFINE Part(f, k) ==
             f = [n \in 0 .. k |-> IF n = 0 THEN start ELSE CompleteWord(f[n - 1], optargs, words, key)]
           S == {k \in 0 .. Len(words) : \E f : Part(f, k)}
<1>1. 0 \in S
  <2> DEFINE f == [n \in 0 .. 0 |-> start]
  <2>1. Part(f, 0)
    OBVIOUS
  <2> HIDE DEF Part
  <2> QED
    BY <2>1
<1>2. ASSUME NEW k \in 0 .. Len(words) - 1, k \in S PROVE k + 1 \in S
  <2>1. PICK f : Part(f, k)
    BY <1>2
  <2> DEFINE v == CompleteWord(f[k], optargs, words, key)
             g == [n \in 0 .. k + 1 |-> IF n <= k THEN f[n] ELSE v]
  <2> HIDE DEF v
  <2>2. \A n \in 0 .. k + 1 : g[n] = IF n <= k THEN f[n] ELSE v
    OBVIOUS
  <2>3. g = [n \in 0 .. k + 1 |-> g[n]]
    OBVIOUS
  <2> HIDE DEF g
  <2>4. ASSUME NEW n \in 0 .. k + 1
        PROVE  g[n] = IF n = 0 THEN start ELSE CompleteWord(g[n - 1], optargs, words, key)
    <3>1. CASE n = 0
      <4>1. 0 \in 0 .. k /\ 0 \in 0 .. k + 1 /\ 0 <= k
        OBVIOUS
      <4>2. f[0] = start
        BY <2>1, <4>1
      <4> QED
        BY <2>2, <3>1, <4>1, <4>2
    <3>2. CASE n # 0 /\ n <= k
      <4>1. n \in 0 .. k /\ n - 1 \in 0 .. k + 1 /\ n - 1 <= k
        BY <3>2
      <4>2. f[n] = CompleteWord(f[n - 1], optargs, words, key)
        BY <2>1, <3>2, <4>1
      <4> QED
        BY <2>2, <3>2, <4>1, <4>2
    <3>3. CASE ~(n <= k)
      <4>1. n = k + 1 /\ n # 0 /\ n - 1 = k /\ k \in 0 .. k + 1 /\ k <= k
        BY <3>3
      <4>2. g[n - 1] = f[k]
        BY <2>2, <4>1
      <4> QED
        BY <2>2, <3>3, <4>1, <4>2 DEF v
    <3> QED
      BY <3>1, <3>2, <3>3
  <2>5. Part(g, k + 1)
    BY <2>3, <2>4
  <2> HIDE DEF Part
  <2> QED
    BY <2>5
<1> HIDE DEF S
<1>3. \A k \in 0 .. Len(words) : k \in S
  BY <1>1, <1>2, BoundedInd
<1>4. Len(words) \in S
  BY <1>3
<1> QED
  BY <1>4 DEF S, IsCompleting

CompletingOf(optargs, words, key, start) == CHOOSE f : IsCompleting(f, optargs, words, key, start)

\* The whole parse that completion makes.
LEMMA CompletingFine ==
  ASSUME NEW optargs, NEW words, Len(words) \in Nat, NEW key,
         NEW spelt \in BOOLEAN, spelt => Spelt(words),
         NEW start, Fine(start, FALSE, spelt), {"entries", "lost"} \subseteq DOMAIN start
  PROVE  /\ Fine(CompletingOf(optargs, words, key, start)[Len(words)], FALSE, spelt)
         /\ {"entries", "lost"} \subseteq DOMAIN CompletingOf(optargs, words, key, start)[Len(words)]
<1> DEFINE f == CompletingOf(optargs, words, key, start)
           Good(s) == Fine(s, FALSE, spelt) /\ {"entries", "lost"} \subseteq DOMAIN s
<1>1. IsCompleting(f, optargs, words, key, start)
  BY CompletingExists DEF CompletingOf
<1> HIDE DEF f
<1>2. f[0] = start
  <2>1. 0 \in 0 .. Len(words)
    OBVIOUS
  <2> QED
    BY <1>1, <2>1 DEF IsCompleting
<1>3. \A n \in 1 .. Len(words) : f[n] = CompleteWord(f[n - 1], optargs, words, key)
  <2>1. \A n \in 1 .. Len(words) : n \in 0 .. Len(words) /\ n # 0
    OBVIOUS
  <2> QED
    BY <1>1, <2>1 DEF IsCompleting
<1>4. \A s : Good(s) => Good(CompleteWord(s, optargs, words, key))
  BY CompleteFine
<1>5. Good(start)
  OBVIOUS
<1> HIDE DEF Good
<1> DEFINE S == {n \in 0 .. Len(words) : Good(f[n])}
<1>6. 0 \in S
  BY <1>2, <1>5
<1>7. ASSUME NEW n \in 0 .. Len(words) - 1, n \in S PROVE n + 1 \in S
  <2>1. n + 1 \in 1 .. Len(words) /\ n + 1 \in 0 .. Len(words) /\ (n + 1) - 1 = n
    OBVIOUS
  <2> QED
    BY <1>3, <1>4, <1>7, <2>1
<1> HIDE DEF S
<1>8. \A n \in 0 .. Len(words) : n \in S
  BY <1>6, <1>7, BoundedInd
<1>9. Len(words) \in S
  BY <1>8
<1> QED
  BY <1>9 DEF S, f, Good


Parser(found, first, ctx) ==
  [word |-> first, optarg |-> 1, found |-> found, ctx |-> ctx, status |-> "OK",
   done |-> FALSE, left |-> FALSE, last |-> FALSE]

\* What the parse of the options needs to know, of words that are spelt more.
Context(ctx, spelt) ==
  /\ {"transient", "allow_buildmode", "next"} \subseteq DOMAIN ctx
  /\ spelt => IsSequence(ctx.next)

\* cli_int_parse_optargs opens a buildmode only where it may.
LEMMA OptargsFine ==
  ASSUME NEW optargs, NEW words, Len(words) \in Nat, NEW first, NEW found, IsSequence(found),
         NEW spelt \in BOOLEAN,
         spelt => Spelt(words) /\ first \in Nat \ {0} /\ Valued(found),
         NEW ctx, Context(ctx, spelt),
         NEW allow \in BOOLEAN, ctx.allow_buildmode = allow
  PROVE  Fine(cli_int_parse_optargs(optargs, words, first, found, ctx), allow, spelt)
<1> DEFINE start == Parser(found, first, ctx)
           end == ParsingOf(optargs, words, start)[Len(words)]
<1>1. Fine(start, allow, spelt)
  BY DEF Fine, Slots, Parser, Context
<1>2. cli_int_parse_optargs(optargs, words, first, found, ctx) =
        IF ~end.done /\ Missing(end, optargs) THEN Stop(end, "MISSING_ARGUMENT") ELSE end
  BY DEF cli_int_parse_optargs, ParsingOf, IsParsing, Parser
<1>3. Fine(end, allow, spelt)
  <2> HIDE DEF start
  <2> QED
    BY <1>1, ParsingFine
<1> HIDE DEF end
<1>4. Fine(Stop(end, "MISSING_ARGUMENT"), allow, spelt)
  BY <1>3, StopFine
<1> QED
  BY <1>2, <1>3, <1>4

\* What completion has found are pairs, and their values are spelt.
LEMMA CompletedFound ==
  ASSUME NEW optargs, NEW words, Spelt(words), NEW first \in Nat \ {0},
         NEW found, IsSequence(found), Valued(found),
         NEW ctx, Context(ctx, TRUE), ctx.allow_buildmode = FALSE, NEW key
  PROVE  LET set == CompleteOptargs(optargs, words, first, found, ctx, key).found
         IN IsSequence(set) /\ Valued(set)
<1> DEFINE start == [word |-> first, optarg |-> 1, found |-> found, ctx |-> ctx,
                     status |-> "OK", done |-> FALSE, left |-> FALSE,
                     last |-> FALSE, entries |-> <<>>, lost |-> FALSE]
<1>0. Len(words) \in Nat
  BY SeqIs DEF Spelt
<1>1. Fine(start, FALSE, TRUE) /\ {"entries", "lost"} \subseteq DOMAIN start
  BY DEF Fine, Slots, Context
<1>2. CompleteOptargs(optargs, words, first, found, ctx, key) =
        CompletingOf(optargs, words, key, start)[Len(words)]
  BY DEF CompleteOptargs, CompletingOf, IsCompleting
<1> HIDE DEF start
<1>3. Fine(CompletingOf(optargs, words, key, start)[Len(words)], FALSE, TRUE)
  BY <1>0, <1>1, CompletingFine
<1> QED
  BY <1>2, <1>3 DEF Fine

-----------------------------------------------------------------------------
(* The commands that the walk can come to.                                 *)

\* A command is registered under one that came before it, or at the top.
Rooted(list) ==
  IsSequence(list) /\ \A i \in 1 .. Len(list) : list[i].parent \in 0 .. i - 1

ReachStep(f, list, m, p, i) ==
  \/ i = 0
  \/ /\ f[list[i].parent]
     /\ list[i].parent > 0 => Visible(list[list[i].parent], m, p)

IsReach(f, list, m, p) == f = [i \in 0 .. Len(list) |-> ReachStep(f, list, m, p, i)]

\* The recursive definition of Reached has a solution: parents come first.
LEMMA ReachExists ==
  ASSUME NEW list, Rooted(list), NEW m, NEW p
  PROVE  \E f : IsReach(f, list, m, p)
<1> DEFINE Part(f, k) == f = [i \in 0 .. k |-> ReachStep(f, list, m, p, i)]
           S == {k \in 0 .. Len(list) : \E f : Part(f, k)}
<1>0. Len(list) \in Nat
  BY SeqIs DEF Rooted
<1>1. 0 \in S
  <2> DEFINE f == [i \in 0 .. 0 |-> TRUE]
  <2>1. f = [i \in 0 .. 0 |-> ReachStep(f, list, m, p, i)]
    <3>1. \A i \in 0 .. 0 : TRUE = ReachStep(f, list, m, p, i)
      BY DEF ReachStep
    <3> HIDE DEF ReachStep
    <3> QED
      BY <3>1
  <2>2. Part(f, 0)
    BY <2>1
  <2> HIDE DEF Part, f
  <2> QED
    BY <1>0, <2>2
<1>2. ASSUME NEW k \in 0 .. Len(list) - 1, k \in S PROVE k + 1 \in S
  <2>1. PICK f : Part(f, k)
    BY <1>2
  <2> DEFINE v == ReachStep(f, list, m, p, k + 1)
             g == [i \in 0 .. k + 1 |-> IF i <= k THEN f[i] ELSE v]
  <2> HIDE DEF v
  <2>2. \A i \in 0 .. k + 1 : g[i] = IF i <= k THEN f[i] ELSE v
    OBVIOUS
  <2>3. g = [i \in 0 .. k + 1 |-> g[i]]
    OBVIOUS
  <2> HIDE DEF g
  <2>4. ASSUME NEW i \in 0 .. k + 1
        PROVE  g[i] = ReachStep(g, list, m, p, i)
    <3>1. CASE i = 0
      <4>1. 0 \in 0 .. k /\ 0 \in 0 .. k + 1 /\ 0 <= k
        BY <1>0
      <4>2. f[0] = ReachStep(f, list, m, p, 0)
        BY <2>1, <4>1
      <4>3. g[0] = f[0]
        BY <2>2, <4>1
      <4>4. ReachStep(f, list, m, p, 0) = TRUE /\ ReachStep(g, list, m, p, 0) = TRUE
        BY DEF ReachStep
      <4> QED
        BY <3>1, <4>2, <4>3, <4>4
    <3>2. CASE i # 0
      <4>1. i \in 1 .. Len(list) /\ list[i].parent \in 0 .. i - 1
        BY <1>0, <3>2 DEF Rooted
      <4>2. list[i].parent \in 0 .. k /\ list[i].parent \in 0 .. k + 1 /\ list[i].parent <= k
        BY <1>0, <4>1
      <4>3. g[list[i].parent] = f[list[i].parent]
        BY <2>2, <4>2
      <4>4. ReachStep(g, list, m, p, i) = ReachStep(f, list, m, p, i)
        BY <4>3 DEF ReachStep
      <4>5. CASE i <= k
        <5>1. i \in 0 .. k
          BY <4>5
        <5>2. f[i] = ReachStep(f, list, m, p, i)
          BY <2>1, <5>1
        <5> QED
          BY <2>2, <4>4, <4>5, <5>2
      <4>6. CASE ~(i <= k)
        <5>1. i = k + 1
          BY <1>0, <4>6
        <5> QED
          BY <2>2, <4>4, <4>6, <5>1 DEF v
      <4> QED
        BY <4>5, <4>6
    <3> QED
      BY <3>1, <3>2
  <2>5. Part(g, k + 1)
    BY <2>3, <2>4
  <2>6. k + 1 \in 0 .. Len(list)
    BY <1>0
  <2> HIDE DEF Part
  <2> QED
    BY <2>5, <2>6
<1> HIDE DEF S
<1>3. \A k \in 0 .. Len(list) : k \in S
  BY <1>0, <1>1, <1>2, BoundedInd
<1>4. Len(list) \in S
  BY <1>0, <1>3
<1> QED
  BY <1>4 DEF S, IsReach

\* A command at the top, or under one that is reached and visible.
LEMMA ReachedIs ==
  ASSUME NEW list, Rooted(list), NEW m, NEW p
  PROVE  /\ Reached(list, m, p) \subseteq 1 .. Len(list)
         /\ \A i \in 1 .. Len(list) :
              i \in Reached(list, m, p) <=>
                \/ list[i].parent = 0
                \/ /\ list[i].parent \in Reached(list, m, p)
                   /\ Visible(list[list[i].parent], m, p)
<1> DEFINE f == CHOOSE f : IsReach(f, list, m, p)
<1>1. IsReach(f, list, m, p)
  BY ReachExists
<1>2. Reached(list, m, p) = {i \in DOMAIN list : f[i]}
  BY DEF Reached, IsReach, ReachStep
<1> HIDE DEF f
<1>3. Len(list) \in Nat /\ DOMAIN list = 1 .. Len(list)
  BY SeqIs DEF Rooted
<1>4. \A i \in 0 .. Len(list) : f[i] = ReachStep(f, list, m, p, i)
  BY <1>1 DEF IsReach
<1>5. ASSUME NEW i \in 1 .. Len(list)
      PROVE  i \in Reached(list, m, p) <=>
               \/ list[i].parent = 0
               \/ /\ list[i].parent \in Reached(list, m, p)
                  /\ Visible(list[list[i].parent], m, p)
  <2>1. /\ i \in 0 .. Len(list) /\ i # 0 /\ 0 \in 0 .. Len(list)
        /\ list[i].parent \in 0 .. Len(list)
        /\ list[i].parent = 0 \/ (list[i].parent > 0 /\ list[i].parent \in 1 .. Len(list))
        /\ ~(0 > 0)
    BY <1>3 DEF Rooted
  <2>2. f[0]
    BY <1>4, <2>1 DEF ReachStep
  <2>3. f[i] <=> /\ f[list[i].parent]
                 /\ list[i].parent > 0 => Visible(list[list[i].parent], m, p)
    BY <1>4, <2>1 DEF ReachStep
  <2>4. i \in Reached(list, m, p) <=> f[i]
    BY <1>2, <1>3
  <2>5. CASE list[i].parent = 0
    BY <2>1, <2>2, <2>3, <2>4, <2>5
  <2>6. CASE list[i].parent > 0 /\ list[i].parent \in 1 .. Len(list)
    <3>1. list[i].parent \in Reached(list, m, p) <=> f[list[i].parent]
      BY <1>2, <1>3, <2>6
    <3>2. list[i].parent # 0
      BY <2>1, <2>6
    <3> QED
      BY <2>3, <2>4, <2>6, <3>1, <3>2
  <2> QED
    BY <2>1, <2>5, <2>6
<1> QED
  BY <1>2, <1>3, <1>5

-----------------------------------------------------------------------------
(* The commands of a session are those that were registered, and after     *)
(* them those of the buildmode, if one is open.                            *)

N == Len(Registered)

Fields == {"parent", "name", "type", "privilege", "mode", "act", "optargs",
           "unique_len", "optional"}

\* The commands of the application.
LEMMA RegisteredIs ==
  /\ Rooted(Registered) /\ N \in Nat /\ DOMAIN Registered = 1 .. N
  /\ \A i \in 1 .. N :
       /\ DOMAIN Registered[i] = Fields
       /\ Registered[i].type \in {"regular", "filter"}
       /\ Registered[i].type = "filter" => Registered[i].act \in FilterActs
       /\ IsSequence(Registered[i].name) /\ IsSequence(Registered[i].optargs)
       /\ \A j \in 1 .. Len(Registered[i].optargs) : IsSequence(Registered[i].optargs[j].name)
<1>1. IsSequence(Registered)
  BY ShellAssumption
<1>2. N \in Nat /\ DOMAIN Registered = 1 .. N
  BY <1>1, SeqIs DEF N
<1>3. \A i \in 1 .. N : Registered[i].parent \in 0 .. i - 1
  BY <1>2, ShellAssumption
<1>4. ASSUME NEW i \in 1 .. N PROVE DOMAIN Registered[i] = Fields
  <2> DEFINE c == Registered[i]
             d == Command(c.parent, c.name, c.type, c.privilege, c.mode, c.act, c.optargs)
  <2>1. c = [d EXCEPT !.unique_len = c.unique_len, !.optional = c.optional]
    BY <1>2, ShellAssumption
  <2>2. DOMAIN d = Fields
    BY DEF Command, Fields
  <2> HIDE DEF d, c
  <2>3. DOMAIN c = Fields
    BY <2>1, <2>2
  <2> QED
    BY <2>3 DEF c
<1>5. \A i \in 1 .. N :
       /\ Registered[i].type \in {"regular", "filter"}
       /\ Registered[i].type = "filter" => Registered[i].act \in FilterActs
       /\ IsSequence(Registered[i].name) /\ IsSequence(Registered[i].optargs)
  BY <1>2, ShellAssumption
<1>6. ASSUME NEW i \in 1 .. N
      PROVE  \A j \in 1 .. Len(Registered[i].optargs) :
               IsSequence(Registered[i].optargs[j].name)
  <2> DEFINE optargs == Registered[i].optargs
  <2>1. IsSequence(optargs) /\ \A j \in DOMAIN optargs : IsSequence(optargs[j].name)
    BY <1>2, ShellAssumption
  <2> HIDE DEF optargs
  <2>2. \A j \in 1 .. Len(optargs) : IsSequence(optargs[j].name)
    BY <2>1, SeqIs
  <2> QED
    BY <2>2 DEF optargs
<1> QED
  BY <1>1, <1>2, <1>3, <1>4, <1>5, <1>6 DEF Rooted, N

AsRegistered(c, r) == c = [r EXCEPT !.unique_len = c.unique_len]

Added(c, m) ==
  /\ Fields \subseteq DOMAIN c
  /\ c.type = "buildmode" /\ c.parent = 0 /\ c.mode = m /\ IsSequence(c.name)

Alike(list, m) ==
  /\ IsSequence(list) /\ N <= Len(list)
  /\ \A i \in 1 .. N : AsRegistered(list[i], Registered[i])
  /\ \A i \in N + 1 .. Len(list) : Added(list[i], m)

\* All but the abbreviation is as it was registered.
LEMMA AsIs ==
  ASSUME NEW i \in 1 .. N, NEW c, AsRegistered(c, Registered[i])
  PROVE  /\ DOMAIN c = Fields
         /\ c.parent = Registered[i].parent /\ c.name = Registered[i].name
         /\ c.type = Registered[i].type /\ c.privilege = Registered[i].privilege
         /\ c.mode = Registered[i].mode /\ c.act = Registered[i].act
         /\ c.optargs = Registered[i].optargs
<1>1. DOMAIN Registered[i] = Fields
  BY RegisteredIs
<1> QED
  BY <1>1 DEF AsRegistered, Fields

\* A list of commands like that of the application, and what is added.
LEMMA AlikeIs ==
  ASSUME NEW list, NEW m, Alike(list, m)
  PROVE  /\ Len(list) \in Nat /\ DOMAIN list = 1 .. Len(list) /\ 1 .. N \subseteq 1 .. Len(list)
         /\ Rooted(list)
         /\ \A i \in 1 .. Len(list) : i \in 1 .. N \/ i \in N + 1 .. Len(list)
         /\ \A i \in 1 .. Len(list) :
              i \in 1 .. N <=> list[i].type \in {"regular", "filter"}
         /\ \A i \in 1 .. Len(list) : Fields \subseteq DOMAIN list[i]
         /\ \A i \in 1 .. Len(list) : IsSequence(list[i].name)
<1>1. Len(list) \in Nat /\ DOMAIN list = 1 .. Len(list) /\ N \in Nat
  BY SeqIs, RegisteredIs DEF Alike
<1>2. 1 .. N \subseteq 1 .. Len(list) /\ \A i \in 1 .. Len(list) : i \in 1 .. N \/ i \in N + 1 .. Len(list)
  BY <1>1 DEF Alike
<1>3. ASSUME NEW i \in 1 .. N
      PROVE  /\ list[i].parent \in 0 .. i - 1 /\ list[i].type \in {"regular", "filter"}
             /\ Fields \subseteq DOMAIN list[i] /\ IsSequence(list[i].name)
  <2>1. AsRegistered(list[i], Registered[i])
    BY DEF Alike
  <2>2. /\ list[i].parent = Registered[i].parent /\ list[i].type = Registered[i].type
        /\ list[i].name = Registered[i].name /\ DOMAIN list[i] = Fields
    BY <2>1, AsIs
  <2> QED
    BY <2>2, RegisteredIs DEF Rooted, N
<1>4. ASSUME NEW i \in N + 1 .. Len(list)
      PROVE  /\ list[i].parent \in 0 .. i - 1 /\ list[i].type = "buildmode"
             /\ Fields \subseteq DOMAIN list[i] /\ IsSequence(list[i].name)
  BY <1>1 DEF Alike, Added
<1>5. Rooted(list)
  BY <1>2, <1>3, <1>4 DEF Rooted, Alike
<1>6. \A i \in 1 .. Len(list) : i \in 1 .. N <=> list[i].type \in {"regular", "filter"}
  BY <1>2, <1>3, <1>4
<1>7. \A i \in 1 .. Len(list) : Fields \subseteq DOMAIN list[i] /\ IsSequence(list[i].name)
  BY <1>2, <1>3, <1>4
<1> QED
  BY <1>1, <1>2, <1>5, <1>6, <1>7

\* A command is visible where the registered one is.
LEMMA AlikeVisible ==
  ASSUME NEW list, NEW m, Alike(list, m), NEW i \in 1 .. N, NEW here, NEW p
  PROVE  Visible(list[i], here, p) = Visible(Registered[i], here, p)
<1>1. AsRegistered(list[i], Registered[i])
  BY DEF Alike
<1>2. list[i].privilege = Registered[i].privilege /\ list[i].mode = Registered[i].mode
  BY <1>1, AsIs
<1> QED
  BY <1>2 DEF Visible

\* A command is reached where the registered one is.
LEMMA ReachedSame ==
  ASSUME NEW list, NEW m, Alike(list, m), NEW here, NEW p
  PROVE  \A i \in 1 .. N : i \in Reached(list, here, p) <=> i \in Reached(Registered, here, p)
<1> DEFINE A == Reached(list, here, p)
           B == Reached(Registered, here, p)
           S == {n \in 0 .. N : \A i \in 1 .. n : i \in A <=> i \in B}
<1>1. N \in Nat /\ 1 .. N \subseteq 1 .. Len(list) /\ Rooted(list) /\ Rooted(Registered)
  BY AlikeIs, RegisteredIs
<1>2. 0 \in S
  BY <1>1
<1>3. ASSUME NEW n \in 0 .. N - 1, n \in S PROVE n + 1 \in S
  <2>1. n + 1 \in 1 .. N /\ n + 1 \in 0 .. N /\ \A i \in 1 .. n + 1 : i = n + 1 \/ i \in 1 .. n
    BY <1>1
  <2> DEFINE j == Registered[n + 1].parent
  <2>2. list[n + 1].parent = j
    <3>1. AsRegistered(list[n + 1], Registered[n + 1])
      BY <2>1 DEF Alike
    <3> QED
      BY <2>1, <3>1, AsIs
  <2>3. j = 0 \/ j \in 1 .. n
    <3>1. j \in 0 .. (n + 1) - 1
      BY <1>1, <2>1 DEF Rooted, N
    <3> QED
      BY <1>1, <3>1
  <2>4. n + 1 \in A <=> j = 0 \/ (j \in A /\ Visible(list[j], here, p))
    BY <1>1, <2>1, <2>2, ReachedIs
  <2>5. n + 1 \in B <=> j = 0 \/ (j \in B /\ Visible(Registered[j], here, p))
    BY <1>1, <2>1, ReachedIs DEF N
  <2> HIDE DEF A, B, j
  <2>6. j \in 1 .. n => j \in 1 .. N /\ (j \in A <=> j \in B)
    BY <1>1, <1>3
  <2>7. j \in 1 .. N => Visible(list[j], here, p) = Visible(Registered[j], here, p)
    BY AlikeVisible
  <2>8. n + 1 \in A <=> n + 1 \in B
    BY <2>3, <2>4, <2>5, <2>6, <2>7
  <2> QED
    BY <1>3, <2>1, <2>8
<1> HIDE DEF S
<1>4. \A n \in 0 .. N : n \in S
  BY <1>1, <1>2, <1>3, BoundedInd
<1>5. N \in S
  BY <1>1, <1>4
<1> QED
  BY <1>5 DEF S

\* The rivals and the shortest abbreviation are those of the registered one.
LEMMA ShortestSame ==
  ASSUME NEW list, NEW m, Alike(list, m), NEW here, NEW p, NEW i \in 1 .. N
  PROVE  /\ Rivals(list, here, p, i) = Rivals(Registered, here, p, i)
         /\ ShortestOf(list, here, p, i) = ShortestOf(Registered, here, p, i)
<1> DEFINE R == Rivals(list, here, p, i)
           Q == Rivals(Registered, here, p, i)
<1>1. \A j \in 1 .. N : /\ list[j].parent = Registered[j].parent
                        /\ list[j].type = Registered[j].type
                        /\ list[j].name = Registered[j].name
                        /\ Visible(list[j], here, p) = Visible(Registered[j], here, p)
  <2> TAKE j \in 1 .. N
  <2>1. AsRegistered(list[j], Registered[j])
    BY DEF Alike
  <2>2. Visible(list[j], here, p) = Visible(Registered[j], here, p)
    BY AlikeVisible
  <2> QED
    BY <2>1, <2>2, AsIs
<1>2. /\ DOMAIN Registered = 1 .. N /\ 1 .. N \subseteq DOMAIN list
      /\ \A j \in DOMAIN list : list[j].type = list[i].type => j \in 1 .. N
  <2>1. DOMAIN list = 1 .. Len(list) /\ 1 .. N \subseteq 1 .. Len(list)
    BY AlikeIs
  <2>2. \A j \in 1 .. Len(list) : j \in 1 .. N <=> list[j].type \in {"regular", "filter"}
    BY AlikeIs
  <2> QED
    BY <2>1, <2>2, RegisteredIs
<1>3. R = Q
  BY <1>1, <1>2 DEF Rivals, Siblings
<1>4. Q \subseteq 1 .. N
  BY <1>2 DEF Rivals, Siblings
<1>5. ShortestOf(list, here, p, i) =
        IF Visible(list[i], here, p)
        THEN Greatest({1} \cup {Common(list[i].name, list[j].name) + 1 : j \in R})
        ELSE Len(list[i].name)
  BY DEF ShortestOf
<1>6. ShortestOf(Registered, here, p, i) =
        IF Visible(Registered[i], here, p)
        THEN Greatest({1} \cup {Common(Registered[i].name, Registered[j].name) + 1 : j \in Q})
        ELSE Len(Registered[i].name)
  BY DEF ShortestOf
<1> HIDE DEF R, Q
<1>7. {Common(list[i].name, list[j].name) + 1 : j \in R}
        = {Common(Registered[i].name, Registered[j].name) + 1 : j \in Q}
  BY <1>1, <1>3, <1>4
<1>8. ShortestOf(list, here, p, i) = ShortestOf(Registered, here, p, i)
  <2>1. list[i].name = Registered[i].name
        /\ Visible(list[i], here, p) = Visible(Registered[i], here, p)
    BY <1>1
  <2> DEFINE E == {Common(list[i].name, list[j].name) + 1 : j \in R}
             F == {Common(Registered[i].name, Registered[j].name) + 1 : j \in Q}
  <2>2. E = F
    BY <1>7
  <2>3. ShortestOf(list, here, p, i) =
          IF Visible(list[i], here, p) THEN Greatest({1} \cup E) ELSE Len(list[i].name)
    BY <1>5
  <2>4. ShortestOf(Registered, here, p, i) =
          IF Visible(Registered[i], here, p) THEN Greatest({1} \cup F)
          ELSE Len(Registered[i].name)
    BY <1>6
  <2> HIDE DEF E, F
  <2>5. Greatest({1} \cup E) = Greatest({1} \cup F)
    BY <2>2
  <2> QED
    BY <2>1, <2>3, <2>4, <2>5
<1> QED
  BY <1>3, <1>8 DEF R, Q

-----------------------------------------------------------------------------
(* The abbreviations.                                                      *)

Right(list, m, p) ==
  \A i \in 1 .. N :
    i \in Reached(Registered, m, p) /\ Visible(Registered[i], m, p) =>
      list[i].unique_len = ShortestOf(Registered, m, p, i)

\* The same commands, if for the abbreviations.
SameCommands(a, b) ==
  /\ Len(a) = Len(b)
  /\ \A i \in 1 .. Len(a) : a[i].type = b[i].type /\ a[i].act = b[i].act

\* cli_build_shortest gives the abbreviations and changes nothing else.
LEMMA BuildIs ==
  ASSUME NEW list, NEW bm, Alike(list, bm), NEW m, NEW p
  PROVE  /\ Alike(cli_build_shortest(list, m, p), bm)
         /\ Right(cli_build_shortest(list, m, p), m, p)
         /\ SameCommands(cli_build_shortest(list, m, p), list)
<1> DEFINE b == cli_build_shortest(list, m, p)
           New(i) == [list[i] EXCEPT !.unique_len = ShortestOf(list, m, p, i)]
           R == Reached(list, m, p)
<1>1. /\ Len(list) \in Nat /\ DOMAIN list = 1 .. Len(list) /\ 1 .. N \subseteq 1 .. Len(list)
      /\ N \in Nat /\ N <= Len(list)
      /\ \A i \in 1 .. Len(list) : Fields \subseteq DOMAIN list[i]
  BY AlikeIs, RegisteredIs DEF Alike
<1>2. \A i \in 1 .. Len(list) : b[i] = IF i \in R THEN New(i) ELSE list[i]
  BY <1>1 DEF cli_build_shortest
<1>3. b = [i \in 1 .. Len(list) |-> b[i]]
  BY <1>1 DEF cli_build_shortest
<1> HIDE DEF b
<1>4. Len(b) = Len(list) /\ IsSequence(b)
  BY <1>1, <1>3, SeqFun
<1>5. ASSUME NEW i \in 1 .. Len(list)
      PROVE  /\ DOMAIN New(i) = DOMAIN list[i]
             /\ \A x \in Fields : x # "unique_len" => New(i)[x] = list[i][x]
             /\ New(i).unique_len = ShortestOf(list, m, p, i)
  <2>1. Fields \subseteq DOMAIN list[i] /\ "unique_len" \in Fields
    BY <1>1 DEF Fields
  <2> QED
    BY <2>1
<1>6. ASSUME NEW i \in 1 .. N PROVE AsRegistered(b[i], Registered[i])
  <2>1. i \in 1 .. Len(list) /\ AsRegistered(list[i], Registered[i])
    BY <1>1 DEF Alike
  <2>2. DOMAIN list[i] = Fields /\ DOMAIN Registered[i] = Fields
    BY <2>1, AsIs, RegisteredIs
  <2>3. CASE i \in R
    <3> DEFINE u == ShortestOf(list, m, p, i)
    <3>1. New(i) = [Registered[i] EXCEPT !.unique_len = u]
      BY <2>1, <2>2 DEF AsRegistered
    <3>2. New(i).unique_len = u
      BY <1>5, <2>1
    <3> HIDE DEF u, New
    <3> QED
      BY <1>2, <2>1, <2>3, <3>1, <3>2 DEF AsRegistered
  <2>4. CASE i \notin R
    BY <1>2, <2>1, <2>4
  <2> QED
    BY <2>3, <2>4
<1>7. ASSUME NEW i \in N + 1 .. Len(list) PROVE Added(b[i], bm)
  <2>1. i \in 1 .. Len(list) /\ Added(list[i], bm)
    BY <1>1 DEF Alike
  <2>2. CASE i \in R
    <3>1. b[i] = New(i) /\ DOMAIN New(i) = DOMAIN list[i]
          /\ \A x \in Fields : x # "unique_len" => New(i)[x] = list[i][x]
      BY <1>2, <1>5, <2>1, <2>2
    <3> HIDE DEF New
    <3> QED
      BY <2>1, <3>1 DEF Added, Fields
  <2>3. CASE i \notin R
    BY <1>2, <2>1, <2>3
  <2> QED
    BY <2>2, <2>3
<1>8. Alike(b, bm)
  BY <1>1, <1>4, <1>6, <1>7 DEF Alike
<1>9. Right(b, m, p)
  <2> SUFFICES ASSUME NEW i \in 1 .. N, i \in Reached(Registered, m, p)
               PROVE  b[i].unique_len = ShortestOf(Registered, m, p, i)
    BY DEF Right
  <2>1. i \in R /\ i \in 1 .. Len(list)
    BY <1>1, ReachedSame
  <2>2. b[i].unique_len = ShortestOf(list, m, p, i)
    BY <1>2, <1>5, <2>1
  <2> QED
    BY <2>2, ShortestSame
<1>10. SameCommands(b, list)
  <2>1. ASSUME NEW i \in 1 .. Len(list) PROVE b[i].type = list[i].type /\ b[i].act = list[i].act
    <3>1. \A x \in Fields : x # "unique_len" => New(i)[x] = list[i][x]
      BY <1>5
    <3>2. "type" \in Fields /\ "act" \in Fields
      BY DEF Fields
    <3> HIDE DEF New
    <3> QED
      BY <1>2, <3>1, <3>2
  <2> QED
    BY <1>4, <2>1 DEF SameCommands
<1> QED
  BY <1>8, <1>9, <1>10 DEF b

\* The greatest of some natural numbers below a bound.
LEMMA GreatestIs ==
  ASSUME NEW b \in Nat, NEW S \in SUBSET (0 .. b), S # {}
  PROVE  Greatest(S) \in S /\ \A y \in S : y <= Greatest(S)
<1> DEFINE T == {b - x : x \in S}
<1>1. T \in SUBSET Nat /\ T # {}
  <2>1. PICK x : x \in S
    OBVIOUS
  <2>2. b - x \in T
    BY <2>1
  <2>3. \A y \in 0 .. b : b - y \in Nat
    OBVIOUS
  <2> QED
    BY <2>2, <2>3
<1>2. PICK t \in T : \A u \in T : t <= u
  <2> HIDE DEF T
  <2> QED
    BY <1>1, NatMin
<1>3. PICK x \in S : t = b - x
  BY <1>2
<1>4. \A y \in S : x >= y
  <2> TAKE y \in S
  <2>1. b - y \in T
    OBVIOUS
  <2>2. t <= b - y
    BY <1>2, <2>1
  <2>3. x \in 0 .. b /\ y \in 0 .. b
    OBVIOUS
  <2> QED
    BY <1>3, <2>2, <2>3
<1>5. Greatest(S) \in S /\ \A y \in S : Greatest(S) >= y
  BY <1>3, <1>4 DEF Greatest
<1>6. \A y \in S : y \in Nat
  OBVIOUS
<1> QED
  BY <1>5, <1>6

\* Two names begin alike as far as a beginning of both goes, and may further.
LEMMA CommonIs ==
  ASSUME NEW a, IsSequence(a), NEW b, IsSequence(b)
  PROVE  /\ Common(a, b) \in 0 .. Len(a)
         /\ \A n \in 0 .. Len(a) :
              IsPrefixOf(SubSeq(a, 1, n), b) => n <= Common(a, b)
<1> DEFINE S == {n \in 0 .. Len(a) : n <= Len(b) /\ SubSeq(a, 1, n) = SubSeq(b, 1, n)}
<1>1. Len(a) \in Nat /\ Len(b) \in Nat
  BY SeqIs
<1>2. 0 \in S
  <2>1. SubSeq(a, 1, 0) = <<>> /\ SubSeq(b, 1, 0) = <<>>
    BY DEF IsSequence
  <2> QED
    BY <1>1, <2>1
<1>3. Common(a, b) = Greatest(S)
  BY DEF Common
<1>4. S \in SUBSET (0 .. Len(a)) /\ S # {}
  BY <1>2
<1>5. ASSUME NEW n \in 0 .. Len(a), IsPrefixOf(SubSeq(a, 1, n), b) PROVE n \in S
  <2>1. Len(SubSeq(a, 1, n)) = n
    BY SeqPart
  <2> QED
    BY <1>5, <2>1 DEF IsPrefixOf
<1> HIDE DEF S
<1>6. Greatest(S) \in S /\ \A y \in S : y <= Greatest(S)
  BY <1>1, <1>4, GreatestIs
<1> QED
  BY <1>3, <1>4, <1>5, <1>6

\* An abbreviation that is taken begins no other command that is open there.
LEMMA RightNamesOne ==
  ASSUME NEW bm, Alike(commands, bm), Right(commands, mode, privilege)
  PROVE  AbbreviationNamesOne
<1>1. /\ DOMAIN commands = 1 .. Len(commands) /\ 1 .. N \subseteq 1 .. Len(commands)
      /\ Rooted(commands)
  BY AlikeIs
<1> SUFFICES ASSUME NEW i \in Reached(commands, mode, privilege),
                    commands[i].type # "buildmode",
                    Visible(commands[i], mode, privilege),
                    NEW n \in 1 .. Len(commands[i].name) - 1,
                    Abbreviates(SubSeq(commands[i].name, 1, n), commands[i]),
                    NEW j \in Rivals(commands, mode, privilege, i),
                    IsPrefixOf(SubSeq(commands[i].name, 1, n), commands[j].name)
             PROVE  FALSE
  BY DEF AbbreviationNamesOne
<1>2. i \in 1 .. Len(commands)
  BY <1>1, ReachedIs
<1>3. i \in 1 .. N
  <2>1. i \in 1 .. N \/ i \in N + 1 .. Len(commands)
    BY <1>2, AlikeIs
  <2> QED
    BY <2>1 DEF Alike, Added
<1>4. /\ j \in 1 .. N
      /\ Rivals(commands, mode, privilege, i) = Rivals(Registered, mode, privilege, i)
      /\ ShortestOf(commands, mode, privilege, i) = ShortestOf(Registered, mode, privilege, i)
  <2>1. Rivals(commands, mode, privilege, i) = Rivals(Registered, mode, privilege, i)
        /\ ShortestOf(commands, mode, privilege, i) = ShortestOf(Registered, mode, privilege, i)
    BY <1>3, ShortestSame
  <2>2. j \in DOMAIN Registered
    BY <2>1 DEF Rivals, Siblings
  <2> QED
    BY <2>1, <2>2, RegisteredIs
<1> DEFINE name == Registered[i].name
           other == Registered[j].name
           R == Rivals(Registered, mode, privilege, i)
           S == {1} \cup {Common(name, Registered[k].name) + 1 : k \in R}
<1>5. commands[i].name = name /\ commands[j].name = other
  <2>1. AsRegistered(commands[i], Registered[i]) /\ AsRegistered(commands[j], Registered[j])
    BY <1>3, <1>4 DEF Alike
  <2> QED
    BY <1>3, <1>4, <2>1, AsIs
<1>6. \A k \in R : k \in 1 .. N
  BY RegisteredIs DEF Rivals, Siblings
<1>7. IsSequence(name) /\ \A k \in 1 .. N : IsSequence(Registered[k].name)
  BY <1>3, RegisteredIs
<1>8. Len(name) \in Nat
  BY <1>7, SeqIs
<1>9. commands[i].unique_len = Greatest(S)
  <2>1. i \in Reached(Registered, mode, privilege)
    BY <1>3, ReachedSame
  <2>2. Visible(Registered[i], mode, privilege)
    BY <1>3, AlikeVisible
  <2>3. commands[i].unique_len = ShortestOf(Registered, mode, privilege, i)
    BY <1>3, <2>1, <2>2 DEF Right
  <2> QED
    BY <2>2, <2>3 DEF ShortestOf
<1>10. S \in SUBSET (0 .. Len(name) + 1) /\ S # {}
  <2>1. \A k \in R : Common(name, Registered[k].name) \in 0 .. Len(name)
    <3> TAKE k \in R
    <3>1. IsSequence(Registered[k].name)
      BY <1>6, <1>7
    <3> HIDE DEF name
    <3> QED
      BY <1>7, <3>1, CommonIs
  <2> QED
    BY <1>8, <2>1
<1>11. Common(name, other) + 1 \in S
  BY <1>4
<1> HIDE DEF S
<1>12. Greatest(S) \in Nat /\ Common(name, other) + 1 <= Greatest(S)
  <2>1. Len(name) + 1 \in Nat
    BY <1>8
  <2>2. Greatest(S) \in S /\ \A y \in S : y <= Greatest(S)
    BY <1>10, <2>1, GreatestIs
  <2>3. Greatest(S) \in Nat
    <3> DEFINE b == Len(name) + 1
    <3>1. Greatest(S) \in 0 .. b /\ b \in Nat
      BY <1>10, <2>1, <2>2
    <3> HIDE DEF b
    <3> QED
      BY <3>1
  <2>4. Common(name, other) + 1 <= Greatest(S)
    BY <1>11, <2>2
  <2> QED
    BY <2>3, <2>4
<1>13. n <= Common(name, other) /\ Common(name, other) \in 0 .. Len(name)
  <2>1. IsSequence(other)
    BY <1>4, <1>7
  <2>2. n \in 0 .. Len(name) /\ IsPrefixOf(SubSeq(name, 1, n), other)
    BY <1>5, <1>8
  <2> HIDE DEF name, other
  <2> QED
    BY <1>7, <2>1, <2>2, CommonIs
<1>14. Len(SubSeq(name, 1, n)) = n /\ n # Len(name)
  <2>1. n \in 0 .. Len(name)
    BY <1>5, <1>8
  <2> HIDE DEF name
  <2>2. Len(SubSeq(name, 1, n)) = n
    BY <1>7, <2>1, SeqPart
  <2> QED
    BY <1>5, <1>8, <2>2
<1>15. n >= Greatest(S)
  BY <1>5, <1>9, <1>14 DEF Abbreviates
<1> QED
  BY <1>12, <1>13, <1>15

-----------------------------------------------------------------------------
(* The walk that finds a command.                                          *)

\* A set of natural numbers that is not empty has its least member.
LEMMA LeastIs ==
  ASSUME NEW S \in SUBSET Nat, S # {}
  PROVE  Least(S) \in S
<1>1. \E m \in S : \A k \in S : m <= k
  BY NatMin
<1> QED
  BY <1>1 DEF Least

MatchesOf(list, p, type, word, parent) ==
  {i \in DOMAIN list :
     /\ list[i].parent = parent /\ list[i].type = type
     /\ list[i].privilege <= p
     /\ Abbreviates(word, list[i])}

AnyOf(list, M) == {i \in M : list[i].mode = MODE_ANY}

FoundOf(list, here, M) ==
  {i \in M : \/ list[i].mode = here
             \/ i \in AnyOf(list, M) /\ \E j \in AnyOf(list, M) : j < i}

OfConfigOf(list, here, M) ==
  {i \in M : here > MODE_CONFIG /\ list[i].mode = MODE_CONFIG}

CalledOf(list, i) == IF list[i].act # "none" THEN "OK" ELSE "ERROR"

TakeOf(f, list, words, i, k, d) ==
  IF \A j \in DOMAIN list : list[j].parent # i THEN Walk(CalledOf(list, i), i, k, d)
  ELSE IF k = Len(words) THEN Walk(CalledOf(list, i), i, k, d)
  ELSE IF f[k + 1][i][d].rc # "ERROR_ARG" THEN f[k + 1][i][d]
  ELSE Walk(CalledOf(list, i), i, k, f[k + 1][i][d].dropped)

ListOf(commands0, p, dropped) ==
  IF dropped THEN cli_build_shortest(commands0, MODE_CONFIG, p) ELSE commands0

LocStep(f, commands0, m, p, type, words, parent, k, dropped) ==
  LET list == ListOf(commands0, p, dropped)
      here == IF dropped THEN MODE_CONFIG ELSE m
      M == MatchesOf(list, p, type, words[k], parent)
  IN IF FoundOf(list, here, M) # {}
     THEN TakeOf(f, list, words, Least(FoundOf(list, here, M)), k, dropped)
     ELSE IF OfConfigOf(list, here, M) # {}
     THEN TakeOf(f, list, words, Greatest(OfConfigOf(list, here, M)), k, TRUE)
     ELSE IF AnyOf(list, M) # {}
     THEN TakeOf(f, list, words, Least(AnyOf(list, M)), k, dropped)
     ELSE Walk("ERROR_ARG", 0, k, dropped)

IsLoc(f, commands0, m, p, type, words) ==
  f = [k \in 1 .. Len(words) |-> [parent \in 0 .. Len(commands0) |-> [dropped \in BOOLEAN |->
         LocStep(f, commands0, m, p, type, words, parent, k, dropped)]]]

LocOf(commands0, m, p, type, words) == CHOOSE f : IsLoc(f, commands0, m, p, type, words)

\* The walk of cli_int_locate_command as a function of word, parent and mode.
LEMMA LocIs ==
  \A commands0, m, p, type, words :
    cli_int_locate_command(commands0, m, p, type, words)
      = LocOf(commands0, m, p, type, words)[1][0][FALSE]
BY DEF cli_int_locate_command, LocOf, IsLoc, LocStep, ListOf, TakeOf, CalledOf, OfConfigOf,
       FoundOf, AnyOf, MatchesOf

\* The list that the walk looks in.
LEMMA ListIs ==
  ASSUME NEW list, NEW bm, Alike(list, bm), NEW p, NEW d \in BOOLEAN
  PROVE  Alike(ListOf(list, p, d), bm) /\ SameCommands(ListOf(list, p, d), list)
<1>1. CASE d
  <2>1. ListOf(list, p, d) = cli_build_shortest(list, MODE_CONFIG, p)
    BY <1>1 DEF ListOf
  <2> QED
    BY <2>1, BuildIs
<1>2. CASE ~d
  <2>1. ListOf(list, p, d) = list
    BY <1>2 DEF ListOf
  <2> QED
    BY <2>1 DEF SameCommands
<1> QED
  BY <1>1, <1>2

\* One that matches is a command of the list, of the type asked for.
LEMMA PickIs ==
  ASSUME NEW list, NEW bm, Alike(list, bm), NEW p, NEW type, NEW word, NEW parent,
         NEW M, M = MatchesOf(list, p, type, word, parent)
  PROVE  /\ M \subseteq 1 .. Len(list) /\ \A i \in M : list[i].type = type
         /\ \A S \in SUBSET M : S # {} => Least(S) \in S /\ Greatest(S) \in S
<1>1. Len(list) \in Nat /\ DOMAIN list = 1 .. Len(list)
  BY AlikeIs
<1>2. M \subseteq 1 .. Len(list) /\ \A i \in M : list[i].type = type
  BY <1>1 DEF MatchesOf
<1>3. ASSUME NEW S \in SUBSET M, S # {} PROVE Least(S) \in S /\ Greatest(S) \in S
  <2>1. S \in SUBSET Nat /\ S \in SUBSET (0 .. Len(list))
    BY <1>1, <1>2
  <2>2. Least(S) \in S
    BY <1>3, <2>1, LeastIs
  <2>3. Greatest(S) \in S
    BY <1>1, <1>3, <2>1, GreatestIs
  <2> QED
    BY <2>2, <2>3
<1> QED
  BY <1>2, <1>3


LocShape(f, g, list, m, p, type, words, parent, k, dropped) ==
  LET L == ListOf(list, p, dropped)
      s == LocStep(f, list, m, p, type, words, parent, k, dropped)
      t == LocStep(g, list, m, p, type, words, parent, k, dropped)
  IN \/ s = Walk("ERROR_ARG", 0, k, dropped) /\ t = s
     \/ \E i \in 1 .. Len(L), d \in BOOLEAN :
          /\ L[i].type = type
          /\ d = dropped \/ (~dropped /\ m > MODE_CONFIG /\ L[i].mode = MODE_CONFIG)
          /\ s = TakeOf(f, L, words, i, k, d) /\ t = TakeOf(g, L, words, i, k, d)

\* A step of the walk finds nothing, or takes a command of the list.
LEMMA LocShapes ==
  ASSUME NEW f, NEW g, NEW list, NEW bm, Alike(list, bm), NEW m, NEW p, NEW type, NEW words,
         NEW parent, NEW k, NEW dropped \in BOOLEAN
  PROVE  LocShape(f, g, list, m, p, type, words, parent, k, dropped)
<1> DEFINE L == ListOf(list, p, dropped)
           here == IF dropped THEN MODE_CONFIG ELSE m
           M == MatchesOf(L, p, type, words[k], parent)
           A == FoundOf(L, here, M)
           B == OfConfigOf(L, here, M)
           C == AnyOf(L, M)
           s == LocStep(f, list, m, p, type, words, parent, k, dropped)
           t == LocStep(g, list, m, p, type, words, parent, k, dropped)
<1>1. /\ s = IF A # {} THEN TakeOf(f, L, words, Least(A), k, dropped)
             ELSE IF B # {} THEN TakeOf(f, L, words, Greatest(B), k, TRUE)
             ELSE IF C # {} THEN TakeOf(f, L, words, Least(C), k, dropped)
             ELSE Walk("ERROR_ARG", 0, k, dropped)
      /\ t = IF A # {} THEN TakeOf(g, L, words, Least(A), k, dropped)
             ELSE IF B # {} THEN TakeOf(g, L, words, Greatest(B), k, TRUE)
             ELSE IF C # {} THEN TakeOf(g, L, words, Least(C), k, dropped)
             ELSE Walk("ERROR_ARG", 0, k, dropped)
  BY DEF LocStep
<1>2. Alike(L, bm)
  BY ListIs
<1> HIDE DEF L
<1>3. /\ M \subseteq 1 .. Len(L) /\ \A i \in M : L[i].type = type
      /\ \A S \in SUBSET M : S # {} => Least(S) \in S /\ Greatest(S) \in S
  BY <1>2, PickIs
<1>4. A \in SUBSET M /\ C \in SUBSET M
  BY DEF FoundOf, AnyOf
<1>5. B \in SUBSET M /\ \A i \in B : ~dropped /\ m > MODE_CONFIG /\ L[i].mode = MODE_CONFIG
  <2>1. ~(MODE_CONFIG > MODE_CONFIG)
    BY DEF MODE_CONFIG
  <2> QED
    BY <2>1 DEF OfConfigOf
<1> HIDE DEF M, A, B, C, s, t
<1>6. CASE A # {}
  <2>1. Least(A) \in 1 .. Len(L) /\ L[Least(A)].type = type
    BY <1>3, <1>4, <1>6
  <2>2. s = TakeOf(f, L, words, Least(A), k, dropped) /\ t = TakeOf(g, L, words, Least(A), k, dropped)
    BY <1>1, <1>6
  <2> QED
    BY <2>1, <2>2 DEF LocShape, L, s, t
<1>7. CASE A = {} /\ B # {}
  <2>1. Greatest(B) \in B
    BY <1>3, <1>5, <1>7
  <2>2. /\ Greatest(B) \in 1 .. Len(L) /\ L[Greatest(B)].type = type
        /\ ~dropped /\ m > MODE_CONFIG /\ L[Greatest(B)].mode = MODE_CONFIG
    BY <1>3, <1>5, <2>1
  <2>3. s = TakeOf(f, L, words, Greatest(B), k, TRUE) /\ t = TakeOf(g, L, words, Greatest(B), k, TRUE)
    BY <1>1, <1>7
  <2> QED
    BY <2>2, <2>3 DEF LocShape, L, s, t
<1>8. CASE A = {} /\ B = {} /\ C # {}
  <2>1. Least(C) \in 1 .. Len(L) /\ L[Least(C)].type = type
    BY <1>3, <1>4, <1>8
  <2>2. s = TakeOf(f, L, words, Least(C), k, dropped) /\ t = TakeOf(g, L, words, Least(C), k, dropped)
    BY <1>1, <1>8
  <2> QED
    BY <2>1, <2>2 DEF LocShape, L, s, t
<1>9. CASE A = {} /\ B = {} /\ C = {}
  BY <1>1, <1>9 DEF LocShape, s, t
<1> QED
  BY <1>6, <1>7, <1>8, <1>9

\* A step of the walk depends on the words after it only.
LEMMA LocAgree ==
  ASSUME NEW f, NEW g, NEW list, NEW bm, Alike(list, bm), NEW m, NEW p, NEW type, NEW words,
         NEW parent, NEW k, NEW dropped \in BOOLEAN,
         k = Len(words) \/ \A i \in 1 .. Len(list), d \in BOOLEAN : f[k + 1][i][d] = g[k + 1][i][d]
  PROVE  LocStep(f, list, m, p, type, words, parent, k, dropped)
           = LocStep(g, list, m, p, type, words, parent, k, dropped)
<1> DEFINE L == ListOf(list, p, dropped)
           s == LocStep(f, list, m, p, type, words, parent, k, dropped)
           t == LocStep(g, list, m, p, type, words, parent, k, dropped)
<1>1. Len(L) = Len(list)
  BY ListIs DEF SameCommands
<1>2. \/ s = Walk("ERROR_ARG", 0, k, dropped) /\ t = s
      \/ \E i \in 1 .. Len(L), d \in BOOLEAN :
           s = TakeOf(f, L, words, i, k, d) /\ t = TakeOf(g, L, words, i, k, d)
  <2>1. LocShape(f, g, list, m, p, type, words, parent, k, dropped)
    BY LocShapes
  <2> QED
    BY <2>1, Zenon DEF LocShape
<1> HIDE DEF L, s, t
<1>3. ASSUME NEW i \in 1 .. Len(list), NEW d \in BOOLEAN
      PROVE  TakeOf(f, L, words, i, k, d) = TakeOf(g, L, words, i, k, d)
  BY DEF TakeOf
<1>4. s = t
  BY <1>1, <1>2, <1>3
<1> QED
  BY <1>4 DEF s, t

\* The same of one walk, for all its steps.
LEMMA LocAhead ==
  ASSUME NEW list, NEW bm, Alike(list, bm), NEW m, NEW p, NEW type, NEW words
  PROVE  \A f, g, parent, k : \A dropped \in BOOLEAN :
           (k = Len(words) \/
              \A i \in 1 .. Len(list), d \in BOOLEAN : f[k + 1][i][d] = g[k + 1][i][d]) =>
             LocStep(f, list, m, p, type, words, parent, k, dropped)
               = LocStep(g, list, m, p, type, words, parent, k, dropped)
<1> HIDE DEF Alike
<1> SUFFICES ASSUME NEW f, NEW g, NEW parent, NEW k, NEW dropped \in BOOLEAN,
                    k = Len(words) \/
                      \A i \in 1 .. Len(list), d \in BOOLEAN : f[k + 1][i][d] = g[k + 1][i][d]
             PROVE  LocStep(f, list, m, p, type, words, parent, k, dropped)
                      = LocStep(g, list, m, p, type, words, parent, k, dropped)
  OBVIOUS
<1> QED
  BY LocAgree

\* The walk ends: it goes from word to word.
LEMMA LocExists ==
  ASSUME NEW list, NEW bm, Alike(list, bm), NEW m, NEW p, NEW type, NEW words,
         Len(words) \in Nat
  PROVE  \E f : IsLoc(f, list, m, p, type, words)
<1> DEFINE n == Len(list)
           K == Len(words)
           Step(f, x, k, d) == LocStep(f, list, m, p, type, words, x, k, d)
           Part(f, j) == \A x \in 0 .. n, k \in 1 .. K, d \in BOOLEAN :
                           k > K - j => f[k][x][d] = Step(f, x, k, d)
           S == {j \in 0 .. K : \E f : Part(f, j)}
<1>0. n \in Nat /\ K \in Nat
  BY AlikeIs
<1>a. ASSUME NEW f, NEW g, NEW x, NEW k, NEW d \in BOOLEAN,
             k = K \/ \A i \in 1 .. n, e \in BOOLEAN : f[k + 1][i][e] = g[k + 1][i][e]
      PROVE  Step(f, x, k, d) = Step(g, x, k, d)
  <2> HIDE DEF Alike
  <2>1. \A u, v, y, h : \A b \in BOOLEAN :
          (h = K \/ \A i \in 1 .. n, e \in BOOLEAN : u[h + 1][i][e] = v[h + 1][i][e]) =>
            Step(u, y, h, b) = Step(v, y, h, b)
    BY LocAhead
  <2> HIDE DEF Step
  <2> QED
    BY <1>a, <2>1
<1>1. 0 \in S
  <2>1. \A k \in 1 .. K : ~(k > K - 0)
    BY <1>0
  <2>2. \A f : Part(f, 0)
    BY <2>1
  <2> HIDE DEF Part
  <2> QED
    BY <1>0, <2>2
<1>2. ASSUME NEW j \in 0 .. K - 1, j \in S PROVE j + 1 \in S
  <2>1. PICK f : Part(f, j)
    BY <1>2
  <2> DEFINE V(x, k, d) == IF k = K - j THEN Step(f, x, k, d) ELSE f[k][x][d]
             g == [k \in 1 .. K |-> [x \in 0 .. n |-> [d \in BOOLEAN |-> V(x, k, d)]]]
  <2> HIDE DEF V, Step
  <2>2. \A x \in 0 .. n, k \in 1 .. K, d \in BOOLEAN : g[k][x][d] = V(x, k, d)
    OBVIOUS
  <2> HIDE DEF g
  <2>3. ASSUME NEW x \in 0 .. n, NEW k \in 1 .. K, NEW d \in BOOLEAN, k > K - (j + 1)
        PROVE  g[k][x][d] = Step(g, x, k, d)
    <3>1. k = K \/ (k # K /\ k + 1 \in 1 .. K /\ k + 1 # K - j)
      BY <1>0, <2>3
    <3>2. \A i \in 1 .. n : i \in 0 .. n
      BY <1>0
    <3>3. k = K \/ \A i \in 1 .. n, e \in BOOLEAN : f[k + 1][i][e] = g[k + 1][i][e]
      BY <2>2, <3>1, <3>2 DEF V
    <3>4. Step(f, x, k, d) = Step(g, x, k, d)
      BY <3>3, <1>a
    <3>5. CASE k = K - j
      BY <2>2, <3>4, <3>5 DEF V
    <3>6. CASE k # K - j
      <4>1. k > K - j
        BY <1>0, <2>3, <3>6
      <4>2. f[k][x][d] = Step(f, x, k, d)
        BY <2>1, <4>1
      <4> QED
        BY <2>2, <3>4, <3>6, <4>2 DEF V
    <3> QED
      BY <3>5, <3>6
  <2>4. Part(g, j + 1)
    BY <2>3
  <2>5. j + 1 \in 0 .. K
    BY <1>0
  <2> HIDE DEF Part
  <2> QED
    BY <2>4, <2>5
<1>3. \A j \in 0 .. K : j \in S
  <2> HIDE DEF S, K
  <2> QED
    BY <1>0, <1>1, <1>2, BoundedInd
<1>4. PICK f : Part(f, K)
  <2>1. K \in 0 .. K
    BY <1>0
  <2> QED
    BY <1>3, <2>1
<1> DEFINE g == [k \in 1 .. K |-> [x \in 0 .. n |-> [d \in BOOLEAN |-> f[k][x][d]]]]
<1> HIDE DEF Step
<1>5. \A x \in 0 .. n, k \in 1 .. K, d \in BOOLEAN : g[k][x][d] = f[k][x][d]
  OBVIOUS
<1>6. ASSUME NEW x \in 0 .. n, NEW k \in 1 .. K, NEW d \in BOOLEAN
      PROVE  f[k][x][d] = Step(g, x, k, d)
  <2>1. k > K - K
    BY <1>0
  <2>2. f[k][x][d] = Step(f, x, k, d)
    BY <1>4, <2>1
  <2>3. k = K \/ (k # K /\ k + 1 \in 1 .. K)
    BY <1>0
  <2>4. \A i \in 1 .. n : i \in 0 .. n
    BY <1>0
  <2> HIDE DEF g
  <2>5. k = K \/ \A i \in 1 .. n, e \in BOOLEAN : f[k + 1][i][e] = g[k + 1][i][e]
    BY <1>5, <2>3, <2>4
  <2>6. Step(f, x, k, d) = Step(g, x, k, d)
    BY <2>5, <1>a
  <2> QED
    BY <2>2, <2>6
<1>7. g = [k \in 1 .. K |-> [x \in 0 .. n |-> [d \in BOOLEAN |-> Step(g, x, k, d)]]]
  <2> DEFINE h == [k \in 1 .. K |-> [x \in 0 .. n |-> [d \in BOOLEAN |-> Step(g, x, k, d)]]]
  <2> HIDE DEF h
  <2> QED
    BY <1>6
<1> HIDE DEF g
<1>8. IsLoc(g, list, m, p, type, words)
  BY <1>7 DEF IsLoc, Step
<1> QED
  BY <1>8

\* Where the walk ends is a command of the type asked for.
LocFine(r, list, type) ==
  r.rc = "OK" => /\ r.command \in 1 .. Len(list) /\ list[r.command].type = type
                 /\ r.word \in Nat \ {0}

\* The walk cannot fall back to the configuration mode.
Stays(list, m, type) ==
  \A i \in 1 .. Len(list) : list[i].type = type => ~(m > MODE_CONFIG /\ list[i].mode = MODE_CONFIG)

\* The walk finds a command of the type, and falls back only to such a one.
LEMMA Locates ==
  ASSUME NEW list, NEW bm, Alike(list, bm), NEW m, NEW p, NEW type, NEW words,
         Len(words) \in Nat \ {0}
  PROVE  LET w == cli_int_locate_command(list, m, p, type, words)
         IN LocFine(w, list, type) /\ (Stays(list, m, type) => w.dropped = FALSE)
<1> DEFINE f == LocOf(list, m, p, type, words)
           n == Len(list)
           K == Len(words)
           Good(r, d) == /\ LocFine(r, list, type)
                         /\ Stays(list, m, type) /\ d = FALSE => r.dropped = FALSE
           S == {j \in 0 .. K : \A k \in 1 .. K, x \in 0 .. n, d \in BOOLEAN :
                                  k > K - j => Good(f[k][x][d], d)}
<1>0. n \in Nat /\ K \in Nat /\ K # 0
  BY AlikeIs
<1>1. IsLoc(f, list, m, p, type, words)
  BY LocExists DEF LocOf
<1> HIDE DEF f
<1>2. ASSUME NEW k \in 1 .. K, NEW x \in 0 .. n, NEW d \in BOOLEAN
      PROVE  f[k][x][d] = LocStep(f, list, m, p, type, words, x, k, d)
  <2> DEFINE h == [parent \in 0 .. n |-> [dropped \in BOOLEAN |->
                     LocStep(f, list, m, p, type, words, parent, k, dropped)]]
  <2>1. f = [l \in 1 .. K |-> [parent \in 0 .. n |-> [dropped \in BOOLEAN |->
               LocStep(f, list, m, p, type, words, parent, l, dropped)]]]
    BY <1>1 DEF IsLoc
  <2>2. f[k] = h
    BY <2>1, Zenon
  <2>3. h[x][d] = LocStep(f, list, m, p, type, words, x, k, d)
    OBVIOUS
  <2> QED
    BY <2>2, <2>3
<1>3. 0 \in S
  <2>1. \A k \in 1 .. K : ~(k > K - 0)
    BY <1>0
  <2> QED
    BY <1>0, <2>1
<1>4. ASSUME NEW j \in 0 .. K - 1, j \in S PROVE j + 1 \in S
  <2>1. ASSUME NEW k \in 1 .. K, NEW x \in 0 .. n, NEW d \in BOOLEAN, k > K - (j + 1)
        PROVE  Good(f[k][x][d], d)
    <3> DEFINE L == ListOf(list, p, d)
               s == LocStep(f, list, m, p, type, words, x, k, d)
    <3>1. Len(L) = n /\ \A i \in 1 .. n : L[i].type = list[i].type
      BY ListIs DEF SameCommands
    <3>2. d = FALSE => L = list
      BY DEF ListOf
    <3>3. LocShape(f, f, list, m, p, type, words, x, k, d)
      BY LocShapes
    <3>4. \/ s = Walk("ERROR_ARG", 0, k, d)
          \/ \E i \in 1 .. Len(L), e \in BOOLEAN :
               /\ L[i].type = type
               /\ e = d \/ (~d /\ m > MODE_CONFIG /\ L[i].mode = MODE_CONFIG)
               /\ s = TakeOf(f, L, words, i, k, e)
      BY <3>3, Zenon DEF LocShape
    <3> HIDE DEF L, s
    <3>5. CASE s = Walk("ERROR_ARG", 0, k, d)
      BY <1>2, <3>5 DEF s, Walk, LocFine
    <3>6. ASSUME NEW i \in 1 .. Len(L), NEW e \in BOOLEAN, L[i].type = type,
                 e = d \/ (~d /\ m > MODE_CONFIG /\ L[i].mode = MODE_CONFIG),
                 s = TakeOf(f, L, words, i, k, e)
          PROVE  Good(s, d)
      <4>1. i \in 1 .. n /\ list[i].type = type /\ i \in 0 .. n
        BY <1>0, <3>1, <3>6
      <4>2. Stays(list, m, type) /\ d = FALSE => e = FALSE
        BY <3>2, <3>6, <4>1 DEF Stays
      <4>3. \A rc, dropped : (Stays(list, m, type) /\ d = FALSE => dropped = FALSE) =>
              Good(Walk(rc, i, k, dropped), d)
        BY <4>1 DEF Walk, LocFine
      <4>4. k # K => Good(f[k + 1][i][e], e)
        <5>1. k # K => k + 1 \in 1 .. K /\ k + 1 > K - j
          BY <1>0, <2>1
        <5> QED
          BY <1>4, <4>1, <5>1
      <4>5. \/ \E rc : s = Walk(rc, i, k, e)
            \/ k # K /\ s = f[k + 1][i][e]
            \/ k # K /\ \E rc : s = Walk(rc, i, k, f[k + 1][i][e].dropped)
        BY <3>6 DEF TakeOf
      <4> HIDE DEF Good
      <4>6. CASE \E rc : s = Walk(rc, i, k, e)
        BY <4>2, <4>3, <4>6
      <4>7. CASE k # K /\ s = f[k + 1][i][e]
        BY <4>2, <4>4, <4>7 DEF Good
      <4>8. CASE k # K /\ \E rc : s = Walk(rc, i, k, f[k + 1][i][e].dropped)
        <5>1. Stays(list, m, type) /\ d = FALSE => f[k + 1][i][e].dropped = FALSE
          BY <4>2, <4>4, <4>8 DEF Good
        <5> QED
          BY <4>3, <4>8, <5>1
      <4> QED
        BY <4>5, <4>6, <4>7, <4>8
    <3>7. f[k][x][d] = s
      BY <1>2 DEF s
    <3> HIDE DEF Good
    <3>8. CASE s # Walk("ERROR_ARG", 0, k, d)
      BY <3>4, <3>6, <3>7, <3>8
    <3> QED
      BY <3>5, <3>8
  <2>2. j + 1 \in 0 .. K
    BY <1>0
  <2> HIDE DEF Good
  <2> QED
    BY <2>1, <2>2
<1>5. K \in S
  <2> HIDE DEF S, K
  <2>1. \A j \in 0 .. K : j \in S
    BY <1>0, <1>3, <1>4, BoundedInd
  <2>2. K \in 0 .. K
    BY <1>0
  <2> QED
    BY <2>1, <2>2
<1>6. Good(f[1][0][FALSE], FALSE)
  <2>1. 1 \in 1 .. K /\ 0 \in 0 .. n /\ 1 > K - K
    BY <1>0
  <2> HIDE DEF Good
  <2> QED
    BY <1>5, <2>1
<1>7. cli_int_locate_command(list, m, p, type, words) = f[1][0][FALSE]
  BY LocIs DEF f
<1> QED
  BY <1>6, <1>7

-----------------------------------------------------------------------------
(* The session.                                                            *)

\* The abbreviations fit the mode and the privilege; a buildmode keeps its
\* mode, its settings and its commands, and there is nothing of it otherwise.
Sound(list, m, p, bm) ==
  /\ {"command", "mode", "transient", "found"} \subseteq DOMAIN bm
  /\ IsSequence(bm.found) /\ Valued(bm.found)
  /\ Alike(list, bm.mode)
  /\ Right(list, m, p)
  /\ IF Building(bm)
     THEN /\ bm.mode = m /\ bm.command \in 1 .. N
          /\ \E i \in N + 1 .. Len(list) : list[i].act = "execute"
     ELSE Len(list) = N

\* Nothing is set when no buildmode is open.
LEMMA NothingSet ==
  /\ {"command", "mode", "transient", "found"} \subseteq DOMAIN NoBuildmode
  /\ IsSequence(NoBuildmode.found) /\ Valued(NoBuildmode.found)
  /\ NoBuildmode.mode = 0 /\ ~Building(NoBuildmode)
<1>1. NoBuildmode.found = <<>> /\ ~Building(NoBuildmode) /\ NoBuildmode.mode = 0
  BY DEF NoBuildmode, Building
<1>2. Valued(<<>>)
  BY DEF Valued
<1>3. {"command", "mode", "transient", "found"} \subseteq DOMAIN NoBuildmode
  BY DEF NoBuildmode
<1> QED
  BY <1>1, <1>2, <1>3, SeqEmpty

\* Without the commands of a buildmode, those that were registered are left.
LEMMA FreeIs ==
  ASSUME NEW list, NEW bm, Alike(list, bm)
  PROVE  /\ IsSequence(FreeBuildmode(list)) /\ Len(FreeBuildmode(list)) = N
         /\ \A i \in 1 .. N : FreeBuildmode(list)[i] = list[i]
<1>1. /\ IsSequence(list) /\ Len(list) \in Nat /\ DOMAIN list = 1 .. Len(list) /\ N \in 0 .. Len(list)
      /\ \A i \in 1 .. Len(list) : i \in 1 .. N \/ i \in N + 1 .. Len(list)
  BY AlikeIs, RegisteredIs DEF Alike
<1> DEFINE K == OtherPlaces(list, "buildmode")
<1>2. ASSUME NEW i \in 1 .. Len(list) PROVE i \in K <=> i <= N
  <2>1. i \in 1 .. N <=> list[i].type \in {"regular", "filter"}
    BY AlikeIs
  <2>2. i \in N + 1 .. Len(list) => list[i].type = "buildmode"
    BY DEF Alike, Added
  <2>3. i \in 1 .. N <=> i <= N
    BY <1>1
  <2> QED
    BY <1>1, <2>1, <2>2, <2>3 DEF OtherPlaces
<1>3. FreeBuildmode(list) = SelectOf(list, K)[Len(list)]
  BY <1>1, UnregisterIs DEF FreeBuildmode
<1> HIDE DEF K
<1>4. FreeBuildmode(list) = SubSeq(list, 1, N)
  BY <1>1, <1>2, <1>3, SelectFirst
<1> QED
  BY <1>1, <1>4, SeqPart

\* Without its buildmode a session is sound in the mode it was in.
LEMMA FreeSound ==
  ASSUME NEW list, NEW bm, Alike(list, bm), NEW m, NEW p, Right(list, m, p)
  PROVE  /\ \A other : Alike(FreeBuildmode(list), other)
         /\ Right(FreeBuildmode(list), m, p)
         /\ Len(FreeBuildmode(list)) = N
         /\ Sound(FreeBuildmode(list), m, p, NoBuildmode)
<1> DEFINE b == FreeBuildmode(list)
<1>1. IsSequence(b) /\ Len(b) = N /\ \A i \in 1 .. N : b[i] = list[i]
  BY FreeIs
<1> HIDE DEF b
<1>2. N \in Nat
  BY RegisteredIs
<1>3. \A other : Alike(b, other)
  BY <1>1, <1>2 DEF Alike
<1>4. Right(b, m, p)
  BY <1>1 DEF Right
<1>5. Sound(b, m, p, NoBuildmode)
  BY <1>1, <1>3, <1>4, NothingSet DEF Sound
<1> QED
  BY <1>1, <1>3, <1>4, <1>5 DEF b

RSlots == {"rc", "commands", "mode", "transient", "buildmode", "chosen"}

\* An option becomes a command of the buildmode.
LEMMA BuildCommandIs ==
  ASSUME NEW o, IsSequence(o.name), NEW m
  PROVE  Added(BuildCommand(o, m), m)
BY DEF Added, BuildCommand, Command, Fields

\* The built-in commands of a buildmode.
LEMMA AlwaysIs ==
  ASSUME NEW m
  PROVE  /\ IsSequence(Always(m)) /\ Len(Always(m)) = 4
         /\ \A i \in 1 .. 4 : Added(Always(m)[i], m)
         /\ Always(m)[2].act = "execute"
<1> DEFINE a == Always(m)
<1>1. a = [i \in 1 .. 4 |-> a[i]]
  BY DEF Always
<1>2. IsSequence(a) /\ Len(a) = 4
  <2> HIDE DEF a
  <2> QED
    BY <1>1, SeqFun
<1>3. a[2].act = "execute"
  BY DEF Always, Command
<1>4. \A x, y, z : IsSequence(x) => Added(Command(0, x, "buildmode", 0, m, y, z), m)
  BY DEF Added, Command, Fields
<1>5. IsSequence(Cancel) /\ IsSequence(Execute) /\ IsSequence(Show) /\ IsSequence(Unset)
  BY ShellAssumption DEF Own
<1>6. ASSUME NEW i \in 1 .. 4 PROVE Added(a[i], m)
  <2>1. i = 1 \/ i = 2 \/ i = 3 \/ i = 4
    OBVIOUS
  <2>2. Added(a[1], m) /\ Added(a[2], m)
    BY <1>4, <1>5 DEF Always
  <2>3. Added(a[3], m) /\ Added(a[4], m)
    BY <1>4, <1>5 DEF Always
  <2> QED
    BY <2>1, <2>2, <2>3
<1> QED
  BY <1>2, <1>3, <1>6

\* The buildmode of a command is opened, or an error leaves all as it was.
LEMMA EnterSound ==
  ASSUME NEW r, RSlots \subseteq DOMAIN r, NEW p, Sound(r.commands, r.mode, p, r.buildmode),
         ~Building(r.buildmode), NEW i \in 1 .. N, NEW s, IsSequence(s.found), Valued(s.found),
         NEW v, v = cli_int_enter_buildmode(r, i, s)
  PROVE  /\ RSlots \subseteq DOMAIN v
         /\ v.rc \in {"BUILDMODE_START", "BUILDMODE_ERROR"}
         /\ v.mode = r.mode /\ v.chosen = r.chosen
         /\ Sound(v.commands, v.mode, p, v.buildmode)
<1>0. \A x, y : IsSequence(x) /\ IsSequence(y) => Joins(x \o y, x, y)
  BY SeqConcat DEF Joins
<1> DEFINE optargs == r.commands[i].optargs
           offered == Offered(optargs, r.mode, s.ctx.transient)
           built == [n \in DOMAIN offered |-> BuildCommand(offered[n], r.mode)]
           bm == [command |-> i, mode |-> r.mode, transient |-> s.ctx.transient,
                  found |-> s.found]
           tail == Always(r.mode)
           list == (r.commands \o built) \o tail
<1>1. \/ v = [r EXCEPT !.rc = "BUILDMODE_ERROR"]
      \/ v = [r EXCEPT !.rc = "BUILDMODE_START", !.buildmode = bm, !.commands = list]
  BY DEF cli_int_enter_buildmode
<1>2. IsSequence(offered) /\ \A n \in 1 .. Len(offered) : IsSequence(offered[n].name)
  <2>1. AsRegistered(r.commands[i], Registered[i])
    BY DEF Sound, Alike
  <2>2. IsSequence(optargs) /\ \A j \in 1 .. Len(optargs) : IsSequence(optargs[j].name)
    <3>1. optargs = Registered[i].optargs
      BY <2>1, AsIs
    <3> HIDE DEF optargs
    <3> QED
      BY <3>1, RegisteredIs
  <2> HIDE DEF optargs
  <2>3. /\ IsSequence(offered)
        /\ \A n \in 1 .. Len(offered) : \E k \in 1 .. Len(optargs) : offered[n] = optargs[k]
    BY <2>2, OfferedTyped
  <2> HIDE DEF offered
  <2> QED
    BY <2>2, <2>3
<1> HIDE DEF offered
<1>3. /\ IsSequence(built) /\ \A n \in 1 .. Len(built) : Added(built[n], r.mode)
  <2>1. Len(offered) \in Nat /\ DOMAIN offered = 1 .. Len(offered)
    BY <1>2, SeqIs
  <2>2. built = [n \in 1 .. Len(offered) |-> built[n]]
    BY <2>1
  <2>3. \A n \in 1 .. Len(offered) : Added(built[n], r.mode)
    BY <1>2, <2>1, BuildCommandIs
  <2> HIDE DEF built
  <2>4. IsSequence(built) /\ Len(built) = Len(offered)
    BY <2>1, <2>2, SeqFun
  <2> QED
    BY <2>3, <2>4
<1> HIDE DEF built
<1>4. /\ IsSequence(tail) /\ Len(tail) = 4
      /\ \A n \in 1 .. 4 : Added(tail[n], r.mode) /\ tail[2].act = "execute"
  BY AlwaysIs
<1> HIDE DEF tail
<1> DEFINE a == r.commands \o built
<1>5. /\ IsSequence(r.commands) /\ Len(r.commands) = N /\ N \in Nat
      /\ \A n \in 1 .. N : AsRegistered(r.commands[n], Registered[n])
  BY RegisteredIs DEF Sound, Alike
<1>6. /\ IsSequence(a) /\ Len(a) = N + Len(built)
      /\ \A n \in 1 .. N : a[n] = r.commands[n]
      /\ \A n \in 1 .. Len(built) : a[N + n] = built[n]
  <2>1. /\ IsSequence(a) /\ Len(a) = Len(r.commands) + Len(built)
        /\ \A n \in 1 .. Len(r.commands) : a[n] = r.commands[n]
        /\ \A n \in 1 .. Len(built) : a[Len(r.commands) + n] = built[n]
    <3>1. Joins(a, r.commands, built)
      BY <1>0, <1>3, <1>5
    <3> HIDE DEF a
    <3> QED
      BY <3>1 DEF Joins
  <2> HIDE DEF a
  <2> QED
    BY <1>5, <2>1
<1> HIDE DEF a
<1>7. /\ IsSequence(list) /\ Len(list) = Len(a) + 4
      /\ \A n \in 1 .. Len(a) : list[n] = a[n]
      /\ \A n \in 1 .. 4 : list[Len(a) + n] = tail[n]
  <2>1. list = a \o tail
    BY DEF a
  <2> HIDE DEF list
  <2>2. /\ IsSequence(list) /\ Len(list) = Len(a) + Len(tail)
        /\ \A n \in 1 .. Len(a) : list[n] = a[n]
        /\ \A n \in 1 .. Len(tail) : list[Len(a) + n] = tail[n]
    <3>1. Joins(list, a, tail)
      BY <1>0, <1>4, <1>6, <2>1
    <3> QED
      BY <3>1 DEF Joins
  <2> QED
    BY <1>4, <2>2
<1> HIDE DEF list
<1>8. Len(built) \in Nat /\ Len(a) \in Nat
  BY <1>3, <1>6, SeqIs
<1>9. \A n \in 1 .. N : list[n] = r.commands[n]
  <2>1. \A n \in 1 .. N : n \in 1 .. Len(a)
    BY <1>5, <1>6, <1>8
  <2> QED
    BY <1>6, <1>7, <2>1
<1>10. ASSUME NEW n \in N + 1 .. Len(list) PROVE Added(list[n], r.mode)
  <2>1. CASE n <= Len(a)
    <3>1. n \in 1 .. Len(a) /\ n - N \in 1 .. Len(built) /\ N + (n - N) = n
      BY <1>5, <1>6, <1>8, <2>1
    <3> QED
      BY <1>3, <1>6, <1>7, <3>1
  <2>2. CASE ~(n <= Len(a))
    <3>1. n - Len(a) \in 1 .. 4 /\ Len(a) + (n - Len(a)) = n
      BY <1>5, <1>7, <1>8, <2>2
    <3> QED
      BY <1>4, <1>7, <3>1
  <2> QED
    BY <2>1, <2>2
<1>11. N <= Len(list)
  BY <1>5, <1>6, <1>7, <1>8
<1>12. Alike(list, r.mode)
  BY <1>5, <1>7, <1>9, <1>10, <1>11 DEF Alike
<1>13. Right(list, r.mode, p)
  BY <1>9 DEF Right, Sound
<1>14. \E n \in N + 1 .. Len(list) : list[n].act = "execute"
  <2>1. Len(a) + 2 \in N + 1 .. Len(list)
    BY <1>5, <1>6, <1>7, <1>8
  <2>2. 2 \in 1 .. 4
    OBVIOUS
  <2>3. list[Len(a) + 2] = tail[2]
    BY <1>7, <2>2
  <2> QED
    BY <1>4, <2>1, <2>3
<1>15. Building(bm)
  BY <1>5 DEF Building
<1>16. Sound(list, r.mode, p, bm)
  BY <1>12, <1>13, <1>14, <1>15 DEF Sound
<1> HIDE DEF bm
<1>17. CASE v = [r EXCEPT !.rc = "BUILDMODE_ERROR"]
  <2>1. /\ RSlots \subseteq DOMAIN v /\ v.rc = "BUILDMODE_ERROR" /\ v.mode = r.mode
        /\ v.chosen = r.chosen /\ v.commands = r.commands /\ v.buildmode = r.buildmode
    BY <1>17 DEF RSlots
  <2> QED
    BY <2>1
<1>18. CASE v = [r EXCEPT !.rc = "BUILDMODE_START", !.buildmode = bm, !.commands = list]
  <2>1. /\ RSlots \subseteq DOMAIN v
        /\ v.rc = "BUILDMODE_START" /\ v.mode = r.mode /\ v.chosen = r.chosen
        /\ v.commands = list /\ v.buildmode = bm
    BY <1>18 DEF RSlots
  <2> QED
    BY <1>16, <2>1
<1> QED
  BY <1>1, <1>17, <1>18

\* What is found may change.
LEMMA FoundSound ==
  ASSUME NEW list, NEW m, NEW p, NEW bm, Sound(list, m, p, bm), NEW f, IsSequence(f), Valued(f)
  PROVE  Sound(list, m, p, [bm EXCEPT !.found = f])
<1> DEFINE b == [bm EXCEPT !.found = f]
<1>1. /\ {"command", "mode", "transient", "found"} \subseteq DOMAIN b
      /\ b.found = f /\ b.mode = bm.mode /\ b.command = bm.command
  BY DEF Sound
<1> SUFFICES Sound(list, m, p, b)
  OBVIOUS
<1> HIDE DEF b
<1>2. Building(b) = Building(bm)
  BY <1>1 DEF Building
<1> QED
  BY <1>1, <1>2 DEF Sound

\* What the stages so far have chosen.
Chose(r, n) ==
  r.rc = "OK" =>
    /\ Len(r.chosen) = n
    /\ \A k \in 1 .. n :
         /\ r.chosen[k].command \in 1 .. Len(r.commands)
         /\ k > 1 => r.commands[r.chosen[k].command].type = "filter"

StageGood(r, n, len, allow) ==
  /\ RSlots \subseteq DOMAIN r
  /\ Sound(r.commands, r.mode, privilege, r.buildmode)
  /\ IsSequence(r.chosen)
  /\ Chose(r, n)
  /\ Building(r.buildmode) /\ r.rc = "OK" => len = 1
  /\ ~allow => ~Building(r.buildmode)

\* A stage has words; those of a line that may open a buildmode are spelt.
StageIs(stage, allow) ==
  /\ IsSequence(stage.words)
  /\ allow => Spelt(stage.words) /\ IsSequence(stage.next)

\* A stage whose options were parsed: a buildmode opens, or it is chosen.
LEMMA AcceptedGood ==
  ASSUME NEW allow \in BOOLEAN,
         NEW r, NEW len \in Nat, NEW n \in 1 .. len, r.rc = "OK", StageGood(r, n - 1, len, allow),
         NEW words, NEW w, w.command \in 1 .. Len(r.commands),
         n > 1 => r.commands[w.command].type = "filter",
         NEW p, IsSequence(p.found),
         Building(r.buildmode) => p.status # "BUILDMODE_START",
         Building(r.buildmode) \/ p.status = "BUILDMODE_START" => allow /\ Valued(p.found)
  PROVE  StageGood(Accepted(r, words, w, p), n, len, allow)
<1>1. CASE p.status = "BUILDMODE_START"
  <2> DEFINE u == [r EXCEPT !.transient = p.ctx.transient]
             v == cli_int_enter_buildmode(u, w.command, p)
  <2>1. /\ RSlots \subseteq DOMAIN u /\ u.commands = r.commands /\ u.mode = r.mode
        /\ u.buildmode = r.buildmode /\ u.chosen = r.chosen
    BY DEF StageGood, RSlots
  <2>2. Accepted(r, words, w, p) = v
    BY <1>1 DEF Accepted
  <2> HIDE DEF u
  <2>3. ~Building(u.buildmode) /\ w.command \in 1 .. N /\ Valued(p.found) /\ allow
    BY <1>1, <2>1 DEF StageGood, Sound
  <2>4. /\ RSlots \subseteq DOMAIN v
        /\ v.rc \in {"BUILDMODE_START", "BUILDMODE_ERROR"}
        /\ v.mode = u.mode /\ v.chosen = u.chosen
        /\ Sound(v.commands, v.mode, privilege, v.buildmode)
    BY <2>1, <2>3, EnterSound DEF StageGood
  <2> HIDE DEF v
  <2>5. v.rc # "OK"
    BY <2>4
  <2> QED
    BY <2>1, <2>2, <2>3, <2>4, <2>5 DEF StageGood, Chose
<1>2. CASE p.status # "BUILDMODE_START"
  <2> DEFINE bm == [r.buildmode EXCEPT !.found = IF Building(r.buildmode) THEN p.found ELSE @]
             c == Chosen(w.command, p, words)
             v == Accepted(r, words, w, p)
  <2>1. v = [r EXCEPT !.rc = p.status, !.transient = p.ctx.transient, !.buildmode = bm,
                      !.chosen = Append(@, c)]
    BY <1>2 DEF Accepted
  <2>2. c.command = w.command
    BY DEF Chosen
  <2>3. Sound(r.commands, r.mode, privilege, bm) /\ Building(bm) = Building(r.buildmode)
    <3>1. \E f : /\ IsSequence(f) /\ Valued(f)
                 /\ bm = [r.buildmode EXCEPT !.found = f]
      <4>1. CASE Building(r.buildmode)
        BY <4>1
      <4>2. CASE ~Building(r.buildmode)
        BY <4>2 DEF StageGood, Sound
      <4> QED
        BY <4>1, <4>2
    <3>2. bm.command = r.buildmode.command
      BY DEF StageGood, Sound
    <3> HIDE DEF bm
    <3> QED
      BY <3>1, <3>2, FoundSound DEF StageGood, Building
  <2> HIDE DEF bm, c
  <2>4. /\ RSlots \subseteq DOMAIN v /\ v.rc = p.status /\ v.buildmode = bm
        /\ v.commands = r.commands /\ v.mode = r.mode
        /\ v.chosen = Append(r.chosen, c)
    BY <2>1 DEF StageGood, RSlots
  <2> HIDE DEF v
  <2>5. /\ IsSequence(v.chosen) /\ Len(v.chosen) = n /\ v.chosen[n] = c
        /\ \A k \in 1 .. n - 1 : v.chosen[k] = r.chosen[k]
    <3>1. Len(r.chosen) = n - 1 /\ n - 1 + 1 = n
      BY DEF StageGood, Chose
    <3> QED
      BY <2>4, <3>1, SeqAppend DEF StageGood
  <2>6. ASSUME NEW k \in 1 .. n
        PROVE  /\ v.chosen[k].command \in 1 .. Len(v.commands)
               /\ k > 1 => v.commands[v.chosen[k].command].type = "filter"
    <3>1. CASE k = n
      BY <2>2, <2>4, <2>5, <3>1
    <3>2. CASE k # n
      <4>1. k \in 1 .. n - 1
        BY <3>2
      <4> QED
        BY <2>4, <2>5, <4>1 DEF StageGood, Chose
    <3> QED
      BY <3>1, <3>2
  <2>7. Chose(v, n)
    BY <2>5, <2>6 DEF Chose
  <2>8. Sound(v.commands, v.mode, privilege, v.buildmode)
    BY <2>3, <2>4
  <2>9. Building(v.buildmode) /\ v.rc = "OK" => len = 1
    BY <2>3, <2>4 DEF StageGood
  <2>10. ~allow => ~Building(v.buildmode)
    BY <2>3, <2>4 DEF StageGood
  <2>11. StageGood(v, n, len, allow)
    BY <2>4, <2>5, <2>7, <2>8, <2>9, <2>10 DEF StageGood
  <2> QED
    BY <2>11 DEF v
<1> QED
  BY <1>1, <1>2

\* A stage whose command was found.
LEMMA ParsedGood ==
  ASSUME NEW allow \in BOOLEAN,
         NEW r, NEW len \in Nat, NEW n \in 1 .. len, r.rc = "OK", StageGood(r, n - 1, len, allow),
         NEW stage, StageIs(stage, allow), NEW w, w.command \in 1 .. Len(r.commands),
         w.word \in Nat \ {0}, n > 1 => r.commands[w.command].type = "filter"
  PROVE  StageGood(Parsed(r, stage, w, allow), n, len, allow)
<1> DEFINE may == allow /\ ~Building(r.buildmode)
           found == IF Building(r.buildmode) THEN r.buildmode.found ELSE <<>>
           ctx == [privilege |-> privilege, mode |-> r.mode,
                   transient |-> r.transient, allow_buildmode |-> may,
                   next |-> stage.next]
           optargs == OptargsOf(r, r.commands[w.command])
           words == stage.words
           first == w.word + 1
           p == cli_int_parse_optargs(optargs, words, first, found, ctx)
<1>1. may \in BOOLEAN /\ (Building(r.buildmode) => ~may) /\ (may => allow)
  BY DEF Building
<1>2. IsSequence(found) /\ Valued(found)
  BY NothingSet, SeqEmpty DEF StageGood, Sound, NoBuildmode
<1>3. Context(ctx, allow) /\ ctx.allow_buildmode = may
  BY DEF Context, StageIs
<1>4. Parsed(r, stage, w, allow) = Accepted(r, words, w, p)
  BY DEF Parsed
<1>5. Len(words) \in Nat /\ (allow => Spelt(words)) /\ first \in Nat \ {0}
  BY SeqIs DEF StageIs
<1> HIDE DEF may, found, ctx, optargs, words, first
<1>6. Fine(p, may, allow)
  BY <1>1, <1>2, <1>3, <1>5, OptargsFine
<1> HIDE DEF p
<1>7. /\ IsSequence(p.found) /\ (allow => Valued(p.found))
      /\ Building(r.buildmode) => p.status # "BUILDMODE_START"
      /\ p.status = "BUILDMODE_START" => allow
      /\ Building(r.buildmode) => allow
  BY <1>1, <1>6 DEF Fine, StageGood
<1>8. StageGood(Accepted(r, words, w, p), n, len, allow)
  BY <1>7, AcceptedGood
<1> QED
  BY <1>4, <1>8

\* The walk falls back to the configuration mode.
DropOf(r) ==
  [r EXCEPT !.mode = MODE_CONFIG,
            !.commands = cli_build_shortest(@, MODE_CONFIG, privilege)]

\* A fall back to the configuration mode rebuilds the abbreviations for it.
LEMMA DropGood ==
  ASSUME NEW allow \in BOOLEAN, NEW r, NEW len \in Nat, NEW n \in 0 .. len,
         StageGood(r, n, len, allow), ~Building(r.buildmode)
  PROVE  /\ StageGood(DropOf(r), n, len, allow) /\ DropOf(r).rc = r.rc
         /\ SameCommands(DropOf(r).commands, r.commands)
<1> DEFINE list == cli_build_shortest(r.commands, MODE_CONFIG, privilege)
           v == DropOf(r)
<1>1. /\ RSlots \subseteq DOMAIN v /\ v.commands = list /\ v.mode = MODE_CONFIG
      /\ v.buildmode = r.buildmode /\ v.chosen = r.chosen /\ v.rc = r.rc
  BY DEF StageGood, RSlots, DropOf
<1> SUFFICES StageGood(v, n, len, allow) /\ v.rc = r.rc /\ SameCommands(v.commands, r.commands)
  OBVIOUS
<1> HIDE DEF v
<1>2. /\ Alike(list, r.buildmode.mode) /\ Right(list, MODE_CONFIG, privilege)
      /\ SameCommands(list, r.commands)
  BY BuildIs DEF StageGood, Sound
<1> HIDE DEF list
<1>3. Len(list) = N /\ Len(r.commands) = N
  BY <1>2 DEF StageGood, Sound, SameCommands
<1>4. Sound(list, MODE_CONFIG, privilege, r.buildmode)
  BY <1>2, <1>3 DEF StageGood, Sound
<1>5. Chose(v, n)
  BY <1>1, <1>2, <1>3 DEF StageGood, Chose, SameCommands
<1> QED
  BY <1>1, <1>2, <1>4, <1>5 DEF StageGood

\* An option of a buildmode is a command for the mode it was opened in.
LEMMA BuildStays ==
  ASSUME NEW list, NEW m, NEW p, NEW bm, Sound(list, m, p, bm), Building(bm)
  PROVE  Stays(list, m, "buildmode")
<1>1. Alike(list, m)
  BY DEF Sound
<1> SUFFICES ASSUME NEW i \in 1 .. Len(list), list[i].type = "buildmode"
             PROVE  ~(m > MODE_CONFIG /\ list[i].mode = MODE_CONFIG)
  BY DEF Stays
<1>2. i \in N + 1 .. Len(list)
  BY <1>1, AlikeIs
<1>3. list[i].mode = m
  BY <1>1, <1>2 DEF Alike, Added
<1> QED
  BY <1>3 DEF MODE_CONFIG

\* A stage, whatever the walk finds: in a buildmode it does not fall back.
LEMMA LocatedGood ==
  ASSUME NEW allow \in BOOLEAN,
         NEW r, NEW len \in Nat, NEW n \in 1 .. len, r.rc = "OK", StageGood(r, n - 1, len, allow),
         NEW stage, StageIs(stage, allow), Len(stage.words) \in Nat \ {0}, NEW w,
         w = cli_int_locate_command(r.commands, r.mode, privilege, StageType(r, n), stage.words)
  PROVE  StageGood(Located(r, stage, w, allow), n, len, allow)
<1> DEFINE type == StageType(r, n)
           drop == IF ~w.dropped THEN r ELSE DropOf(r)
<1>1. Alike(r.commands, r.buildmode.mode)
  BY DEF StageGood, Sound
<1>2. /\ LocFine(w, r.commands, type)
      /\ Stays(r.commands, r.mode, type) => w.dropped = FALSE
  <2> DEFINE words == stage.words
             list == r.commands
             bm == r.buildmode.mode
             m == r.mode
             v == cli_int_locate_command(list, m, privilege, type, words)
  <2>1. Len(words) \in Nat \ {0} /\ Alike(list, bm) /\ w = v
    BY <1>1
  <2> HIDE DEF words, type, list, bm, m
  <2>2. LocFine(v, list, type) /\ (Stays(list, m, type) => v.dropped = FALSE)
    BY <2>1, Locates
  <2> QED
    BY <2>1, <2>2 DEF list, m
<1>3. n > 1 => type = "filter"
  BY DEF StageType
<1>4. Building(r.buildmode) => w.dropped = FALSE
  <2> SUFFICES ASSUME Building(r.buildmode) PROVE w.dropped = FALSE
    OBVIOUS
  <2>1. n = 1
    BY DEF StageGood
  <2>2. type = "buildmode"
    BY <2>1 DEF StageType
  <2>3. Stays(r.commands, r.mode, "buildmode")
    BY BuildStays DEF StageGood
  <2> QED
    BY <1>2, <2>2, <2>3
<1>5. /\ StageGood(drop, n - 1, len, allow) /\ drop.rc = "OK"
      /\ Len(drop.commands) = Len(r.commands)
      /\ \A i \in 1 .. Len(r.commands) : drop.commands[i].type = r.commands[i].type
  <2>1. CASE ~w.dropped
    BY <2>1
  <2>2. CASE w.dropped
    <3>1. ~Building(r.buildmode) /\ n - 1 \in 0 .. len
      BY <1>4, <2>2
    <3>2. /\ StageGood(DropOf(r), n - 1, len, allow) /\ DropOf(r).rc = "OK"
          /\ SameCommands(DropOf(r).commands, r.commands)
      BY <3>1, DropGood
    <3>3. drop = DropOf(r)
      BY <2>2
    <3> HIDE DEF drop
    <3> QED
      BY <3>2, <3>3 DEF SameCommands
  <2> QED
    BY <2>1, <2>2
<1>6. Located(r, stage, w, allow)
        = IF w.rc # "OK" THEN [drop EXCEPT !.rc = w.rc] ELSE Parsed(drop, stage, w, allow)
  BY DEF Located, DropOf
<1> HIDE DEF drop, type
<1>7. CASE w.rc # "OK"
  <2> DEFINE v == [drop EXCEPT !.rc = w.rc]
  <2>1. /\ RSlots \subseteq DOMAIN v /\ v.rc = w.rc /\ v.commands = drop.commands
        /\ v.mode = drop.mode /\ v.buildmode = drop.buildmode /\ v.chosen = drop.chosen
    BY <1>5 DEF StageGood, RSlots
  <2>2. Located(r, stage, w, allow) = v
    BY <1>6, <1>7
  <2> HIDE DEF v
  <2> QED
    BY <1>5, <1>7, <2>1, <2>2 DEF StageGood, Chose
<1>8. CASE w.rc = "OK"
  <2>1. w.command \in 1 .. Len(drop.commands) /\ w.word \in Nat \ {0}
    BY <1>2, <1>5, <1>8 DEF LocFine
  <2>2. n > 1 => drop.commands[w.command].type = "filter"
    BY <1>2, <1>3, <1>5, <1>8 DEF LocFine
  <2>3. StageGood(Parsed(drop, stage, w, allow), n, len, allow)
    BY <1>5, <2>1, <2>2, ParsedGood
  <2> QED
    BY <1>6, <1>8, <2>3
<1> QED
  BY <1>7, <1>8

\* A stage of cli_int_validate_pipeline.
LEMMA StageKeeps ==
  ASSUME NEW allow \in BOOLEAN,
         NEW r, NEW len \in Nat, NEW n \in 1 .. len, StageGood(r, n - 1, len, allow),
         NEW stage, StageIs(stage, allow)
  PROVE  StageGood(Stage(r, stage, n, allow), n, len, allow)
<1>1. CASE r.rc # "OK"
  <2>1. Stage(r, stage, n, allow) = r
    BY <1>1 DEF Stage
  <2> QED
    BY <1>1, <2>1 DEF StageGood, Chose
<1>2. CASE r.rc = "OK" /\ stage.words = <<>>
  <2> DEFINE v == [r EXCEPT !.rc = "ERROR"]
  <2>1. /\ RSlots \subseteq DOMAIN v /\ v.rc = "ERROR" /\ v.commands = r.commands
        /\ v.mode = r.mode /\ v.buildmode = r.buildmode /\ v.chosen = r.chosen
    BY DEF StageGood, RSlots
  <2>2. Stage(r, stage, n, allow) = v
    BY <1>2 DEF Stage
  <2> HIDE DEF v
  <2> QED
    BY <2>1, <2>2 DEF StageGood, Chose
<1>3. CASE r.rc = "OK" /\ stage.words # <<>>
  <2> DEFINE words == stage.words
             w == cli_int_locate_command(r.commands, r.mode, privilege, StageType(r, n), words)
  <2>1. Stage(r, stage, n, allow) = Located(r, stage, w, allow)
    BY <1>3 DEF Stage
  <2>2. Len(words) \in Nat \ {0}
    <3>0. IsSequence(words)
      BY DEF StageIs
    <3>1. Len(words) \in Nat /\ words = [i \in 1 .. Len(words) |-> words[i]]
      <4> HIDE DEF words
      <4> QED
        BY <3>0, SeqIs
    <3>2. Len(words) # 0
      <4> SUFFICES ASSUME Len(words) = 0 PROVE FALSE
        OBVIOUS
      <4>1. words = <<>>
        BY <3>1
      <4> QED
        BY <1>3, <4>1
    <3> QED
      BY <3>1, <3>2
  <2> HIDE DEF w
  <2>3. w = cli_int_locate_command(r.commands, r.mode, privilege, StageType(r, n), words)
    BY DEF w
  <2>4. StageGood(Located(r, stage, w, allow), n, len, allow)
    BY <1>3, <2>2, <2>3, LocatedGood
  <2> QED
    BY <2>1, <2>4
<1> QED
  BY <1>1, <1>2, <1>3

-----------------------------------------------------------------------------
(* A line: its stages, and the commands and options of each.               *)

\* The stages that a line is cut into so far: one at least.
AreStages(stages, allow) ==
  /\ IsSequence(stages) /\ Len(stages) \in Nat \ {0}
  /\ \A k \in 1 .. Len(stages) :
       {"words", "next"} \subseteq DOMAIN stages[k] /\ StageIs(stages[k], allow)

\* The last stage may change.
LEMMA LastChanges ==
  ASSUME NEW allow \in BOOLEAN, NEW stages, AreStages(stages, allow),
         NEW e, {"words", "next"} \subseteq DOMAIN e, StageIs(e, allow),
         NEW t, t = [stages EXCEPT ![Len(stages)] = e]
  PROVE  AreStages(t, allow) /\ Len(t) = Len(stages)
<1>1. IsSequence(stages) /\ Len(stages) \in Nat \ {0} /\ DOMAIN stages = 1 .. Len(stages)
  BY SeqIs DEF AreStages
<1>2. \A k \in 1 .. Len(stages) : t[k] = IF k = Len(stages) THEN e ELSE stages[k]
  BY <1>1
<1>3. t = [k \in 1 .. Len(stages) |-> t[k]]
  BY <1>1
<1>4. IsSequence(t) /\ Len(t) = Len(stages)
  <2> DEFINE L == Len(stages)
  <2>1. L \in Nat /\ t = [k \in 1 .. L |-> t[k]]
    BY <1>1, <1>3
  <2> HIDE DEF L
  <2>2. IsSequence(t) /\ Len(t) = L
    BY <2>1, SeqFun
  <2> QED
    BY <2>2 DEF L
<1>5. ASSUME NEW k \in 1 .. Len(t)
      PROVE  {"words", "next"} \subseteq DOMAIN t[k] /\ StageIs(t[k], allow)
  <2>1. k \in 1 .. Len(stages)
    BY <1>4
  <2>2. CASE k = Len(stages)
    <3>1. t[k] = e
      BY <1>2, <2>1, <2>2
    <3> QED
      BY <3>1
  <2>3. CASE k # Len(stages)
    <3>1. t[k] = stages[k]
      BY <1>2, <2>1, <2>3
    <3> QED
      BY <2>1, <3>1 DEF AreStages
  <2> QED
    BY <2>2, <2>3
<1> QED
  BY <1>1, <1>4, <1>5 DEF AreStages

\* A bar ends a stage, and the next one begins with no words.
LEMMA EndKeeps ==
  ASSUME NEW allow \in BOOLEAN, NEW stages, AreStages(stages, allow),
         NEW bar, allow => IsSequence(bar)
  PROVE  AreStages(EndStage(stages, bar), allow)
<1> DEFINE L == Len(stages)
           e == [stages[L] EXCEPT !.next = bar]
           t == [stages EXCEPT ![L] = e]
           v == Append(t, EmptyStage)
<1>1. L \in 1 .. Len(stages)
  BY DEF AreStages
<1>2. {"words", "next"} \subseteq DOMAIN stages[L] /\ StageIs(stages[L], allow)
  <2> HIDE DEF L
  <2> QED
    BY <1>1 DEF AreStages
<1>3. /\ {"words", "next"} \subseteq DOMAIN e
      /\ e.words = stages[L].words /\ e.next = bar
  BY <1>2
<1> HIDE DEF e
<1>4. StageIs(e, allow)
  BY <1>2, <1>3 DEF StageIs
<1>5. EndStage(stages, bar) = v
  BY DEF EndStage, e
<1>6. AreStages(t, allow)
  BY <1>3, <1>4, LastChanges
<1> HIDE DEF t
<1>7. /\ IsSequence(v) /\ Len(v) = Len(t) + 1 /\ Len(t) \in Nat
      /\ v[Len(t) + 1] = EmptyStage /\ \A k \in 1 .. Len(t) : v[k] = t[k]
  BY <1>6, SeqAppend, SeqIs DEF AreStages
<1> HIDE DEF v
<1>8. {"words", "next"} \subseteq DOMAIN EmptyStage /\ StageIs(EmptyStage, allow)
  <2>1. EmptyStage.words = <<>> /\ EmptyStage.next = <<>>
    BY DEF EmptyStage, NoWord
  <2>2. Spelt(<<>>)
    BY SeqEmpty DEF Spelt
  <2>3. {"words", "next"} \subseteq DOMAIN EmptyStage
    BY DEF EmptyStage
  <2> QED
    BY <2>1, <2>2, <2>3, SeqEmpty DEF StageIs
<1>9. ASSUME NEW k \in 1 .. Len(v)
      PROVE  {"words", "next"} \subseteq DOMAIN v[k] /\ StageIs(v[k], allow)
  <2>1. k = Len(t) + 1 \/ k \in 1 .. Len(t)
    BY <1>7
  <2>2. CASE k = Len(t) + 1
    BY <1>7, <1>8, <2>2
  <2>3. CASE k \in 1 .. Len(t)
    BY <1>6, <1>7, <2>3 DEF AreStages
  <2> QED
    BY <2>1, <2>2, <2>3
<1>10. Len(v) \in Nat \ {0}
  BY <1>7
<1> QED
  BY <1>5, <1>7, <1>9, <1>10 DEF AreStages

\* A word goes behind those of the last stage.
LEMMA AddKeeps ==
  ASSUME NEW allow \in BOOLEAN, NEW stages, AreStages(stages, allow),
         NEW word, allow => IsSequence(word)
  PROVE  LET t == AddWord(stages, word)
         IN AreStages(t, allow) /\ Len(t[Len(t)].words) \in Nat \ {0}
<1> DEFINE L == Len(stages)
           words == stages[L].words
           more == Append(words, word)
           e == [stages[L] EXCEPT !.words = more]
           t == [stages EXCEPT ![L] = e]
<1>1. L \in 1 .. Len(stages)
  BY DEF AreStages
<1>2. {"words", "next"} \subseteq DOMAIN stages[L] /\ StageIs(stages[L], allow)
  <2> HIDE DEF L
  <2> QED
    BY <1>1 DEF AreStages
<1>3. AddWord(stages, word) = t
  BY DEF AddWord
<1>4. IsSequence(words) /\ (allow => Spelt(words))
  BY <1>2 DEF StageIs
<1> HIDE DEF words
<1>5. /\ IsSequence(more) /\ Len(more) = Len(words) + 1 /\ Len(words) \in Nat
      /\ more[Len(words) + 1] = word /\ \A n \in 1 .. Len(words) : more[n] = words[n]
  BY <1>4, SeqAppend, SeqIs
<1> HIDE DEF more
<1>6. allow => Spelt(more)
  <2> SUFFICES ASSUME allow, NEW n \in 1 .. Len(more) PROVE IsSequence(more[n])
    BY <1>5 DEF Spelt
  <2>1. n = Len(words) + 1 \/ n \in 1 .. Len(words)
    BY <1>5
  <2> QED
    BY <1>4, <1>5, <2>1 DEF Spelt
<1>7. /\ {"words", "next"} \subseteq DOMAIN e
      /\ e.words = more /\ e.next = stages[L].next
  BY <1>2
<1> HIDE DEF e
<1>8. StageIs(e, allow)
  BY <1>2, <1>5, <1>6, <1>7 DEF StageIs
<1>9. AreStages(t, allow) /\ Len(t) = L
  BY <1>7, <1>8, LastChanges
<1>10. t[L] = e
  <2>1. L \in DOMAIN stages
    BY <1>1, SeqIs DEF AreStages
  <2> HIDE DEF L
  <2> QED
    BY <2>1
<1> HIDE DEF t, L
<1>11. Len(t[Len(t)].words) \in Nat \ {0}
  BY <1>5, <1>7, <1>9, <1>10
<1> QED
  BY <1>3, <1>9, <1>11

CutStep(stages, words, n) ==
  IF n \in Bars(words) THEN EndStage(stages, words[n]) ELSE AddWord(stages, words[n])

IsCut(f, words) ==
  f = [n \in 0 .. Len(words) |->
         IF n = 0 THEN <<EmptyStage>> ELSE CutStep(f[n - 1], words, n)]

\* The stages of the first words exist.
LEMMA CutExists ==
  ASSUME NEW words, Len(words) \in Nat
  PROVE  \E f : IsCut(f, words)
<1> DEFINE Part(f, k) ==
             f = [n \in 0 .. k |-> IF n = 0 THEN <<EmptyStage>> ELSE CutStep(f[n - 1], words, n)]
           S == {k \in 0 .. Len(words) : \E f : Part(f, k)}
<1>1. 0 \in S
  <2> DEFINE f == [n \in 0 .. 0 |-> <<EmptyStage>>]
  <2>1. Part(f, 0)
    OBVIOUS
  <2> HIDE DEF Part
  <2> QED
    BY <2>1
<1>2. ASSUME NEW k \in 0 .. Len(words) - 1, k \in S PROVE k + 1 \in S
  <2>1. PICK f : Part(f, k)
    BY <1>2
  <2> DEFINE v == CutStep(f[k], words, k + 1)
             g == [n \in 0 .. k + 1 |-> IF n <= k THEN f[n] ELSE v]
  <2> HIDE DEF v
  <2>2. \A n \in 0 .. k + 1 : g[n] = IF n <= k THEN f[n] ELSE v
    OBVIOUS
  <2>3. g = [n \in 0 .. k + 1 |-> g[n]]
    OBVIOUS
  <2> HIDE DEF g
  <2>4. ASSUME NEW n \in 0 .. k + 1
        PROVE  g[n] = IF n = 0 THEN <<EmptyStage>> ELSE CutStep(g[n - 1], words, n)
    <3>1. CASE n = 0
      <4>1. 0 \in 0 .. k /\ 0 \in 0 .. k + 1 /\ 0 <= k
        OBVIOUS
      <4>2. f[0] = <<EmptyStage>>
        BY <2>1, <4>1
      <4> QED
        BY <2>2, <3>1, <4>1, <4>2
    <3>2. CASE n # 0 /\ n <= k
      <4>1. n \in 0 .. k /\ n - 1 \in 0 .. k + 1 /\ n - 1 <= k
        BY <3>2
      <4>2. f[n] = CutStep(f[n - 1], words, n)
        BY <2>1, <3>2, <4>1
      <4> QED
        BY <2>2, <3>2, <4>1, <4>2
    <3>3. CASE ~(n <= k)
      <4>1. n = k + 1 /\ n # 0 /\ n - 1 = k /\ k \in 0 .. k + 1 /\ k <= k
        BY <3>3
      <4>2. g[n - 1] = f[k]
        BY <2>2, <4>1
      <4> QED
        BY <2>2, <3>3, <4>1, <4>2 DEF v
    <3> QED
      BY <3>1, <3>2, <3>3
  <2>5. Part(g, k + 1)
    BY <2>3, <2>4
  <2> HIDE DEF Part
  <2> QED
    BY <2>5
<1> HIDE DEF S
<1>3. \A k \in 0 .. Len(words) : k \in S
  BY <1>1, <1>2, BoundedInd
<1>4. Len(words) \in S
  BY <1>3
<1> QED
  BY <1>4 DEF S, IsCut

\* cli_int_generate_pipeline makes one stage at least, each with its words.
LEMMA StagesAre ==
  ASSUME NEW allow \in BOOLEAN, NEW words, IsSequence(words), allow => Spelt(words)
  PROVE  /\ AreStages(Stages(words), allow)
         /\ Len(words) # 0 /\ Len(words) \notin Bars(words) =>
              Len(LastStage(words)) \in Nat \ {0}
<1> DEFINE f == CHOOSE f : IsCut(f, words)
           S == {k \in 0 .. Len(words) : AreStages(f[k], allow)}
<1>0. Len(words) \in Nat
  BY SeqIs
<1>1. IsCut(f, words)
  BY <1>0, CutExists
<1>2. Stages(words) = f[Len(words)]
  BY DEF Stages, IsCut, CutStep
<1> HIDE DEF f
<1>3. 0 \in S
  <2>1. 0 \in 0 .. Len(words)
    BY <1>0
  <2>2. f[0] = <<EmptyStage>>
    BY <1>1, <2>1 DEF IsCut
  <2>3. EmptyStage.words = <<>> /\ EmptyStage.next = <<>>
        /\ {"words", "next"} \subseteq DOMAIN EmptyStage
    BY DEF EmptyStage, NoWord
  <2>4. StageIs(EmptyStage, allow)
    BY <2>3, SeqEmpty DEF StageIs, Spelt
  <2> DEFINE s == <<EmptyStage>>
  <2>5. IsSequence(s) /\ Len(s) = 1 /\ s[1] = EmptyStage
    BY SeqOne
  <2> HIDE DEF s
  <2>6. AreStages(s, allow)
    BY <2>3, <2>4, <2>5 DEF AreStages
  <2> QED
    BY <2>1, <2>2, <2>6 DEF s
<1>4. ASSUME NEW k \in 0 .. Len(words) - 1, k \in S PROVE k + 1 \in S
  <2>1. k + 1 \in 1 .. Len(words) /\ k + 1 \in 0 .. Len(words) /\ k + 1 # 0 /\ k + 1 - 1 = k
    BY <1>0
  <2>2. f[k + 1] = CutStep(f[k], words, k + 1)
    BY <1>1, <2>1 DEF IsCut
  <2>3. AreStages(f[k], allow) /\ (allow => IsSequence(words[k + 1]))
    BY <1>4, <2>1 DEF Spelt
  <2>4. /\ AreStages(EndStage(f[k], words[k + 1]), allow)
        /\ AreStages(AddWord(f[k], words[k + 1]), allow)
    BY <2>3, EndKeeps, AddKeeps
  <2>5. AreStages(CutStep(f[k], words, k + 1), allow)
    BY <2>4 DEF CutStep
  <2> QED
    BY <2>1, <2>2, <2>5
<1> HIDE DEF S
<1>5. \A k \in 0 .. Len(words) : k \in S
  BY <1>0, <1>3, <1>4, BoundedInd
<1>6. Len(words) \in S
  BY <1>0, <1>5
<1>7. ASSUME Len(words) # 0, Len(words) \notin Bars(words)
      PROVE  Len(LastStage(words)) \in Nat \ {0}
  <2> DEFINE k == Len(words)
             t == AddWord(f[k - 1], words[k])
  <2>1. k \in 0 .. k /\ k # 0 /\ k \in 1 .. k /\ k - 1 \in 0 .. k
    BY <1>0, <1>7
  <2>2. f[k] = CutStep(f[k - 1], words, k)
    BY <1>1, <2>1 DEF IsCut
  <2>3. Stages(words) = t
    BY <1>2, <1>7, <2>2 DEF CutStep
  <2>4. AreStages(f[k - 1], allow) /\ (allow => IsSequence(words[k]))
    <3>1. allow => IsSequence(words[k])
      BY <2>1 DEF Spelt
    <3>2. k - 1 \in S
      BY <1>5, <2>1
    <3> QED
      BY <3>1, <3>2 DEF S
  <2> HIDE DEF k
  <2>5. Len(t[Len(t)].words) \in Nat \ {0}
    BY <2>4, AddKeeps
  <2> HIDE DEF t
  <2> QED
    BY <2>3, <2>5 DEF LastStage
<1> QED
  BY <1>2, <1>6, <1>7 DEF S

IsStages(f, start, stages, allow) ==
  f = [n \in 0 .. Len(stages) |->
         IF n = 0 THEN start ELSE Stage(f[n - 1], stages[n], n, allow)]

\* The states between the stages of a line exist.
LEMMA StagesExist ==
  ASSUME NEW stages, Len(stages) \in Nat, NEW start, NEW allow
  PROVE  \E f : IsStages(f, start, stages, allow)
<1> DEFINE Part(f, k) ==
             f = [n \in 0 .. k |-> IF n = 0 THEN start ELSE Stage(f[n - 1], stages[n], n, allow)]
           S == {k \in 0 .. Len(stages) : \E f : Part(f, k)}
<1>1. 0 \in S
  <2> DEFINE f == [n \in 0 .. 0 |-> start]
  <2>1. Part(f, 0)
    OBVIOUS
  <2> HIDE DEF Part
  <2> QED
    BY <2>1
<1>2. ASSUME NEW k \in 0 .. Len(stages) - 1, k \in S PROVE k + 1 \in S
  <2>1. PICK f : Part(f, k)
    BY <1>2
  <2> DEFINE v == Stage(f[k], stages[k + 1], k + 1, allow)
             g == [n \in 0 .. k + 1 |-> IF n <= k THEN f[n] ELSE v]
  <2> HIDE DEF v
  <2>2. \A n \in 0 .. k + 1 : g[n] = IF n <= k THEN f[n] ELSE v
    OBVIOUS
  <2>3. g = [n \in 0 .. k + 1 |-> g[n]]
    OBVIOUS
  <2> HIDE DEF g
  <2>4. ASSUME NEW n \in 0 .. k + 1
        PROVE  g[n] = IF n = 0 THEN start ELSE Stage(g[n - 1], stages[n], n, allow)
    <3>1. CASE n = 0
      <4>1. 0 \in 0 .. k /\ 0 \in 0 .. k + 1 /\ 0 <= k
        OBVIOUS
      <4>2. f[0] = start
        BY <2>1, <4>1
      <4> QED
        BY <2>2, <3>1, <4>1, <4>2
    <3>2. CASE n # 0 /\ n <= k
      <4>1. n \in 0 .. k /\ n - 1 \in 0 .. k + 1 /\ n - 1 <= k
        BY <3>2
      <4>2. f[n] = Stage(f[n - 1], stages[n], n, allow)
        BY <2>1, <3>2, <4>1
      <4> QED
        BY <2>2, <3>2, <4>1, <4>2
    <3>3. CASE ~(n <= k)
      <4>1. n = k + 1 /\ n # 0 /\ n - 1 = k /\ k \in 0 .. k + 1 /\ k <= k
        BY <3>3
      <4>2. g[n - 1] = f[k]
        BY <2>2, <4>1
      <4> QED
        BY <2>2, <3>3, <4>1, <4>2 DEF v
    <3> QED
      BY <3>1, <3>2, <3>3
  <2>5. Part(g, k + 1)
    BY <2>3, <2>4
  <2> HIDE DEF Part
  <2> QED
    BY <2>5
<1> HIDE DEF S
<1>3. \A k \in 0 .. Len(stages) : k \in S
  BY <1>1, <1>2, BoundedInd
<1>4. Len(stages) \in S
  BY <1>3
<1> QED
  BY <1>4 DEF S, IsStages

StagesOf(start, stages, allow) == CHOOSE f : IsStages(f, start, stages, allow)

StartOf(list, m, bm, stages) ==
  [rc |-> IF Building(bm) /\ Len(stages) > 1 THEN "ERROR" ELSE "OK",
   commands |-> list, mode |-> m, transient |-> m,
   buildmode |-> bm, chosen |-> <<>>]

\* A line of words; those of one that may open a buildmode are spelt.
IsLine(line, allow) == IsSequence(line) /\ (allow => Spelt(line))

\* A line, all its stages: an error leaves the session as sound as a success.
LEMMA InterpretGood ==
  ASSUME NEW allow \in BOOLEAN, NEW list, NEW m, NEW bm, Sound(list, m, privilege, bm),
         ~allow => ~Building(bm), NEW line, IsLine(line, allow)
  PROVE  LET len == Len(Stages(line))
         IN /\ StageGood(Interpret(list, m, bm, line, allow), len, len, allow)
            /\ len \in Nat \ {0}
<1> DEFINE stages == Stages(line)
           start == StartOf(list, m, bm, stages)
           f == StagesOf(start, stages, allow)
           len == Len(stages)
           Fits(n) == StageGood(f[n], n, len, allow)
           S == {n \in 0 .. len : Fits(n)}
<1>1. Interpret(list, m, bm, line, allow) = f[len]
  BY DEF Interpret, StagesOf, IsStages, StartOf
<1>2. AreStages(stages, allow) /\ len \in Nat \ {0}
  <2>1. AreStages(stages, allow)
    BY StagesAre DEF IsLine
  <2> HIDE DEF stages
  <2> QED
    BY <2>1 DEF AreStages
<1> HIDE DEF stages
<1>3. StageGood(start, 0, len, allow)
  <2>1. /\ RSlots \subseteq DOMAIN start /\ start.commands = list /\ start.mode = m
        /\ start.buildmode = bm /\ start.chosen = <<>>
        /\ Building(bm) /\ start.rc = "OK" => ~(len > 1)
    BY DEF StartOf, RSlots
  <2> HIDE DEF start
  <2>2. Chose(start, 0)
    BY <2>1, SeqEmpty DEF Chose
  <2>3. Building(bm) /\ start.rc = "OK" => len = 1
    <3>1. \A x \in Nat \ {0} : ~(x > 1) => x = 1
      OBVIOUS
    <3> HIDE DEF len
    <3>2. ~(len > 1) => len = 1
      BY <1>2, <3>1
    <3> QED
      BY <2>1, <3>2
  <2> HIDE DEF len
  <2> QED
    BY <2>1, <2>2, <2>3, SeqEmpty DEF StageGood
<1> HIDE DEF start
<1>4. IsStages(f, start, stages, allow)
  <2>1. \E g : IsStages(g, start, stages, allow)
    BY <1>2, StagesExist
  <2> QED
    BY <2>1 DEF StagesOf
<1> HIDE DEF f
<1>5. /\ f[0] = start
      /\ \A n \in 1 .. len : f[n] = Stage(f[n - 1], stages[n], n, allow)
  <2>1. 0 \in 0 .. len /\ \A n \in 1 .. len : n \in 0 .. len /\ n # 0
    BY <1>2
  <2> QED
    BY <1>4, <2>1 DEF IsStages
<1>6. \A n \in 1 .. len : StageIs(stages[n], allow)
  BY <1>2 DEF AreStages
<1> HIDE DEF len
<1>7. 0 \in S
  BY <1>2, <1>3, <1>5
<1>8. ASSUME NEW n \in 0 .. len - 1, n \in S PROVE n + 1 \in S
  <2>1. n + 1 \in 1 .. len /\ n + 1 - 1 = n /\ n + 1 \in 0 .. len
    BY <1>2
  <2>2. f[n + 1] = Stage(f[n], stages[n + 1], n + 1, allow)
    BY <1>5, <2>1
  <2>3. StageGood(f[n], n + 1 - 1, len, allow)
    BY <1>8, <2>1
  <2>4. StageIs(stages[n + 1], allow)
    BY <1>6, <2>1
  <2>5. StageGood(Stage(f[n], stages[n + 1], n + 1, allow), n + 1, len, allow)
    BY <1>2, <2>1, <2>3, <2>4, StageKeeps
  <2> QED
    BY <2>1, <2>2, <2>5
<1> HIDE DEF S
<1>9. \A n \in 0 .. len : n \in S
  BY <1>2, <1>7, <1>8, BoundedInd
<1>10. len \in S
  BY <1>2, <1>9
<1> QED
  BY <1>1, <1>2, <1>10 DEF S, len, stages

-----------------------------------------------------------------------------
(* The line that a buildmode stands for, and its words.                    *)

Under(above, name) == above \o <<Space>> \o name

NameStep(f, list, i) ==
  CASE i = 0 -> <<>>
    [] i > 0 /\ list[i].parent = 0 -> list[i].name
    [] OTHER -> Under(f[list[i].parent], list[i].name)

\* The name begins where the parents end.
LEMMA NameAtTop == \A f, list : NameStep(f, list, 0) = <<>>
<1> SUFFICES ASSUME NEW f, NEW list PROVE NameStep(f, list, 0) = <<>>
  OBVIOUS
<1>1. ~(0 > 0)
  OBVIOUS
<1> DEFINE top == 0 > 0 /\ list[0].parent = 0
           a == list[0].name
           b == Under(f[list[0].parent], list[0].name)
<1>2. NameStep(f, list, 0) = CASE 0 = 0 -> <<>> [] top -> a [] OTHER -> b
  BY DEF NameStep
<1>3. ~top
  BY <1>1
<1> HIDE DEF top, a, b
<1> QED
  BY <1>2, <1>3

IsName(f, list) == f = [i \in 0 .. Len(list) |-> NameStep(f, list, i)]

\* The recursive definition of FullName has a solution: parents come first.
LEMMA NameExists ==
  ASSUME NEW list, Rooted(list)
  PROVE  \E f : IsName(f, list)
<1> DEFINE Part(f, k) == f = [i \in 0 .. k |-> NameStep(f, list, i)]
           S == {k \in 0 .. Len(list) : \E f : Part(f, k)}
<1>0. Len(list) \in Nat
  BY SeqIs DEF Rooted
<1>1. 0 \in S
  <2> DEFINE f == [i \in 0 .. 0 |-> <<>>]
  <2>1. f = [i \in 0 .. 0 |-> NameStep(f, list, i)]
    <3>1. \A i \in 0 .. 0 : <<>> = NameStep(f, list, i)
      BY NameAtTop
    <3> HIDE DEF NameStep
    <3> QED
      BY <3>1
  <2>2. Part(f, 0)
    BY <2>1
  <2> HIDE DEF Part, f
  <2> QED
    BY <1>0, <2>2
<1>2. ASSUME NEW k \in 0 .. Len(list) - 1, k \in S PROVE k + 1 \in S
  <2>1. PICK f : Part(f, k)
    BY <1>2
  <2> DEFINE v == NameStep(f, list, k + 1)
             g == [i \in 0 .. k + 1 |-> IF i <= k THEN f[i] ELSE v]
  <2> HIDE DEF v
  <2>2. \A i \in 0 .. k + 1 : g[i] = IF i <= k THEN f[i] ELSE v
    OBVIOUS
  <2>3. g = [i \in 0 .. k + 1 |-> g[i]]
    OBVIOUS
  <2> HIDE DEF g
  <2>4. ASSUME NEW i \in 0 .. k + 1
        PROVE  g[i] = NameStep(g, list, i)
    <3>1. CASE i = 0
      <4>1. 0 \in 0 .. k /\ 0 \in 0 .. k + 1 /\ 0 <= k
        BY <1>0
      <4>2. f[0] = NameStep(f, list, 0)
        BY <2>1, <4>1
      <4>3. g[0] = f[0]
        BY <2>2, <4>1
      <4>4. NameStep(f, list, 0) = NameStep(g, list, 0)
        BY NameAtTop
      <4> QED
        BY <3>1, <4>2, <4>3, <4>4
    <3>2. CASE i # 0
      <4>1. i \in 1 .. Len(list) /\ list[i].parent \in 0 .. i - 1
        BY <1>0, <3>2 DEF Rooted
      <4>2. list[i].parent \in 0 .. k /\ list[i].parent \in 0 .. k + 1 /\ list[i].parent <= k
        BY <1>0, <4>1
      <4>3. g[list[i].parent] = f[list[i].parent]
        BY <2>2, <4>2
      <4>4. NameStep(g, list, i) = NameStep(f, list, i)
        BY <4>3 DEF NameStep
      <4>5. CASE i <= k
        <5>1. i \in 0 .. k
          BY <4>5
        <5>2. f[i] = NameStep(f, list, i)
          BY <2>1, <5>1
        <5> QED
          BY <2>2, <4>4, <4>5, <5>2
      <4>6. CASE ~(i <= k)
        <5>1. i = k + 1
          BY <1>0, <4>6
        <5> QED
          BY <2>2, <4>4, <4>6, <5>1 DEF v
      <4> QED
        BY <4>5, <4>6
    <3> QED
      BY <3>1, <3>2
  <2>5. Part(g, k + 1)
    BY <2>3, <2>4
  <2>6. k + 1 \in 0 .. Len(list)
    BY <1>0
  <2> HIDE DEF Part
  <2> QED
    BY <2>5, <2>6
<1> HIDE DEF S
<1>3. \A k \in 0 .. Len(list) : k \in S
  BY <1>0, <1>1, <1>2, BoundedInd
<1>4. Len(list) \in S
  BY <1>0, <1>3
<1> QED
  BY <1>4 DEF S, IsName

\* A name is put behind another with a blank between them.
LEMMA UnderTyped ==
  ASSUME NEW a, IsSequence(a), NEW b, IsSequence(b)
  PROVE  IsSequence(Under(a, b))
<1> DEFINE gap == <<Space>>
<1>1. IsSequence(gap)
  BY SeqOne
<1> HIDE DEF gap
<1>2. \A x, y : IsSequence(x) /\ IsSequence(y) => IsSequence(x \o y)
  BY SeqConcat
<1>3. IsSequence(a \o gap \o b)
  BY <1>1, <1>2
<1> QED
  BY <1>3 DEF Under, gap

\* The full name of a command is a sequence of characters.
LEMMA NameTyped ==
  ASSUME NEW list, Rooted(list), \A k \in 1 .. Len(list) : IsSequence(list[k].name),
         NEW i \in 1 .. Len(list)
  PROVE  IsSequence(FullName(list, i))
<1> DEFINE f == CHOOSE f : IsName(f, list)
           S == {k \in 0 .. Len(list) : \A j \in 0 .. k : IsSequence(f[j])}
<1>1. FullName(list, i) = f[i]
  BY Zenon DEF FullName, IsName, NameStep, Under
<1>2. IsName(f, list)
  BY NameExists
<1> HIDE DEF f
<1>3. Len(list) \in Nat
  BY SeqIs DEF Rooted
<1>4. \A k \in 0 .. Len(list) : f[k] = NameStep(f, list, k)
  BY <1>2 DEF IsName
<1>5. 0 \in S
  <2>1. 0 \in 0 .. Len(list) /\ \A j \in 0 .. 0 : j = 0
    BY <1>3
  <2>2. f[0] = <<>>
    BY <1>4, <2>1, NameAtTop
  <2> QED
    BY <2>1, <2>2, SeqEmpty
<1>6. ASSUME NEW k \in 0 .. Len(list) - 1, k \in S PROVE k + 1 \in S
  <2>1. k + 1 \in 1 .. Len(list) /\ k + 1 \in 0 .. Len(list) /\ k + 1 # 0
    BY <1>3
  <2>2. list[k + 1].parent \in 0 .. k
    BY <1>3, <2>1 DEF Rooted
  <2>3. \/ f[k + 1] = list[k + 1].name
        \/ f[k + 1] = Under(f[list[k + 1].parent], list[k + 1].name)
    <3>1. f[k + 1] = NameStep(f, list, k + 1)
      BY <1>4, <2>1
    <3> QED
      BY <2>1, <3>1 DEF NameStep
  <2>4. \A j \in 0 .. k : IsSequence(f[j])
    BY <1>6
  <2>5. IsSequence(f[list[k + 1].parent])
    BY <2>2, <2>4
  <2>6. IsSequence(list[k + 1].name)
    BY <2>1
  <2>7. IsSequence(f[k + 1])
    BY <2>3, <2>5, <2>6, UnderTyped
  <2>8. \A j \in 0 .. k + 1 : j \in 0 .. k \/ j = k + 1
    BY <1>3
  <2> QED
    BY <2>1, <2>4, <2>7, <2>8
<1> HIDE DEF S
<1>7. \A k \in 0 .. Len(list) : k \in S
  BY <1>3, <1>5, <1>6, BoundedInd
<1>8. Len(list) \in S /\ i \in 0 .. Len(list)
  BY <1>3, <1>7
<1> QED
  BY <1>1, <1>8 DEF S

\* The quotes round a word.
LEMMA QuotesTyped == \A word : IsSequence(QuotesFor(word))
<1> SUFFICES ASSUME NEW word PROVE IsSequence(QuotesFor(word))
  OBVIOUS
<1>1. QuotesFor(word) \in {<<>>, <<"'">>, <<"\"">>}
  BY Zenon DEF QuotesFor
<1>2. IsSequence(<<"'">>) /\ IsSequence(<<"\"">>)
  BY SeqOne
<1> QED
  BY <1>1, <1>2, SeqEmpty

\* A word goes behind the line, in its quotes.
LEMMA ExtendTyped ==
  ASSUME NEW line, IsSequence(line), NEW word, IsSequence(word)
  PROVE  IsSequence(cli_int_buildmode_extend_cmdline(line, word))
<1> DEFINE gap == <<Space>>
           q == QuotesFor(word)
<1>1. IsSequence(gap) /\ IsSequence(q)
  BY SeqOne, QuotesTyped
<1> HIDE DEF gap, q
<1>2. \A x, y : IsSequence(x) /\ IsSequence(y) => IsSequence(x \o y)
  BY SeqConcat
<1>3. IsSequence(line \o gap \o q \o word \o q)
  <2>1. IsSequence(line \o gap \o q)
    BY <1>1, <1>2
  <2> DEFINE a == line \o gap \o q
  <2> HIDE DEF a
  <2>2. IsSequence(a) => IsSequence(a \o word \o q)
    BY <1>1, <1>2
  <2> QED
    BY <2>1, <2>2 DEF a
<1> QED
  BY <1>3 DEF cli_int_buildmode_extend_cmdline, gap, q

GiveStep(line, o, pair) ==
  cli_int_buildmode_extend_cmdline(
    IF o.kind \in {"flag", "argument"} THEN line
    ELSE cli_int_buildmode_extend_cmdline(line, o.name), pair.value)

IsGiven(f, cmdline, o, values) ==
  f = [n \in 0 .. Len(values) |->
         IF n = 0 THEN cmdline ELSE GiveStep(f[n - 1], o, values[n])]

\* The lines with the first values of an option exist.
LEMMA GivenExists ==
  ASSUME NEW cmdline, NEW o, NEW values, Len(values) \in Nat
  PROVE  \E f : IsGiven(f, cmdline, o, values)
<1> DEFINE Part(f, k) ==
             f = [n \in 0 .. k |-> IF n = 0 THEN cmdline ELSE GiveStep(f[n - 1], o, values[n])]
           S == {k \in 0 .. Len(values) : \E f : Part(f, k)}
<1>1. 0 \in S
  <2> DEFINE f == [n \in 0 .. 0 |-> cmdline]
  <2>1. Part(f, 0)
    OBVIOUS
  <2> HIDE DEF Part
  <2> QED
    BY <2>1
<1>2. ASSUME NEW k \in 0 .. Len(values) - 1, k \in S PROVE k + 1 \in S
  <2>1. PICK f : Part(f, k)
    BY <1>2
  <2> DEFINE v == GiveStep(f[k], o, values[k + 1])
             g == [n \in 0 .. k + 1 |-> IF n <= k THEN f[n] ELSE v]
  <2> HIDE DEF v
  <2>2. \A n \in 0 .. k + 1 : g[n] = IF n <= k THEN f[n] ELSE v
    OBVIOUS
  <2>3. g = [n \in 0 .. k + 1 |-> g[n]]
    OBVIOUS
  <2> HIDE DEF g
  <2>4. ASSUME NEW n \in 0 .. k + 1
        PROVE  g[n] = IF n = 0 THEN cmdline ELSE GiveStep(g[n - 1], o, values[n])
    <3>1. CASE n = 0
      <4>1. 0 \in 0 .. k /\ 0 \in 0 .. k + 1 /\ 0 <= k
        OBVIOUS
      <4>2. f[0] = cmdline
        BY <2>1, <4>1
      <4> QED
        BY <2>2, <3>1, <4>1, <4>2
    <3>2. CASE n # 0 /\ n <= k
      <4>1. n \in 0 .. k /\ n - 1 \in 0 .. k + 1 /\ n - 1 <= k
        BY <3>2
      <4>2. f[n] = GiveStep(f[n - 1], o, values[n])
        BY <2>1, <3>2, <4>1
      <4> QED
        BY <2>2, <3>2, <4>1, <4>2
    <3>3. CASE ~(n <= k)
      <4>1. n = k + 1 /\ n # 0 /\ n - 1 = k /\ k \in 0 .. k + 1 /\ k <= k
        BY <3>3
      <4>2. g[n - 1] = f[k]
        BY <2>2, <4>1
      <4> QED
        BY <2>2, <3>3, <4>1, <4>2 DEF v
    <3> QED
      BY <3>1, <3>2, <3>3
  <2>5. Part(g, k + 1)
    BY <2>3, <2>4
  <2> HIDE DEF Part
  <2> QED
    BY <2>5
<1> HIDE DEF S
<1>3. \A k \in 0 .. Len(values) : k \in S
  BY <1>1, <1>2, BoundedInd
<1>4. Len(values) \in S
  BY <1>3
<1> QED
  BY <1>4 DEF S, IsGiven

\* With the values of an option the line is still one.
LEMMA GivenTyped ==
  ASSUME NEW cmdline, IsSequence(cmdline), NEW o, IsSequence(o.name),
         NEW values, IsSequence(values), Valued(values)
  PROVE  IsSequence(Extended(cmdline, o, values))
<1> DEFINE f == CHOOSE f : IsGiven(f, cmdline, o, values)
           S == {k \in 0 .. Len(values) : IsSequence(f[k])}
<1>0. Len(values) \in Nat
  BY SeqIs
<1>1. IsGiven(f, cmdline, o, values)
  BY <1>0, GivenExists
<1>2. Extended(cmdline, o, values) = f[Len(values)]
  BY DEF Extended, IsGiven, GiveStep
<1> HIDE DEF f
<1>3. 0 \in S
  <2>1. 0 \in 0 .. Len(values)
    BY <1>0
  <2>2. f[0] = cmdline
    BY <1>1, <2>1 DEF IsGiven
  <2> QED
    BY <2>1, <2>2
<1>4. ASSUME NEW k \in 0 .. Len(values) - 1, k \in S PROVE k + 1 \in S
  <2>1. /\ k + 1 \in 0 .. Len(values) /\ k + 1 \in 1 .. Len(values)
        /\ k + 1 # 0 /\ k + 1 - 1 = k
    BY <1>0
  <2>2. f[k + 1] = GiveStep(f[k], o, values[k + 1])
    BY <1>1, <2>1 DEF IsGiven
  <2>3. IsSequence(f[k]) /\ IsSequence(values[k + 1].value)
    BY <1>4, <2>1 DEF Valued
  <2>4. IsSequence(cli_int_buildmode_extend_cmdline(f[k], o.name))
    BY <2>3, ExtendTyped
  <2>5. IsSequence(GiveStep(f[k], o, values[k + 1]))
    BY <2>3, <2>4, ExtendTyped DEF GiveStep
  <2> QED
    BY <2>1, <2>2, <2>5
<1> HIDE DEF S
<1>5. \A k \in 0 .. Len(values) : k \in S
  BY <1>0, <1>3, <1>4, BoundedInd
<1>6. Len(values) \in S
  BY <1>0, <1>5
<1> QED
  BY <1>2, <1>6 DEF S

NeededOf(o, found) ==
  o.kind = "argument" /\ (~Has(found, o.name) \/ "multiple" \in o.flags)

RebuildStep(before, o, found, ctx) ==
  IF before.missing \/ ~Usable(o, ctx) THEN before
  ELSE IF NeededOf(o, found) THEN [before EXCEPT !.missing = TRUE]
  ELSE [before EXCEPT !.cmdline = Extended(@, o, ValuesGiven(found, o))]

Unbuilt(cmdline) == [missing |-> FALSE, cmdline |-> cmdline]

IsRebuilt(f, cmdline, optargs, found, ctx) ==
  f = [n \in 0 .. Len(optargs) |->
         IF n = 0 THEN Unbuilt(cmdline) ELSE RebuildStep(f[n - 1], optargs[n], found, ctx)]

\* The states between the options of a rebuilt line exist.
LEMMA RebuiltExists ==
  ASSUME NEW cmdline, NEW optargs, Len(optargs) \in Nat, NEW found, NEW ctx
  PROVE  \E f : IsRebuilt(f, cmdline, optargs, found, ctx)
<1> DEFINE Part(f, k) ==
             f = [n \in 0 .. k |-> IF n = 0 THEN Unbuilt(cmdline) ELSE RebuildStep(f[n - 1], optargs[n], found, ctx)]
           S == {k \in 0 .. Len(optargs) : \E f : Part(f, k)}
<1>1. 0 \in S
  <2> DEFINE f == [n \in 0 .. 0 |-> Unbuilt(cmdline)]
  <2>1. Part(f, 0)
    OBVIOUS
  <2> HIDE DEF Part
  <2> QED
    BY <2>1
<1>2. ASSUME NEW k \in 0 .. Len(optargs) - 1, k \in S PROVE k + 1 \in S
  <2>1. PICK f : Part(f, k)
    BY <1>2
  <2> DEFINE v == RebuildStep(f[k], optargs[k + 1], found, ctx)
             g == [n \in 0 .. k + 1 |-> IF n <= k THEN f[n] ELSE v]
  <2> HIDE DEF v
  <2>2. \A n \in 0 .. k + 1 : g[n] = IF n <= k THEN f[n] ELSE v
    OBVIOUS
  <2>3. g = [n \in 0 .. k + 1 |-> g[n]]
    OBVIOUS
  <2> HIDE DEF g
  <2>4. ASSUME NEW n \in 0 .. k + 1
        PROVE  g[n] = IF n = 0 THEN Unbuilt(cmdline) ELSE RebuildStep(g[n - 1], optargs[n], found, ctx)
    <3>1. CASE n = 0
      <4>1. 0 \in 0 .. k /\ 0 \in 0 .. k + 1 /\ 0 <= k
        OBVIOUS
      <4>2. f[0] = Unbuilt(cmdline)
        BY <2>1, <4>1
      <4> QED
        BY <2>2, <3>1, <4>1, <4>2
    <3>2. CASE n # 0 /\ n <= k
      <4>1. n \in 0 .. k /\ n - 1 \in 0 .. k + 1 /\ n - 1 <= k
        BY <3>2
      <4>2. f[n] = RebuildStep(f[n - 1], optargs[n], found, ctx)
        BY <2>1, <3>2, <4>1
      <4> QED
        BY <2>2, <3>2, <4>1, <4>2
    <3>3. CASE ~(n <= k)
      <4>1. n = k + 1 /\ n # 0 /\ n - 1 = k /\ k \in 0 .. k + 1 /\ k <= k
        BY <3>3
      <4>2. g[n - 1] = f[k]
        BY <2>2, <4>1
      <4> QED
        BY <2>2, <3>3, <4>1, <4>2 DEF v
    <3> QED
      BY <3>1, <3>2, <3>3
  <2>5. Part(g, k + 1)
    BY <2>3, <2>4
  <2> HIDE DEF Part
  <2> QED
    BY <2>5
<1> HIDE DEF S
<1>3. \A k \in 0 .. Len(optargs) : k \in S
  BY <1>1, <1>2, BoundedInd
<1>4. Len(optargs) \in S
  BY <1>3
<1> QED
  BY <1>4 DEF S, IsRebuilt

RebuiltOf(cmdline, optargs, found, ctx) ==
  CHOOSE f : IsRebuilt(f, cmdline, optargs, found, ctx)

\* Rebuild goes from option to option.
LEMMA RebuildIs ==
  \A cmdline, optargs, found, ctx :
    Rebuild(cmdline, optargs, found, ctx)
      = RebuiltOf(cmdline, optargs, found, ctx)[Len(optargs)]
BY DEF Rebuild, RebuiltOf, IsRebuilt, RebuildStep, Unbuilt, NeededOf

Buildable(b) == {"missing", "cmdline"} \subseteq DOMAIN b /\ IsSequence(b.cmdline)

\* The values that go back on the line are some of those that were found.
LEMMA GivenValues ==
  ASSUME NEW found, IsSequence(found), Valued(found), NEW o
  PROVE  IsSequence(ValuesGiven(found, o)) /\ Valued(ValuesGiven(found, o))
<1> DEFINE v == ValuesOf(found, o.name)
<1>1. IsSequence(v) /\ Valued(v)
  BY PairsTyped DEF ValuesOf
<1> HIDE DEF v
<1>2. Len(v) \in Nat /\ v = [i \in 1 .. Len(v) |-> v[i]]
  BY <1>1, SeqIs
<1>3. (IF v = <<>> THEN 0 ELSE 1) \in 0 .. Len(v)
  <2>1. Len(v) = 0 => v = <<>>
    BY <1>2
  <2> QED
    BY <1>2, <2>1
<1> DEFINE b == IF v = <<>> THEN 0 ELSE 1
           t == SubSeq(v, 1, b)
<1>4. b \in 0 .. Len(v)
  BY <1>3
<1> HIDE DEF b
<1>5. First(v) = t
  BY DEF First, b
<1>6. IsSequence(t) /\ Len(t) = b /\ \A i \in 1 .. b : t[i] = v[i]
  BY <1>1, <1>4, SeqPart
<1> HIDE DEF t
<1>7. Valued(t)
  <2>1. \A i \in 1 .. Len(t) : i \in 1 .. Len(v) /\ t[i] = v[i]
    BY <1>2, <1>4, <1>6
  <2> QED
    BY <1>1, <2>1 DEF Valued
<1>8. ValuesGiven(found, o) = v \/ ValuesGiven(found, o) = First(v)
  BY DEF ValuesGiven, v
<1> QED
  BY <1>1, <1>5, <1>6, <1>7, <1>8

\* One option of a rebuilt line.
LEMMA RebuildKeeps ==
  ASSUME NEW b, Buildable(b), NEW o, IsSequence(o.name),
         NEW found, IsSequence(found), Valued(found), NEW ctx
  PROVE  Buildable(RebuildStep(b, o, found, ctx))
<1> DEFINE x == Extended(b.cmdline, o, ValuesGiven(found, o))
           u == [b EXCEPT !.cmdline = x]
           v == [b EXCEPT !.missing = TRUE]
<1>1. IsSequence(x)
  BY GivenValues, GivenTyped DEF Buildable
<1>2. RebuildStep(b, o, found, ctx) \in {b, u, v}
  BY DEF RebuildStep
<1>3. Buildable(v)
  BY DEF Buildable
<1> HIDE DEF x, v
<1>4. Buildable(u)
  BY <1>1 DEF Buildable
<1> QED
  BY <1>2, <1>3, <1>4

\* The text of a rebuilt line is a sequence of characters.
LEMMA RebuildTyped ==
  ASSUME NEW cmdline, IsSequence(cmdline),
         NEW optargs, Len(optargs) \in Nat, \A j \in 1 .. Len(optargs) : IsSequence(optargs[j].name),
         NEW found, IsSequence(found), Valued(found), NEW ctx
  PROVE  IsSequence(Rebuild(cmdline, optargs, found, ctx).cmdline)
<1> DEFINE f == RebuiltOf(cmdline, optargs, found, ctx)
           S == {k \in 0 .. Len(optargs) : Buildable(f[k])}
<1>1. IsRebuilt(f, cmdline, optargs, found, ctx)
  BY RebuiltExists DEF RebuiltOf
<1>2. Rebuild(cmdline, optargs, found, ctx) = f[Len(optargs)]
  BY RebuildIs
<1> HIDE DEF f
<1>3. 0 \in S
  <2>1. 0 \in 0 .. Len(optargs)
    OBVIOUS
  <2>2. f[0] = Unbuilt(cmdline)
    BY <1>1, <2>1 DEF IsRebuilt
  <2>3. Buildable(Unbuilt(cmdline))
    BY DEF Buildable, Unbuilt
  <2> QED
    BY <2>1, <2>2, <2>3
<1>4. ASSUME NEW k \in 0 .. Len(optargs) - 1, k \in S PROVE k + 1 \in S
  <2>1. /\ k + 1 \in 0 .. Len(optargs) /\ k + 1 \in 1 .. Len(optargs)
        /\ k + 1 # 0 /\ k + 1 - 1 = k
    OBVIOUS
  <2>2. f[k + 1] = RebuildStep(f[k], optargs[k + 1], found, ctx)
    <3>1. f[k + 1] = RebuildStep(f[k + 1 - 1], optargs[k + 1], found, ctx)
      BY <1>1, <2>1 DEF IsRebuilt
    <3> QED
      BY <2>1, <3>1
  <2>3. Buildable(f[k]) /\ IsSequence(optargs[k + 1].name)
    BY <1>4, <2>1
  <2>4. Buildable(f[k + 1])
    BY <2>2, <2>3, RebuildKeeps
  <2> QED
    BY <2>1, <2>4
<1> HIDE DEF S
<1>5. \A k \in 0 .. Len(optargs) : k \in S
  BY <1>3, <1>4, BoundedInd
<1>6. Buildable(f[Len(optargs)])
  BY <1>5 DEF S
<1> QED
  BY <1>2, <1>6 DEF Buildable

Scanning(st) ==
  /\ {"p", "word_start", "inquote", "words", "done"} \subseteq DOMAIN st
  /\ IsSequence(st.words)

\* One character of a line adds a word at most, or a bar.
LEMMA ScanKeeps ==
  ASSUME NEW st, Scanning(st), NEW line, NEW max
  PROVE  Scanning(ScanUpTo(st, line, max))
<1>1. \A x : IsSequence(Append(st.words, x))
  BY SeqAppend DEF Scanning
<1>2. \A p : IsSequence(EndWord(st, line, p))
  BY <1>1 DEF EndWord, Scanning
<1>3. ASSUME NEW p, NEW c PROVE Scanning(AtEnd(st, line, p, c))
  <2> DEFINE v == AtEnd(st, line, p, c)
  <2>1. /\ {"p", "word_start", "inquote", "words", "done"} \subseteq DOMAIN v
        /\ v.words = EndWord(st, line, p)
    BY DEF AtEnd
  <2> HIDE DEF v
  <2>2. Scanning(v)
    BY <1>2, <2>1 DEF Scanning
  <2> QED
    BY <2>2 DEF v
<1>4. ASSUME NEW p, NEW c PROVE Scanning(AtQuote(st, line, p, c))
  <2> DEFINE v == AtQuote(st, line, p, c)
  <2>1. /\ {"p", "word_start", "inquote", "words", "done"} \subseteq DOMAIN v
        /\ v.words = st.words \/ v.words = EndWord(st, line, p)
    BY DEF AtQuote
  <2> HIDE DEF v
  <2>2. Scanning(v)
    BY <1>2, <2>1 DEF Scanning
  <2> QED
    BY <2>2 DEF v
<1>5. ASSUME NEW p, NEW c PROVE Scanning(Within(st, p, c))
  <2> DEFINE v == Within(st, p, c)
  <2>1. /\ {"p", "word_start", "inquote", "words", "done"} \subseteq DOMAIN v
        /\ v.words = st.words \/ v.words = Append(st.words, <<Bar>>)
    BY DEF Within, Scanning
  <2> HIDE DEF v
  <2>2. Scanning(v)
    BY <1>1, <2>1 DEF Scanning
  <2> QED
    BY <2>2 DEF v
<1>6. Scanning(Scan(st, line))
  BY <1>3, <1>4, <1>5 DEF Scan
<1> QED
  BY <1>6 DEF ScanUpTo

IsScan(f, line, max, steps) ==
  f = [n \in 0 .. steps |-> IF n = 0 THEN Start(line) ELSE ScanUpTo(f[n - 1], line, max)]

\* The states of cli_parse_line exist.
LEMMA ScanExists ==
  ASSUME NEW line, NEW max, NEW steps \in Nat
  PROVE  \E f : IsScan(f, line, max, steps)
<1> DEFINE Part(f, k) ==
             f = [n \in 0 .. k |-> IF n = 0 THEN Start(line) ELSE ScanUpTo(f[n - 1], line, max)]
           S == {k \in 0 .. steps : \E f : Part(f, k)}
<1>1. 0 \in S
  <2> DEFINE f == [n \in 0 .. 0 |-> Start(line)]
  <2>1. Part(f, 0)
    OBVIOUS
  <2> HIDE DEF Part
  <2> QED
    BY <2>1
<1>2. ASSUME NEW k \in 0 .. steps - 1, k \in S PROVE k + 1 \in S
  <2>1. PICK f : Part(f, k)
    BY <1>2
  <2> DEFINE v == ScanUpTo(f[k], line, max)
             g == [n \in 0 .. k + 1 |-> IF n <= k THEN f[n] ELSE v]
  <2> HIDE DEF v
  <2>2. \A n \in 0 .. k + 1 : g[n] = IF n <= k THEN f[n] ELSE v
    OBVIOUS
  <2>3. g = [n \in 0 .. k + 1 |-> g[n]]
    OBVIOUS
  <2> HIDE DEF g
  <2>4. ASSUME NEW n \in 0 .. k + 1
        PROVE  g[n] = IF n = 0 THEN Start(line) ELSE ScanUpTo(g[n - 1], line, max)
    <3>1. CASE n = 0
      <4>1. 0 \in 0 .. k /\ 0 \in 0 .. k + 1 /\ 0 <= k
        OBVIOUS
      <4>2. f[0] = Start(line)
        BY <2>1, <4>1
      <4> QED
        BY <2>2, <3>1, <4>1, <4>2
    <3>2. CASE n # 0 /\ n <= k
      <4>1. n \in 0 .. k /\ n - 1 \in 0 .. k + 1 /\ n - 1 <= k
        BY <3>2
      <4>2. f[n] = ScanUpTo(f[n - 1], line, max)
        BY <2>1, <3>2, <4>1
      <4> QED
        BY <2>2, <3>2, <4>1, <4>2
    <3>3. CASE ~(n <= k)
      <4>1. n = k + 1 /\ n # 0 /\ n - 1 = k /\ k \in 0 .. k + 1 /\ k <= k
        BY <3>3
      <4>2. g[n - 1] = f[k]
        BY <2>2, <4>1
      <4> QED
        BY <2>2, <3>3, <4>1, <4>2 DEF v
    <3> QED
      BY <3>1, <3>2, <3>3
  <2>5. Part(g, k + 1)
    BY <2>3, <2>4
  <2> HIDE DEF Part
  <2> QED
    BY <2>5
<1> HIDE DEF S
<1>3. \A k \in 0 .. steps : k \in S
  BY <1>1, <1>2, BoundedInd
<1>4. steps \in S
  BY <1>3
<1> QED
  BY <1>4 DEF S, IsScan

\* A line is cut into a sequence of words.
LEMMA WordsTyped ==
  ASSUME NEW line, IsSequence(line)
  PROVE  IsSequence(Words(line))
<1> DEFINE max == CLI_MAX_LINE_WORDS
           steps == 2 * Len(line) + 2
           f == CHOOSE f : IsScan(f, line, max, steps)
           S == {k \in 0 .. steps : Scanning(f[k])}
<1>0. steps \in Nat
  BY SeqIs
<1>1. IsScan(f, line, max, steps)
  <2> HIDE DEF max, steps
  <2> QED
    BY <1>0, ScanExists
<1>2. Words(line) = f[steps].words
  BY DEF Words, cli_parse_line, IsScan
<1> HIDE DEF f, max, steps
<1>3. 0 \in S
  <2>1. 0 \in 0 .. steps
    BY <1>0
  <2>2. f[0] = Start(line)
    BY <1>1, <2>1 DEF IsScan
  <2>3. Start(line).words = <<>>
        /\ {"p", "word_start", "inquote", "words", "done"} \subseteq DOMAIN Start(line)
    BY DEF Start
  <2> QED
    BY <2>1, <2>2, <2>3, SeqEmpty DEF Scanning
<1>4. ASSUME NEW k \in 0 .. steps - 1, k \in S PROVE k + 1 \in S
  <2>1. k + 1 \in 0 .. steps /\ k + 1 # 0 /\ k + 1 - 1 = k
    BY <1>0
  <2>2. f[k + 1] = ScanUpTo(f[k], line, max)
    <3> DEFINE V(n) == IF n = 0 THEN Start(line) ELSE ScanUpTo(f[n - 1], line, max)
               h == [n \in 0 .. steps |-> V(n)]
    <3>1. f = h
      BY <1>1 DEF IsScan
    <3> HIDE DEF V
    <3>2. h[k + 1] = V(k + 1)
      BY <2>1
    <3> HIDE DEF h
    <3>3. f[k + 1] = V(k + 1)
      BY <3>1, <3>2
    <3> QED
      BY <2>1, <3>3 DEF V
  <2>3. Scanning(f[k])
    BY <1>4
  <2>4. Scanning(f[k + 1])
    BY <2>2, <2>3, ScanKeeps
  <2> QED
    BY <2>1, <2>4
<1> HIDE DEF S
<1>5. \A k \in 0 .. steps : k \in S
  BY <1>0, <1>3, <1>4, BoundedInd
<1>6. steps \in S
  BY <1>0, <1>5
<1> QED
  BY <1>2, <1>6 DEF S, Scanning

\* The line that a buildmode stands for, interpreted after it was closed.
LEMMA ExecutedGood ==
  ASSUME NEW r, Sound(r.commands, r.mode, privilege, r.buildmode), Building(r.buildmode)
  PROVE  \E n \in Nat \ {0} : StageGood(Executed(r).r, n, n, FALSE)
<1> DEFINE bm == r.buildmode
           ctx == [privilege |-> privilege, mode |-> bm.mode, transient |-> bm.transient]
           name == FullName(r.commands, bm.command)
           optargs == r.commands[bm.command].optargs
           cmdline == Rebuild(name, optargs, bm.found, ctx).cmdline
           list == FreeBuildmode(r.commands)
           line == Words(cmdline)
<1>1. Executed(r).r = Interpret(list, bm.mode, NoBuildmode, line, FALSE)
  BY DEF Executed
<1>2. /\ Alike(r.commands, bm.mode) /\ bm.command \in 1 .. N
      /\ IsSequence(bm.found) /\ Valued(bm.found) /\ bm.mode = r.mode
  BY DEF Sound
<1>3. /\ Rooted(r.commands) /\ bm.command \in 1 .. Len(r.commands)
      /\ \A k \in 1 .. Len(r.commands) : IsSequence(r.commands[k].name)
  BY <1>2, AlikeIs
<1>4. IsSequence(name)
  BY <1>3, NameTyped
<1>5. Len(optargs) \in Nat /\ \A j \in 1 .. Len(optargs) : IsSequence(optargs[j].name)
  <2>1. AsRegistered(r.commands[bm.command], Registered[bm.command])
    BY <1>2 DEF Alike
  <2>2. optargs = Registered[bm.command].optargs
    BY <1>2, <2>1, AsIs
  <2> HIDE DEF optargs
  <2> QED
    BY <1>2, <2>2, RegisteredIs, SeqIs
<1>6. Sound(list, bm.mode, privilege, NoBuildmode)
  BY <1>2, FreeSound DEF Sound
<1> HIDE DEF name, optargs, list, ctx
<1>7. IsSequence(cmdline)
  BY <1>2, <1>4, <1>5, RebuildTyped
<1> HIDE DEF cmdline
<1>8. IsLine(line, FALSE)
  BY <1>7, WordsTyped DEF IsLine
<1> HIDE DEF line
<1>9. ~Building(NoBuildmode)
  BY NothingSet
<1> DEFINE n == Len(Stages(line))
<1>10. /\ StageGood(Interpret(list, bm.mode, NoBuildmode, line, FALSE), n, n, FALSE)
       /\ n \in Nat \ {0}
  BY <1>6, <1>8, <1>9, InterpretGood
<1> QED
  BY <1>1, <1>10

-----------------------------------------------------------------------------
(* The words at which completion begins to parse the options.              *)

NamedOf(list, at, type, words, x, k) ==
  {i \in Begun(list, at, type, x, words[k]) : Abbreviates(words[k], list[i])}

LeafOf(list, i) == \A j \in DOMAIN list : list[j].parent # i

\* Where the walk of completion ends.
EndOf(list, at, type, words, key, x, k) ==
  LET begun == Begun(list, at, type, x, words[k])
      offered == InOrder(begun, Len(list))
      named == NamedOf(list, at, type, words, x, k)
  IN IF k = Len(words)
     THEN [command |-> 0, word |-> k,
           entries |-> [n \in DOMAIN offered |-> NameEntry(list[offered[n]], key)]]
     ELSE IF named = {} THEN [command |-> 0, word |-> k, entries |-> <<>>]
     ELSE [command |-> Least(named), word |-> k + 1, entries |-> <<>>]

DescStep(f, list, at, type, words, key, x, k) ==
  IF \/ k = Len(words) \/ NamedOf(list, at, type, words, x, k) = {}
     \/ LeafOf(list, Least(NamedOf(list, at, type, words, x, k)))
  THEN EndOf(list, at, type, words, key, x, k)
  ELSE f[k + 1][Least(NamedOf(list, at, type, words, x, k))]

IsDesc(f, list, at, type, words, key) ==
  f = [k \in 1 .. Len(words) |-> [x \in 0 .. Len(list) |->
         DescStep(f, list, at, type, words, key, x, k)]]

DescOf(list, at, type, words, key) == CHOOSE f : IsDesc(f, list, at, type, words, key)

\* The walk of completion as a function of word and parent.
LEMMA DescIs ==
  \A list, at, type, words, key :
    Descend(list, at, type, words, key) = DescOf(list, at, type, words, key)[1][0]
<1> SUFFICES ASSUME NEW list, NEW at, NEW type, NEW words, NEW key
             PROVE  Descend(list, at, type, words, key) = DescOf(list, at, type, words, key)[1][0]
  OBVIOUS
<1> DEFINE Body(f, x, k) ==
             IF k = Len(words)
             THEN [command |-> 0, word |-> k,
                   entries |-> [n \in DOMAIN InOrder(Begun(list, at, type, x, words[k]), Len(list)) |->
                      NameEntry(list[InOrder(Begun(list, at, type, x, words[k]), Len(list))[n]], key)]]
             ELSE IF NamedOf(list, at, type, words, x, k) = {}
             THEN [command |-> 0, word |-> k, entries |-> <<>>]
             ELSE IF \A j \in DOMAIN list :
                       list[j].parent # Least(NamedOf(list, at, type, words, x, k))
             THEN [command |-> Least(NamedOf(list, at, type, words, x, k)), word |-> k + 1,
                   entries |-> <<>>]
             ELSE f[k + 1][Least(NamedOf(list, at, type, words, x, k))]
           Is(f) == f = [k \in 1 .. Len(words) |-> [x \in 0 .. Len(list) |-> Body(f, x, k)]]
<1>1. Descend(list, at, type, words, key) = (CHOOSE f : Is(f))[1][0]
  BY DEF Descend, NamedOf
<1>2. ASSUME NEW f, NEW x, NEW k
      PROVE  Body(f, x, k) = DescStep(f, list, at, type, words, key, x, k)
  BY DEF DescStep, EndOf, LeafOf
<1> HIDE DEF Body
<1>3. \A f : Is(f) = IsDesc(f, list, at, type, words, key)
  BY <1>2 DEF IsDesc
<1> HIDE DEF Is
<1>4. (CHOOSE f : Is(f)) = DescOf(list, at, type, words, key)
  BY <1>3 DEF DescOf
<1> QED
  BY <1>1, <1>4

\* A step goes on to a command of the list, or ends.
LEMMA DescSteps ==
  ASSUME NEW list, NEW bm, Alike(list, bm), NEW at, NEW type, NEW words, NEW key,
         NEW x, NEW k
  PROVE  \/ /\ k # Len(words)
            /\ \E i \in 1 .. Len(list) :
                 \A f : DescStep(f, list, at, type, words, key, x, k) = f[k + 1][i]
         \/ \A f : DescStep(f, list, at, type, words, key, x, k)
                     = EndOf(list, at, type, words, key, x, k)
<1> DEFINE M == NamedOf(list, at, type, words, x, k)
<1>1. Len(list) \in Nat /\ DOMAIN list = 1 .. Len(list)
  BY AlikeIs
<1>2. M \in SUBSET (1 .. Len(list))
  BY <1>1 DEF NamedOf, Begun
<1>3. M # {} => Least(M) \in M
  <2>1. M \in SUBSET Nat
    BY <1>1, <1>2
  <2> HIDE DEF M
  <2> QED
    BY <2>1, LeastIs
<1>4. \A f : DescStep(f, list, at, type, words, key, x, k)
               = IF k = Len(words) \/ M = {} \/ LeafOf(list, Least(M))
                 THEN EndOf(list, at, type, words, key, x, k) ELSE f[k + 1][Least(M)]
  BY DEF DescStep
<1> HIDE DEF M
<1>5. CASE k = Len(words) \/ M = {} \/ LeafOf(list, Least(M))
  BY <1>4, <1>5
<1>6. CASE ~(k = Len(words) \/ M = {} \/ LeafOf(list, Least(M)))
  <2>1. Least(M) \in 1 .. Len(list) /\ k # Len(words)
    BY <1>2, <1>3, <1>6
  <2>2. \A f : DescStep(f, list, at, type, words, key, x, k) = f[k + 1][Least(M)]
    BY <1>4, <1>6
  <2> QED
    BY <2>1, <2>2
<1> QED
  BY <1>5, <1>6

\* The walk of completion ends: it goes from word to word.
LEMMA DescExists ==
  ASSUME NEW list, NEW bm, Alike(list, bm), NEW at, NEW type, NEW words, NEW key,
         Len(words) \in Nat
  PROVE  \E f : IsDesc(f, list, at, type, words, key)
<1> DEFINE n == Len(list)
           K == Len(words)
           Step(f, x, k) == DescStep(f, list, at, type, words, key, x, k)
           Part(f, j) == \A x \in 0 .. n, k \in 1 .. K : k > K - j => f[k][x] = Step(f, x, k)
           S == {j \in 0 .. K : \E f : Part(f, j)}
<1>0. n \in Nat /\ K \in Nat
  BY AlikeIs
<1>a. ASSUME NEW f, NEW g, NEW x, NEW k,
             k = K \/ \A i \in 1 .. n : f[k + 1][i] = g[k + 1][i]
      PROVE  Step(f, x, k) = Step(g, x, k)
  <2> DEFINE e == EndOf(list, at, type, words, key, x, k)
  <2>1. \/ k # K /\ \E i \in 1 .. n : \A h : Step(h, x, k) = h[k + 1][i]
        \/ \A h : Step(h, x, k) = e
    BY DescSteps
  <2> HIDE DEF Step, e
  <2> QED
    BY <1>a, <2>1
<1>1. 0 \in S
  <2>1. \A k \in 1 .. K : ~(k > K - 0)
    BY <1>0
  <2>2. \A f : Part(f, 0)
    BY <2>1
  <2> HIDE DEF Part
  <2> QED
    BY <1>0, <2>2
<1>2. ASSUME NEW j \in 0 .. K - 1, j \in S PROVE j + 1 \in S
  <2>1. PICK f : Part(f, j)
    BY <1>2
  <2> DEFINE V(x, k) == IF k = K - j THEN Step(f, x, k) ELSE f[k][x]
             g == [k \in 1 .. K |-> [x \in 0 .. n |-> V(x, k)]]
  <2> HIDE DEF V, Step
  <2>2. \A x \in 0 .. n, k \in 1 .. K : g[k][x] = V(x, k)
    OBVIOUS
  <2> HIDE DEF g
  <2>3. ASSUME NEW x \in 0 .. n, NEW k \in 1 .. K, k > K - (j + 1)
        PROVE  g[k][x] = Step(g, x, k)
    <3>1. k = K \/ (k # K /\ k + 1 \in 1 .. K /\ k + 1 # K - j)
      BY <1>0, <2>3
    <3>2. \A i \in 1 .. n : i \in 0 .. n
      BY <1>0
    <3>3. k = K \/ \A i \in 1 .. n : f[k + 1][i] = g[k + 1][i]
      BY <2>2, <3>1, <3>2 DEF V
    <3>4. Step(f, x, k) = Step(g, x, k)
      BY <3>3, <1>a
    <3>5. CASE k = K - j
      BY <2>2, <3>4, <3>5 DEF V
    <3>6. CASE k # K - j
      <4>1. k > K - j
        BY <1>0, <2>3, <3>6
      <4>2. f[k][x] = Step(f, x, k)
        BY <2>1, <4>1
      <4> QED
        BY <2>2, <3>4, <3>6, <4>2 DEF V
    <3> QED
      BY <3>5, <3>6
  <2>4. Part(g, j + 1)
    BY <2>3
  <2>5. j + 1 \in 0 .. K
    BY <1>0
  <2> HIDE DEF Part
  <2> QED
    BY <2>4, <2>5
<1>3. \A j \in 0 .. K : j \in S
  <2> HIDE DEF S, K
  <2> QED
    BY <1>0, <1>1, <1>2, BoundedInd
<1>4. PICK f : Part(f, K)
  <2>1. K \in 0 .. K
    BY <1>0
  <2> QED
    BY <1>3, <2>1
<1> DEFINE g == [k \in 1 .. K |-> [x \in 0 .. n |-> f[k][x]]]
<1> HIDE DEF Step
<1>5. \A x \in 0 .. n, k \in 1 .. K : g[k][x] = f[k][x]
  OBVIOUS
<1>6. ASSUME NEW x \in 0 .. n, NEW k \in 1 .. K
      PROVE  f[k][x] = Step(g, x, k)
  <2>1. k > K - K
    BY <1>0
  <2>2. f[k][x] = Step(f, x, k)
    BY <1>4, <2>1
  <2>3. k = K \/ (k # K /\ k + 1 \in 1 .. K)
    BY <1>0
  <2>4. \A i \in 1 .. n : i \in 0 .. n
    BY <1>0
  <2> HIDE DEF g
  <2>5. k = K \/ \A i \in 1 .. n : f[k + 1][i] = g[k + 1][i]
    BY <1>5, <2>3, <2>4
  <2>6. Step(f, x, k) = Step(g, x, k)
    BY <2>5, <1>a
  <2> QED
    BY <2>2, <2>6
<1>7. g = [k \in 1 .. K |-> [x \in 0 .. n |-> Step(g, x, k)]]
  <2> DEFINE h == [k \in 1 .. K |-> [x \in 0 .. n |-> Step(g, x, k)]]
  <2> HIDE DEF h
  <2> QED
    BY <1>6
<1> HIDE DEF g
<1>8. IsDesc(g, list, at, type, words, key)
  BY <1>7 DEF IsDesc, Step
<1> QED
  BY <1>8

\* Where the words name a command, the parse begins at one of the words.
LEMMA Descends ==
  ASSUME NEW list, NEW bm, Alike(list, bm), NEW at, NEW type, NEW words, NEW key,
         Len(words) \in Nat \ {0}
  PROVE  LET w == Descend(list, at, type, words, key)
         IN w.command # 0 => w.word \in Nat \ {0}
<1> DEFINE f == DescOf(list, at, type, words, key)
           n == Len(list)
           K == Len(words)
           Good(w) == w.command # 0 => w.word \in Nat \ {0}
           S == {j \in 0 .. K : \A k \in 1 .. K, x \in 0 .. n : k > K - j => Good(f[k][x])}
<1>0. n \in Nat /\ K \in Nat /\ K # 0
  BY AlikeIs
<1>1. IsDesc(f, list, at, type, words, key)
  BY DescExists DEF DescOf
<1> HIDE DEF f
<1>2. ASSUME NEW k \in 1 .. K, NEW x \in 0 .. n
      PROVE  f[k][x] = DescStep(f, list, at, type, words, key, x, k)
  <2> DEFINE h == [y \in 0 .. n |-> DescStep(f, list, at, type, words, key, y, k)]
  <2>1. f = [l \in 1 .. K |-> [y \in 0 .. n |-> DescStep(f, list, at, type, words, key, y, l)]]
    BY <1>1 DEF IsDesc
  <2>2. f[k] = h
    BY <2>1, Zenon
  <2>3. h[x] = DescStep(f, list, at, type, words, key, x, k)
    OBVIOUS
  <2> QED
    BY <2>2, <2>3
<1>3. ASSUME NEW k \in 1 .. K, NEW x PROVE Good(EndOf(list, at, type, words, key, x, k))
  <2>1. k + 1 \in Nat \ {0}
    BY <1>0
  <2> DEFINE e == EndOf(list, at, type, words, key, x, k)
  <2>2. e.command = 0 \/ e.word = k + 1
    BY DEF EndOf
  <2> HIDE DEF e
  <2>3. Good(e)
    BY <2>1, <2>2
  <2> QED
    BY <2>3 DEF e
<1>4. 0 \in S
  <2>1. \A k \in 1 .. K : ~(k > K - 0)
    BY <1>0
  <2> QED
    BY <1>0, <2>1
<1>5. ASSUME NEW j \in 0 .. K - 1, j \in S PROVE j + 1 \in S
  <2>1. ASSUME NEW k \in 1 .. K, NEW x \in 0 .. n, k > K - (j + 1)
        PROVE  Good(f[k][x])
    <3> DEFINE Step(h) == DescStep(h, list, at, type, words, key, x, k)
               e == EndOf(list, at, type, words, key, x, k)
    <3>1. \/ k # K /\ \E i \in 1 .. n : \A h : Step(h) = h[k + 1][i]
          \/ \A h : Step(h) = e
      BY DescSteps
    <3>2. f[k][x] = Step(f) /\ Good(e)
      BY <1>2, <1>3
    <3> HIDE DEF Step, e, Good
    <3>3. CASE k # K /\ \E i \in 1 .. n : \A h : Step(h) = h[k + 1][i]
      <4>1. PICK i \in 1 .. n : Step(f) = f[k + 1][i]
        BY <3>3
      <4>2. k + 1 \in 1 .. K /\ k + 1 > K - j /\ i \in 0 .. n
        BY <1>0, <2>1, <3>3
      <4> QED
        BY <1>5, <3>2, <4>1, <4>2
    <3>4. CASE \A h : Step(h) = e
      BY <3>2, <3>4
    <3> QED
      BY <3>1, <3>3, <3>4
  <2>2. j + 1 \in 0 .. K
    BY <1>0
  <2> HIDE DEF Good
  <2> QED
    BY <2>1, <2>2
<1>6. K \in S
  <2> HIDE DEF S, K
  <2>1. \A j \in 0 .. K : j \in S
    BY <1>0, <1>4, <1>5, BoundedInd
  <2>2. K \in 0 .. K
    BY <1>0
  <2> QED
    BY <2>1, <2>2
<1>7. Good(f[1][0])
  <2>1. 1 \in 1 .. K /\ 0 \in 0 .. n /\ 1 > K - K
    BY <1>0
  <2> HIDE DEF Good
  <2> QED
    BY <1>6, <2>1
<1>8. Descend(list, at, type, words, key) = f[1][0]
  BY DescIs DEF f
<1> QED
  BY <1>7, <1>8

-----------------------------------------------------------------------------
(* The filters of a pipeline.                                              *)

\* Each filter of libcli is of a kind that CliFilters knows.
LEMMA FilterKind ==
  \A act, found : act \in FilterActs => FilterOf(act, found).kind \in Kinds
BY DEF FilterActs, FilterOf, Kinds, Match, Span, Count

\* The stages that follow the command are filters, and where none is misread
\* they are what they are meant to be.
LEMMA FiltersAre ==
  ASSUME NEW r, NEW n \in Nat \ {0}, NEW allow, StageGood(r, n, n, allow), r.rc = "OK",
         ~Building(r.buildmode)
  PROVE  /\ IsSequence(Meant(r))
         /\ \A i \in DOMAIN Meant(r) : Meant(r)[i].kind \in Kinds
         /\ Misreads(r) = {} => \A accident : Filters(r, accident) = Meant(r)
<1> DEFINE Act(i) == FilterAct(r, i)
           Found(i) == r.chosen[i + 1].found
           m == Meant(r)
<1>1. Len(r.chosen) = n /\ n - 1 \in Nat
  BY DEF StageGood, Chose
<1>2. m = [i \in 1 .. n - 1 |-> FilterOf(Act(i), Found(i))]
  BY <1>1 DEF Meant
<1>3. IsSequence(m) /\ DOMAIN m = 1 .. n - 1
  <2>1. m = [i \in 1 .. n - 1 |-> m[i]]
    BY <1>2
  <2> HIDE DEF m
  <2> QED
    BY <1>1, <2>1, SeqFun
<1>4. ASSUME NEW i \in 1 .. n - 1 PROVE Act(i) \in FilterActs
  <2>1. i + 1 \in 1 .. n /\ i + 1 > 1
    BY <1>1
  <2> DEFINE c == r.chosen[i + 1].command
  <2>2. c \in 1 .. Len(r.commands) /\ r.commands[c].type = "filter"
    BY <2>1 DEF StageGood, Chose
  <2> HIDE DEF c
  <2>3. Len(r.commands) = N /\ Alike(r.commands, r.buildmode.mode)
    BY DEF StageGood, Sound
  <2>4. c \in 1 .. N /\ AsRegistered(r.commands[c], Registered[c])
    BY <2>2, <2>3 DEF Alike
  <2>5. /\ r.commands[c].type = Registered[c].type
        /\ r.commands[c].act = Registered[c].act
    BY <2>4, AsIs
  <2>6. Registered[c].act \in FilterActs
    BY <2>2, <2>4, <2>5, RegisteredIs
  <2>7. Act(i) = r.commands[c].act
    BY DEF FilterAct, c
  <2> QED
    BY <2>5, <2>6, <2>7
<1>5. ASSUME NEW i \in 1 .. n - 1 PROVE m[i].kind \in Kinds
  <2>1. m[i] = FilterOf(Act(i), Found(i))
    BY <1>2
  <2>2. FilterOf(Act(i), Found(i)).kind \in Kinds
    BY <1>4, FilterKind
  <2> QED
    BY <2>1, <2>2
<1>6. ASSUME Misreads(r) = {}, NEW accident
      PROVE  Filters(r, accident) = m
  <2> HIDE DEF m
  <2>1. \A i \in 1 .. n - 1 : i \notin Misreads(r)
    BY <1>6
  <2>2. Filters(r, accident) = [i \in 1 .. n - 1 |-> m[i]]
    BY <1>1, <2>1 DEF Filters, m
  <2>3. m = [i \in 1 .. n - 1 |-> m[i]]
    BY <1>2 DEF m
  <2> QED
    BY <2>2, <2>3
<1> HIDE DEF m
<1>7. \A i \in DOMAIN m : m[i].kind \in Kinds
  BY <1>3, <1>5
<1> QED
  BY <1>3, <1>6, <1>7 DEF m

-----------------------------------------------------------------------------
(* The mode and the privilege change.                                      *)

\* cli_set_privilege and cli_set_configmode rebuild what they make stale.
LEMMA SetSound ==
  ASSUME NEW list, NEW m0, NEW p0, NEW bm, Sound(list, m0, p0, bm), ~Building(bm),
         NEW m, NEW p, NEW a, a = IF p # p0 THEN cli_build_shortest(list, m0, p) ELSE list,
         NEW v, v = IF m # m0 THEN cli_build_shortest(a, m, p) ELSE a
  PROVE  Sound(v, m, p, bm) /\ SameCommands(v, list)
<1>1. Alike(list, bm.mode) /\ Right(list, m0, p0) /\ Len(list) = N
  BY DEF Sound
<1>2. Alike(a, bm.mode) /\ Right(a, m0, p) /\ SameCommands(a, list)
  <2>1. CASE p # p0
    BY <1>1, <2>1, BuildIs
  <2>2. CASE p = p0
    BY <1>1, <2>2 DEF SameCommands
  <2> QED
    BY <2>1, <2>2
<1>3. Alike(v, bm.mode) /\ Right(v, m, p) /\ SameCommands(v, a)
  <2>1. CASE m # m0
    BY <1>2, <2>1, BuildIs
  <2>2. CASE m = m0
    BY <1>2, <2>2 DEF SameCommands
  <2> QED
    BY <2>1, <2>2
<1>4. SameCommands(v, list)
  BY <1>2, <1>3 DEF SameCommands
<1>5. Len(v) = N
  BY <1>1, <1>4 DEF SameCommands
<1> QED
  BY <1>3, <1>4, <1>5 DEF Sound

-----------------------------------------------------------------------------
(* The invariant: the commands, as the mode, the privilege and the         *)
(* buildmode would have them.                                              *)

CommandsSound == Sound(commands, mode, privilege, buildmode)

ShellInv == CommandsSound /\ OutputFiltered

\* What a command prints is a sequence of lines.
LEMMA TextIs == Text \in Seq({Text[n] : n \in DOMAIN Text})
BY ShellAssumption DEF IsSequence

\* The words of a line are spelt.
LEMMA LinesAre ==
  ASSUME NEW line \in Lines \cup Beginnings
  PROVE  IsLine(line, TRUE) /\ Spelt(line)
<1>1. IsSequence(line) /\ \A n \in DOMAIN line : IsSequence(line[n])
  BY ShellAssumption
<1>2. DOMAIN line = 1 .. Len(line)
  BY <1>1, SeqIs
<1> QED
  BY <1>1, <1>2 DEF IsLine, Spelt

\* A line that is completed has a word in its last stage.
LEMMA LastStageIs ==
  ASSUME NEW line \in Beginnings
  PROVE  Spelt(LastStage(line)) /\ Len(LastStage(line)) \in Nat \ {0}
<1> DEFINE stages == Stages(line)
<1>1. /\ Spelt(line) /\ IsSequence(line)
      /\ line # <<>> /\ Len(line) \notin Bars(line)
  BY LinesAre, ShellAssumption DEF Spelt
<1>2. Len(line) # 0
  <2> SUFFICES ASSUME Len(line) = 0 PROVE FALSE
    OBVIOUS
  <2>1. line = <<>>
    BY <1>1, SeqIs
  <2> QED
    BY <1>1, <2>1
<1>3. AreStages(stages, TRUE) /\ Len(LastStage(line)) \in Nat \ {0}
  BY <1>1, <1>2, StagesAre
<1> HIDE DEF stages
<1>4. Len(stages) \in 1 .. Len(stages)
  BY <1>3 DEF AreStages
<1>5. Spelt(stages[Len(stages)].words)
  BY <1>3, <1>4 DEF AreStages, StageIs
<1> QED
  BY <1>3, <1>5 DEF LastStage, stages

\* A session begins sound.
LEMMA ShellInit == Init => ShellInv
<1> SUFFICES ASSUME Init PROVE ShellInv
  OBVIOUS
<1>1. /\ commands = cli_build_shortest(Registered, MODE_EXEC, 0)
      /\ privilege = 0 /\ mode = MODE_EXEC /\ buildmode = NoBuildmode /\ ran = NotRun
  BY DEF Init
<1>2. Alike(Registered, 0)
  <2>1. ASSUME NEW i \in 1 .. N PROVE AsRegistered(Registered[i], Registered[i])
    <3>1. DOMAIN Registered[i] = Fields
      BY RegisteredIs
    <3>2. Registered[i] = [Registered[i] EXCEPT !.unique_len = Registered[i].unique_len]
      <4> DEFINE c == Registered[i]
      <4>1. c = [Command(c.parent, c.name, c.type, c.privilege, c.mode, c.act, c.optargs)
                   EXCEPT !.unique_len = c.unique_len, !.optional = c.optional]
        BY RegisteredIs, ShellAssumption
      <4> HIDE DEF c
      <4>2. c = [parent |-> c.parent, name |-> c.name, type |-> c.type,
                 privilege |-> c.privilege, mode |-> c.mode, act |-> c.act,
                 optargs |-> c.optargs, unique_len |-> c.unique_len,
                 optional |-> c.optional]
        BY <4>1 DEF Command
      <4>3. c = [c EXCEPT !.unique_len = c.unique_len]
        BY <4>2
      <4> QED
        BY <4>3 DEF c
    <3> QED
      BY <3>2 DEF AsRegistered
  <2> QED
    BY <2>1, RegisteredIs DEF Alike, Rooted, N
<1>3. /\ Alike(commands, 0) /\ Right(commands, mode, privilege)
      /\ SameCommands(commands, Registered)
  BY <1>1, <1>2, BuildIs
<1>4. Sound(commands, mode, privilege, buildmode)
  <2>1. Len(commands) = N
    BY <1>3 DEF SameCommands, N
  <2> QED
    BY <1>1, <1>3, <2>1, NothingSet DEF Sound
<1>5. OutputFiltered
  BY <1>1 DEF OutputFiltered, NotRun
<1> QED
  BY <1>4, <1>5 DEF ShellInv, CommandsSound

\* Nothing was run: there is no output to speak of.
LEMMA NothingRun == ran'.command = 0 => OutputFiltered'
BY DEF OutputFiltered

\* The session that interpreting a line leaves is sound.
LEMMA InterpretedSound ==
  ASSUME NEW r, Sound(r.commands, r.mode, privilege, r.buildmode), Interpreted(r),
         privilege' = privilege
  PROVE  CommandsSound'
<1>1. Sound(commands', mode', privilege', buildmode')
  BY DEF Interpreted
<1> QED
  BY <1>1 DEF CommandsSound

\* A line is interpreted in a sound session.
LEMMA LineGood ==
  ASSUME ShellInv, NEW line \in Lines, NEW r, r = Interpret(commands, mode, buildmode, line, TRUE)
  PROVE  LET n == Len(Stages(line))
         IN StageGood(r, n, n, TRUE) /\ n \in Nat \ {0}
<1>1. IsLine(line, TRUE) /\ Sound(commands, mode, privilege, buildmode)
  BY LinesAre DEF ShellInv, CommandsSound
<1> QED
  BY <1>1, InterpretGood

\* What a line is run by: the operator, or a buildmode that is executed.
RunBy(by) == {"command", "found", "filters", "infull"} \subseteq DOMAIN by /\ by.command = 0

\* A line that runs nothing.
LEMMA OnlyInterpretedKeeps ==
  ASSUME NEW r, NEW n, NEW allow, StageGood(r, n, n, allow), NEW by, RunBy(by),
         OnlyInterpreted(r, by)
  PROVE  ShellInv'
<1>1. CommandsSound'
  BY InterpretedSound DEF StageGood, OnlyInterpreted
<1>2. OutputFiltered'
  BY NothingRun DEF OnlyInterpreted, RunBy
<1> QED
  BY <1>1, <1>2 DEF ShellInv

\* A command runs: its output passes the filters, or the mode changes.
LEMMA SetKeeps ==
  ASSUME NEW r, Sound(r.commands, r.mode, privilege, r.buildmode), ~Building(r.buildmode),
         NEW p, NEW m, Set(r, p, m)
  PROVE  CommandsSound' /\ SameCommands(commands', r.commands)
<1>1. /\ privilege' = p /\ mode' = m /\ buildmode' = r.buildmode
      /\ commands' = IF m # r.mode
                     THEN cli_build_shortest(
                            IF p # privilege THEN cli_build_shortest(r.commands, r.mode, p)
                            ELSE r.commands, m, p)
                     ELSE IF p # privilege THEN cli_build_shortest(r.commands, r.mode, p)
                     ELSE r.commands
  BY DEF Set, cli_set_privilege
<1>2. /\ Sound(commands', m, p, r.buildmode) /\ SameCommands(commands', r.commands)
  BY <1>1, SetSound
<1>3. Sound(commands', mode', privilege', buildmode')
  BY <1>1, <1>2
<1> QED
  BY <1>2, <1>3 DEF CommandsSound

\* A command runs, its output through filters that begin anew.
LEMMA RunCommandKeeps ==
  ASSUME NEW r, NEW n \in Nat \ {0}, NEW allow, StageGood(r, n, n, allow), NEW by, RunBy(by),
         RunCommand(r, by)
  PROVE  ShellInv'
<1> DEFINE c == r.chosen[1].command
           act == r.commands[c].act
<1>1. r.rc = "OK" /\ ~Building(r.buildmode) /\ Callback(r, act) /\ Ran(r, by)
  BY DEF RunCommand
<1>2. Sound(r.commands, r.mode, privilege, r.buildmode) /\ c \in 1 .. Len(r.commands)
  BY <1>1 DEF StageGood, Chose
<1>3. /\ ran'.command = c /\ ran'.filters = Meant(r)
      /\ ran'.infull = (Misreads(r) = {})
  BY <1>1 DEF Ran, RunBy
<1>4. CASE act = "print"
  <2>1. PICK accident \in [Misreads(r) -> Patterns] :
          output' = cli_int_execute_pipeline(Filters(r, accident), Text)
    BY <1>1, <1>4 DEF Callback
  <2>2. Interpreted(r) /\ privilege' = privilege
    BY <1>1, <1>4 DEF Callback
  <2>3. CommandsSound'
    BY <1>2, <2>2, InterpretedSound
  <2>4. ASSUME ran'.infull PROVE output' = Meaning(ran'.filters, Text)
    <3>1. /\ IsSequence(Meant(r))
          /\ \A i \in DOMAIN Meant(r) : Meant(r)[i].kind \in Kinds
          /\ Filters(r, accident) = Meant(r)
      BY <1>1, <1>3, <2>4, FiltersAre
    <3> DEFINE chain == Meant(r)
    <3>2. chain \in Seq({chain[i] : i \in DOMAIN chain})
      BY <3>1 DEF IsSequence
    <3> HIDE DEF chain
    <3>3. chain = Meant(r)
      BY DEF chain
    <3>4. cli_int_execute_pipeline(chain, Text) = Meaning(chain, Text)
      BY <3>1, <3>2, <3>3, TextIs, FiltersMean
    <3> QED
      BY <1>3, <2>1, <3>1, <3>3, <3>4
  <2>5. OutputFiltered'
    BY <2>4 DEF OutputFiltered
  <2> QED
    BY <2>3, <2>5 DEF ShellInv
<1>5. CASE act # "print"
  <2>1. \/ \E p, m : Set(r, p, m)
        \/ Interpreted(r) /\ privilege' = privilege
    BY <1>1, <1>5 DEF Callback
  <2>2. CommandsSound' /\ SameCommands(commands', r.commands)
    <3>1. CASE \E p, m : Set(r, p, m)
      BY <1>1, <1>2, <3>1, SetKeeps
    <3>2. CASE Interpreted(r) /\ privilege' = privilege
      BY <1>2, <3>2, InterpretedSound DEF Interpreted, SameCommands
    <3> QED
      BY <2>1, <3>1, <3>2
  <2>3. commands'[ran'.command].act = act
    BY <1>2, <1>3, <2>2 DEF SameCommands
  <2>4. OutputFiltered'
    BY <1>5, <2>3 DEF OutputFiltered
  <2> QED
    BY <2>2, <2>4 DEF ShellInv
<1> QED
  BY <1>4, <1>5

\* A buildmode that is cancelled leaves the mode in which it was opened.
LEMMA BuildCallbackKeeps ==
  ASSUME NEW r, NEW n \in Nat \ {0}, NEW allow, StageGood(r, n, n, allow), r.rc = "OK",
         Building(r.buildmode), NEW act, BuildCallback(r, act), privilege' = privilege
  PROVE  CommandsSound'
<1> DEFINE c == r.commands[r.chosen[1].command]
           many == RecordsMany(r.commands[r.buildmode.command].optargs, c.name)
           set == cli_set_optarg_value(r.buildmode.found, c.name, c.name, many)
           unset == cli_int_unset_optarg_value(r.buildmode.found, r.chosen[1].argv[1])
           With(f) == [r EXCEPT !.buildmode.found = f]
<1>1. \/ Interpreted(r)
      \/ Interpreted(With(set))
      \/ Interpreted(With(unset))
      \/ /\ commands' = FreeBuildmode(r.commands)
         /\ mode' = r.buildmode.mode
         /\ buildmode' = NoBuildmode
  BY DEF BuildCallback
<1>s. RSlots \subseteq DOMAIN r /\ Sound(r.commands, r.mode, privilege, r.buildmode)
  BY DEF StageGood
<1>2. IsSequence(set) /\ Valued(set) /\ IsSequence(unset) /\ Valued(unset)
  <2>1. IsSequence(r.buildmode.found) /\ Valued(r.buildmode.found)
    BY <1>s DEF Sound
  <2>2. IsSequence(c.name)
    <3> DEFINE list == r.commands
               i == r.chosen[1].command
               bm == r.buildmode.mode
    <3>1. i \in 1 .. Len(list) /\ Alike(list, bm)
      BY <1>s DEF Sound, StageGood, Chose
    <3> HIDE DEF list, i, bm
    <3>2. IsSequence(list[i].name)
      BY <3>1, AlikeIs
    <3> QED
      BY <3>2 DEF list, i
  <2> HIDE DEF c, many
  <2>3. IsSequence(set) /\ Valued(set)
    BY <2>1, <2>2, SetTyped
  <2>4. IsSequence(unset) /\ Valued(unset)
    BY <2>1, PairsTyped DEF cli_int_unset_optarg_value
  <2> QED
    BY <2>3, <2>4
<1>3. ASSUME NEW f, IsSequence(f), Valued(f), Interpreted(With(f)) PROVE CommandsSound'
  <2>1. commands' = r.commands /\ mode' = r.mode
    BY <1>3, <1>s DEF Interpreted, RSlots
  <2>2. buildmode' = [r.buildmode EXCEPT !.found = f]
    BY <1>3, <1>s DEF Interpreted, RSlots
  <2>3. Sound(r.commands, r.mode, privilege, [r.buildmode EXCEPT !.found = f])
    BY <1>3, <1>s, FoundSound
  <2>4. Sound(commands', mode', privilege', buildmode')
    BY <2>1, <2>2, <2>3
  <2> QED
    BY <2>4 DEF CommandsSound
<1>4. CASE Interpreted(r)
  BY <1>4, <1>s, InterpretedSound
<1>5. ASSUME commands' = FreeBuildmode(r.commands), mode' = r.buildmode.mode,
             buildmode' = NoBuildmode
      PROVE  CommandsSound'
  <2>1. r.buildmode.mode = r.mode /\ Alike(r.commands, r.buildmode.mode)
    BY <1>s DEF Sound
  <2>2. Sound(FreeBuildmode(r.commands), r.mode, privilege, NoBuildmode)
    BY <1>s, <2>1, FreeSound DEF Sound
  <2>3. Sound(commands', mode', privilege', buildmode')
    BY <1>5, <2>1, <2>2
  <2> QED
    BY <2>3 DEF CommandsSound
<1> HIDE DEF set, unset, With
<1> QED
  BY <1>1, <1>2, <1>3, <1>4, <1>5

\* A command of the buildmode runs.
LEMMA RunBuildCommandKeeps ==
  ASSUME NEW r, NEW n \in Nat \ {0}, NEW allow, StageGood(r, n, n, allow), RunBuildCommand(r)
  PROVE  ShellInv'
<1> DEFINE act == r.commands[r.chosen[1].command].act
<1>1. /\ r.rc = "OK" /\ Building(r.buildmode) /\ BuildCallback(r, act)
      /\ privilege' = privilege /\ ran' = NotRun
  BY DEF RunBuildCommand
<1> HIDE DEF act
<1>2. CommandsSound'
  BY <1>1, BuildCallbackKeeps
<1>3. OutputFiltered'
  BY <1>1, NothingRun DEF NotRun
<1> QED
  BY <1>2, <1>3 DEF ShellInv

\* A buildmode that is executed is closed, and the line it stands for is run.
LEMMA ExecuteKeeps ==
  ASSUME NEW r, NEW n, NEW allow, StageGood(r, n, n, allow), ExecuteBuildmode(r)
  PROVE  ShellInv'
<1> DEFINE e == Executed(r)
           by == [NotRun EXCEPT !.executed = TRUE,
                                !.meant = r.buildmode.command,
                                !.settings = r.buildmode.found]
<1>1. \/ Interpreted(r) /\ ran' = NotRun /\ privilege' = privilege
      \/ OnlyInterpreted(e.r, by)
      \/ RunCommand(e.r, by)
  BY DEF ExecuteBuildmode
<1>2. Building(r.buildmode) /\ Sound(r.commands, r.mode, privilege, r.buildmode)
  BY DEF ExecuteBuildmode, StageGood
<1>3. RunBy(by)
  BY DEF RunBy, NotRun
<1>4. PICK k \in Nat \ {0} : StageGood(e.r, k, k, FALSE)
  BY <1>2, ExecutedGood
<1> HIDE DEF e, by
<1>5. CASE Interpreted(r) /\ ran' = NotRun /\ privilege' = privilege
  <2>1. CommandsSound'
    BY <1>2, <1>5, InterpretedSound
  <2>2. OutputFiltered'
    BY <1>5, NothingRun DEF NotRun
  <2> QED
    BY <2>1, <2>2 DEF ShellInv
<1>6. CASE OnlyInterpreted(e.r, by)
  BY <1>3, <1>4, <1>6, OnlyInterpretedKeeps
<1>7. CASE RunCommand(e.r, by)
  BY <1>3, <1>4, <1>7, RunCommandKeeps
<1> QED
  BY <1>1, <1>5, <1>6, <1>7

\* After a crash the commands are what they were.
LEMMA CrashKeeps ==
  ASSUME ShellInv, Crash
  PROVE  ShellInv'
<1>1. Sound(commands', mode', privilege', buildmode')
  BY DEF ShellInv, CommandsSound, Crash
<1>2. OutputFiltered'
  BY DEF ShellInv, OutputFiltered, Crash
<1> QED
  BY <1>1, <1>2 DEF ShellInv, CommandsSound

\* ^Z closes a buildmode and leaves the mode.
LEMMA LeaveKeeps ==
  ASSUME ShellInv, LeaveMode
  PROVE  ShellInv'
<1> DEFINE list == IF Building(buildmode) THEN FreeBuildmode(commands) ELSE commands
<1>1. /\ commands' = cli_build_shortest(list, MODE_EXEC, privilege)
      /\ mode' = MODE_EXEC /\ buildmode' = NoBuildmode /\ ran' = NotRun
      /\ privilege' = privilege
  BY DEF LeaveMode
<1>2. Alike(commands, buildmode.mode) /\ Right(commands, mode, privilege)
  BY DEF ShellInv, CommandsSound, Sound
<1>3. Alike(list, 0) /\ Len(list) = N
  <2>1. CASE Building(buildmode)
    BY <1>2, <2>1, FreeSound
  <2>2. CASE ~Building(buildmode)
    <3>1. Len(commands) = N
      BY <2>2 DEF ShellInv, CommandsSound, Sound
    <3>2. N + 1 .. N = {}
      BY RegisteredIs
    <3> QED
      BY <1>2, <2>2, <3>1, <3>2 DEF Alike
  <2> QED
    BY <2>1, <2>2
<1> HIDE DEF list
<1>4. /\ Alike(commands', 0) /\ Right(commands', MODE_EXEC, privilege)
      /\ SameCommands(commands', list)
  BY <1>1, <1>3, BuildIs
<1>5. Sound(commands', MODE_EXEC, privilege, NoBuildmode)
  <2>1. Len(commands') = N
    BY <1>3, <1>4 DEF SameCommands
  <2> QED
    BY <1>4, <2>1, NothingSet DEF Sound
<1>6. Sound(commands', mode', privilege', buildmode')
  BY <1>1, <1>5
<1>7. OutputFiltered'
  BY <1>1, NothingRun DEF NotRun
<1> QED
  BY <1>6, <1>7 DEF ShellInv, CommandsSound

\* In a buildmode, completion sets what the words before the last one set.
LEMMA OfferFound ==
  ASSUME ShellInv, NEW line \in Beginnings, NEW key, Building(buildmode),
         Offer(line, key).command # 0
  PROVE  IsSequence(Offer(line, key).found) /\ Valued(Offer(line, key).found)
<1> DEFINE optargsOf == [i \in DOMAIN commands |->
                           OptargsOf([commands |-> commands, buildmode |-> buildmode],
                                     commands[i])]
           at == [mode |-> mode, privilege |-> privilege, found |-> buildmode.found,
                  opener |-> commands[buildmode.command].optargs]
           n == Len(Stages(line))
           type == StageType([buildmode |-> buildmode], n)
           words == LastStage(line)
           offer == cli_get_completions(commands, at, type, words, optargsOf, key)
           w == Descend(commands, at, type, words, key)
           ctx == [privilege |-> at.privilege, mode |-> at.mode,
                   transient |-> at.mode, allow_buildmode |-> FALSE,
                   next |-> NoWord]
           p == CompleteOptargs(optargsOf[w.command], words, w.word, at.found, ctx, key)
<1>1. Offer(line, key) = IF n > 1 THEN Nowhere(<<>>) ELSE offer
  BY DEF Offer
<1>2. Spelt(words) /\ Len(words) \in Nat \ {0}
  BY LastStageIs
<1>3. IsSequence(at.found) /\ Valued(at.found) /\ Alike(commands, buildmode.mode)
  BY DEF ShellInv, CommandsSound, Sound
<1>4. Context(ctx, TRUE) /\ ctx.allow_buildmode = FALSE
  BY SeqEmpty DEF Context, NoWord
<1>5. offer = IF w.command = 0 THEN Nowhere(w.entries)
              ELSE [entries |-> p.entries, command |-> w.command, found |-> p.found,
                    lost |-> p.lost]
  BY DEF cli_get_completions
<1>6. \A entries : Nowhere(entries).found = <<>> /\ Nowhere(entries).command = 0
  BY DEF Nowhere
<1> HIDE DEF optargsOf, at, type, words, ctx, n
<1>7. w.command # 0 => w.word \in Nat \ {0}
  BY <1>2, <1>3, Descends
<1> HIDE DEF w
<1>8. w.command # 0 => IsSequence(p.found) /\ Valued(p.found)
  BY <1>2, <1>3, <1>4, <1>7, CompletedFound
<1> HIDE DEF p
<1>9. offer.command # 0 => IsSequence(offer.found) /\ Valued(offer.found)
  BY <1>5, <1>6, <1>8
<1> HIDE DEF offer
<1> QED
  BY <1>1, <1>6, <1>9

\* TAB or '?' is pressed.
LEMMA CompleteKeeps ==
  ASSUME ShellInv, NEW line \in Beginnings, NEW key, Complete(line, key)
  PROVE  ShellInv'
<1> DEFINE offer == Offer(line, key)
<1>1. /\ buildmode' = IF Building(buildmode) /\ offer.command # 0
                      THEN [buildmode EXCEPT !.found = offer.found] ELSE buildmode
      /\ ran' = NotRun /\ commands' = commands /\ privilege' = privilege /\ mode' = mode
  BY DEF Complete
<1>2. Sound(commands, mode, privilege, buildmode)
  BY DEF ShellInv, CommandsSound
<1>3. Building(buildmode) /\ offer.command # 0 =>
        IsSequence(offer.found) /\ Valued(offer.found)
  BY OfferFound
<1> HIDE DEF offer
<1>4. Sound(commands', mode', privilege', buildmode')
  BY <1>1, <1>2, <1>3, FoundSound
<1>5. OutputFiltered'
  BY <1>1, NothingRun DEF NotRun
<1> QED
  BY <1>4, <1>5 DEF ShellInv, CommandsSound

\* No step of a session breaks the invariant.
LEMMA ShellStep == ShellInv /\ [Next]_vars => ShellInv'
<1> SUFFICES ASSUME ShellInv, [Next]_vars PROVE ShellInv'
  OBVIOUS
<1>1. ASSUME NEW line \in Lines, cli_run_command(line) PROVE ShellInv'
  <2> DEFINE r == Interpret(commands, mode, buildmode, line, TRUE)
             n == Len(Stages(line))
  <2>1. \/ OnlyInterpreted(r, NotRun)
        \/ RunCommand(r, NotRun)
        \/ RunBuildCommand(r)
        \/ ExecuteBuildmode(r)
        \/ FailToEnter(r)
    BY <1>1 DEF cli_run_command
  <2>2. StageGood(r, n, n, TRUE) /\ n \in Nat \ {0}
    BY LineGood
  <2> HIDE DEF r, n
  <2>3. RunBy(NotRun)
    BY DEF RunBy, NotRun
  <2>4. CASE OnlyInterpreted(r, NotRun)
    BY <2>2, <2>3, <2>4, OnlyInterpretedKeeps
  <2>5. CASE RunCommand(r, NotRun)
    BY <2>2, <2>3, <2>5, RunCommandKeeps
  <2>6. CASE RunBuildCommand(r)
    BY <2>2, <2>6, RunBuildCommandKeeps
  <2>7. CASE ExecuteBuildmode(r)
    BY <2>2, <2>7, ExecuteKeeps
  <2>8. CASE FailToEnter(r)
    BY <2>8, CrashKeeps DEF FailToEnter
  <2> QED
    BY <2>1, <2>4, <2>5, <2>6, <2>7, <2>8
<1>2. ASSUME NEW line \in Beginnings, NEW key \in {"tab", "help"},
             Complete(line, key) \/ LoseWord(line, key)
      PROVE  ShellInv'
  <2>1. CASE Complete(line, key)
    BY <2>1, CompleteKeeps
  <2>2. CASE LoseWord(line, key)
    BY <2>2, CrashKeeps DEF LoseWord
  <2> QED
    BY <1>2, <2>1, <2>2
<1>3. CASE LeaveMode
  BY <1>3, LeaveKeeps
<1>4. CASE UNCHANGED vars
  <2>1. Sound(commands', mode', privilege', buildmode')
    BY <1>4 DEF ShellInv, CommandsSound, vars
  <2>2. OutputFiltered'
    BY <1>4 DEF ShellInv, OutputFiltered, vars
  <2> QED
    BY <2>1, <2>2 DEF ShellInv, CommandsSound
<1> QED
  BY <1>1, <1>2, <1>3, <1>4 DEF Next

\* The invariant holds in every session.
THEOREM ShellInvariant == Spec => []ShellInv
<1>1. Init => ShellInv
  BY ShellInit
<1>2. ShellInv /\ [Next]_vars => ShellInv'
  BY ShellStep
<1> QED
  BY <1>1, <1>2, PTL DEF Spec

\* In a sound session the buildmode is contained.
LEMMA SoundContained == CommandsSound => BuildmodeContained
<1> SUFFICES ASSUME CommandsSound PROVE BuildmodeContained
  OBVIOUS
<1>1. Alike(commands, buildmode.mode) /\ Sound(commands, mode, privilege, buildmode)
  BY DEF CommandsSound, Sound
<1>2. DOMAIN Registered = 1 .. N /\ N \in Nat
  BY RegisteredIs
<1>3. DOMAIN commands = 1 .. Len(commands) /\ Len(commands) \in Nat /\ N <= Len(commands)
  BY <1>1, AlikeIs DEF Alike
<1>4. \A i \in 1 .. N : /\ commands[i].name = Registered[i].name
                        /\ commands[i].type = Registered[i].type
  BY <1>1, AsIs DEF Alike
<1>5. \A i \in DOMAIN commands \ DOMAIN Registered : commands[i].type = "buildmode"
  <2>1. \A i \in DOMAIN commands \ DOMAIN Registered : i \in N + 1 .. Len(commands)
    BY <1>2, <1>3
  <2> QED
    BY <1>1, <2>1 DEF Alike, Added
<1>6. ~Building(buildmode) => DOMAIN commands = DOMAIN Registered
  BY <1>1, <1>2, <1>3 DEF Sound
<1>7. Building(buildmode) =>
        /\ mode = buildmode.mode
        /\ \E i \in DOMAIN commands : commands[i].act = "execute"
  <2>1. \A i \in N + 1 .. Len(commands) : i \in DOMAIN commands
    BY <1>2, <1>3
  <2> QED
    BY <1>1, <2>1 DEF Sound
<1> QED
  BY <1>2, <1>4, <1>5, <1>6, <1>7 DEF BuildmodeContained

-----------------------------------------------------------------------------

\* An abbreviation that is accepted names one command or filter, in any mode
\* and with any privilege, whatever lines led there; for the commands of a
\* buildmode none is built (cli_build_shortest, cli_set_privilege,
\* cli_set_configmode, cli_int_locate_command).
THEOREM AbbreviationsAreOwn == Spec => []AbbreviationNamesOne
<1>1. ShellInv => AbbreviationNamesOne
  BY RightNamesOne DEF ShellInv, CommandsSound, Sound
<1> QED
  BY <1>1, ShellInvariant, PTL

\* The commands of a buildmode come after those of the application and go
\* when it is cancelled, executed or left, and those stay as they were
\* registered (cli_int_enter_buildmode, cli_int_free_buildmode).
THEOREM BuildmodeLeavesNoTrace == Spec => []BuildmodeContained
<1>1. ShellInv => BuildmodeContained
  BY SoundContained DEF ShellInv
<1> QED
  BY <1>1, ShellInvariant, PTL

\* What a line gives out is what its pipeline means, whatever filters ran for
\* the lines before it, as long as the filters that match are named in full
\* (cli_int_execute_pipeline, _print, cli_match_filter_init).
THEOREM OutputAsMeant == Spec => []OutputFiltered
<1>1. ShellInv => OutputFiltered
  BY DEF ShellInv
<1> QED
  BY <1>1, ShellInvariant, PTL
=============================================================================
