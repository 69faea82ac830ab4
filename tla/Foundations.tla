---------------------------- MODULE Foundations ----------------------------
(***************************************************************************)
(* Facts about numbers, recursive functions and sequences that the proofs  *)
(* of several modules rest on.  They are stated for sets and functions, so *)
(* that any proof can use them for the predicate or the recursion it has.  *)
(***************************************************************************)
EXTENDS Integers, SequencesExt, FiniteSetsExt, FiniteSetTheorems, SequenceTheorems, TLAPS

-----------------------------------------------------------------------------
(* Numbers.                                                                *)

\* The least-number principle: no descending chain of intervals is endless.
LEMMA LeastNatural ==
  ASSUME NEW S \in SUBSET Nat, S # {}
  PROVE  \E n \in S : \A m \in S : n <= m
<1> DEFINE T == {0..n : n \in S}
           R == StrictSubsetOrdering(Nat)
           F == FiniteSubsetsOf(Nat)
<1>1. IsWellFoundedOn(R, F)
  BY FS_StrictSubsetOrderingWellFounded
<1>2. T \subseteq F
  <2>1. ASSUME NEW n \in S PROVE 0..n \subseteq Nat /\ IsFiniteSet(0..n)
    BY FS_Interval
  <2> QED
    BY <2>1 DEF FiniteSubsetsOf
<1>3. T # {}
  OBVIOUS
<1>4. PICK x \in T : \A y \in T : ~(<<y, x>> \in R)
  <2> HIDE DEF T, R, F
  <2> QED
    BY <1>1, <1>2, <1>3, WFMin
<1>5. PICK n \in S : x = 0..n
  OBVIOUS
<1>6. ASSUME NEW m \in S PROVE n <= m
  <2>1. ~(<<0..m, 0..n>> \in R)
    BY <1>4, <1>5
  <2>2. SUFFICES ASSUME m < n PROVE FALSE
    OBVIOUS
  <2>3. 0..m \subseteq 0..n /\ n \in 0..n /\ n \notin 0..m
    BY <2>2
  <2>4. <<0..m, 0..n>> \in R
    BY <2>3 DEF StrictSubsetOrdering
  <2> QED
    BY <2>1, <2>4
<1> QED
  BY <1>6

\* Induction, for the set of the numbers of which something holds.
LEMMA Induction ==
  ASSUME NEW S, 0 \in S, \A n \in Nat : n \in S => n + 1 \in S
  PROVE  Nat \subseteq S
<1>1. SUFFICES ASSUME Nat \ S # {} PROVE FALSE
  OBVIOUS
<1>2. PICK n \in Nat \ S : \A m \in Nat \ S : n <= m
  BY <1>1, LeastNatural
<1>3. n - 1 \in Nat /\ n - 1 \in S
  BY <1>2
<1> QED
  BY <1>2, <1>3

\* Induction where what holds of all smaller numbers may be used.
LEMMA StrongInduction ==
  ASSUME NEW S, \A n \in Nat : (\A m \in 0..(n - 1) : m \in S) => n \in S
  PROVE  Nat \subseteq S
<1>1. SUFFICES ASSUME Nat \ S # {} PROVE FALSE
  OBVIOUS
<1>2. PICK n \in Nat \ S : \A m \in Nat \ S : n <= m
  BY <1>1, LeastNatural
<1>3. \A m \in 0..(n - 1) : m \in S
  BY <1>2
<1> QED
  BY <1>2, <1>3

\* The first of some positions.
LEMMA MinOfNaturals ==
  ASSUME NEW S \in SUBSET Nat, S # {}
  PROVE  Min(S) \in S /\ \A m \in S : Min(S) <= m
<1>1. \E n \in S : \A m \in S : n <= m
  BY LeastNatural
<1> QED
  BY <1>1 DEF Min

\* The last of some positions.
LEMMA MaxOfPositions ==
  ASSUME NEW n \in Nat, NEW S \in SUBSET (0..n), S # {}
  PROVE  Max(S) \in S /\ \A m \in S : m <= Max(S)
<1> DEFINE T == {n - m : m \in S}
<1>1. PICK k \in T : \A m \in T : k <= m
  <2>1. \A m \in S : n - m \in Nat
    OBVIOUS
  <2>2. T \subseteq Nat /\ T # {}
    BY <2>1
  <2> HIDE DEF T
  <2> QED
    BY <2>2, LeastNatural
<1>2. n - k \in S /\ \A m \in S : n - k >= m
  BY <1>1
<1> QED
  BY <1>2 DEF Max

\* As many positions as the last one says.
LEMMA PositionCount ==
  ASSUME NEW n \in Nat
  PROVE  IsFiniteSet(1..n) /\ Cardinality(1..n) = n
<1>1. /\ IsFiniteSet(1..n)
      /\ Cardinality(1..n) = IF 1 > n THEN 0 ELSE n - 1 + 1
  BY FS_Interval
<1> QED
  BY <1>1

-----------------------------------------------------------------------------
(* Recursive functions.                                                    *)

\* What a recursion makes of x depends on the values at smaller ranks only.
Descends(D, X, G, rank, bound) ==
  /\ X # {}
  /\ G \in [D \X [D -> X] -> X]
  /\ bound \in Nat
  /\ rank \in [D -> Nat] /\ \A x \in D : rank[x] < bound
  /\ \A x \in D : \A g, h \in [D -> X] :
       (\A y \in D : rank[y] < rank[x] => g[y] = h[y]) => G[<<x, g>>] = G[<<x, h>>]

\* A recursion that descends by a rank defines a function.
LEMMA RecursiveFunction ==
  ASSUME NEW D, NEW X, NEW G, NEW rank, NEW bound, Descends(D, X, G, rank, bound)
  PROVE  \E f \in [D -> X] : \A x \in D : f[x] = G[<<x, f>>]
<1>a. /\ G \in [D \X [D -> X] -> X]
      /\ bound \in Nat
      /\ rank \in [D -> Nat]
      /\ \A x \in D : rank[x] < bound
      /\ \A x \in D : \A g, h \in [D -> X] :
           (\A y \in D : rank[y] < rank[x] => g[y] = h[y]) => G[<<x, g>>] = G[<<x, h>>]
  BY DEF Descends
<1>b. PICK default \in X : TRUE
  BY DEF Descends
<1> DEFINE Defined(n) ==
             \E f \in [D -> X] : \A x \in D : rank[x] < n => f[x] = G[<<x, f>>]
           S == {n \in Nat : Defined(n)}
<1>1. 0 \in S
  <2>1. [x \in D |-> default] \in [D -> X]
    OBVIOUS
  <2>2. \A x \in D : ~(rank[x] < 0)
    BY <1>a
  <2> QED
    BY <2>1, <2>2
<1>2. ASSUME NEW n \in Nat, n \in S PROVE n + 1 \in S
  <2>1. PICK f \in [D -> X] : \A x \in D : rank[x] < n => f[x] = G[<<x, f>>]
    BY <1>2
  <2> DEFINE g == [x \in D |-> IF rank[x] = n THEN G[<<x, f>>] ELSE f[x]]
  <2>2. g \in [D -> X]
    BY <1>a
  <2>3. ASSUME NEW x \in D, rank[x] < n + 1 PROVE g[x] = G[<<x, g>>]
    <3>1. \A y \in D : rank[y] < rank[x] => g[y] = f[y]
      BY <1>a, <2>3
    <3>2. G[<<x, g>>] = G[<<x, f>>]
      <4> HIDE DEF g
      <4> QED
        BY <1>a, <2>2, <3>1
    <3>3. rank[x] < n \/ rank[x] = n
      <4>1. rank[x] \in Nat
        BY <1>a
      <4> QED
        BY <2>3, <4>1
    <3>4. g[x] = G[<<x, f>>]
      BY <2>1, <3>3
    <3> QED
      BY <3>2, <3>4
  <2>4. Defined(n + 1)
    <3> HIDE DEF g
    <3> QED
      BY <2>2, <2>3
  <2> QED
    BY <2>4
<1>3. bound \in S
  <2> HIDE DEF S
  <2> QED
    BY <1>a, <1>1, <1>2, Induction
<1> QED
  BY <1>a, <1>3

-----------------------------------------------------------------------------
(* Sequences.                                                              *)

\* Concatenation under a name, so that the provers see nothing else of it.
Join(a, b) == a \o b

LEMMA JoinType ==
  ASSUME NEW S, NEW s \in Seq(S), NEW t \in Seq(S)
  PROVE  Join(s, t) \in Seq(S)
BY ConcatProperties DEF Join

LEMMA JoinAssociative ==
  ASSUME NEW S, NEW s \in Seq(S), NEW t \in Seq(S), NEW u \in Seq(S)
  PROVE  Join(Join(s, t), u) = Join(s, Join(t, u))
BY ConcatAssociative DEF Join

\* The recursion of FlattenSeq.
Flattens(ss, f) ==
  f = [i \in 1 .. Len(ss) |-> IF i = 1 THEN ss[i] ELSE f[i - 1] \o ss[i]]

LEMMA FlattensExists ==
  ASSUME NEW E, NEW ss \in Seq(Seq(E))
  PROVE  \E f : Flattens(ss, f)
<1> DEFINE D == 1 .. Len(ss)
           X == Seq(E)
           G == [p \in D \X [D -> X] |-> IF p[1] = 1 THEN ss[p[1]] ELSE p[2][p[1] - 1] \o ss[p[1]]]
           rank == [i \in D |-> i]
<1>1. Len(ss) \in Nat /\ \A i \in D : ss[i] \in X
  OBVIOUS
<1>2. G \in [D \X [D -> X] -> X]
  <2>1. ASSUME NEW i \in D, NEW g \in [D -> X]
        PROVE  (IF i = 1 THEN ss[i] ELSE g[i - 1] \o ss[i]) \in Seq(E)
    <3>1. CASE i = 1
      BY <1>1, <3>1
    <3>2. CASE i # 1
      <4> DEFINE a == g[i - 1]
                 b == ss[i]
      <4>1. a \in Seq(E) /\ b \in Seq(E)
        <5>1. i - 1 \in D
          BY <1>1, <3>2
        <5> QED
          BY <1>1, <5>1
      <4> HIDE DEF a, b
      <4>2. a \o b \in Seq(E)
        BY <4>1, ConcatProperties
      <4> QED
        BY <3>2, <4>2 DEF a, b
    <3> QED
      BY <3>1, <3>2
  <2> QED
    BY <2>1
<1>3. \A i \in D : \A g, h \in [D -> X] :
        (\A j \in D : rank[j] < rank[i] => g[j] = h[j]) => G[<<i, g>>] = G[<<i, h>>]
  <2> SUFFICES ASSUME NEW i \in D, NEW g \in [D -> X], NEW h \in [D -> X],
                      \A j \in D : rank[j] < rank[i] => g[j] = h[j]
               PROVE  G[<<i, g>>] = G[<<i, h>>]
    OBVIOUS
  <2>1. i # 1 => g[i - 1] = h[i - 1]
    BY <1>1
  <2> QED
    BY <2>1
<1>4. <<>> \in X /\ rank \in [D -> Nat] /\ \A i \in D : rank[i] < Len(ss) + 1
  BY <1>1
<1>5. \E f \in [D -> X] : \A i \in D : f[i] = G[<<i, f>>]
  <2> HIDE DEF D, X, G, rank
  <2>1. Len(ss) + 1 \in Nat /\ X # {}
    BY <1>1, <1>4
  <2>2. Descends(D, X, G, rank, Len(ss) + 1)
    BY <1>2, <1>3, <1>4, <2>1 DEF Descends
  <2> QED
    BY <2>2, RecursiveFunction
<1>6. PICK f \in [D -> X] : \A i \in D : f[i] = G[<<i, f>>]
  BY <1>5
<1>7. \A i \in D : f[i] = IF i = 1 THEN ss[i] ELSE f[i - 1] \o ss[i]
  BY <1>6
<1> QED
  BY <1>7 DEF Flattens

\* FlattenSeq appends its sequences one after the other.
LEMMA FlattenedParts ==
  ASSUME NEW E, NEW ss \in Seq(Seq(E))
  PROVE  \E f : /\ DOMAIN f = 1..Len(ss)
                /\ \A i \in 1..Len(ss) :
                     /\ f[i] \in Seq(E)
                     /\ f[i] = IF i = 1 THEN ss[i] ELSE Join(f[i - 1], ss[i])
                /\ FlattenSeq(ss) = IF Len(ss) = 0 THEN <<>> ELSE f[Len(ss)]
<1> DEFINE f == CHOOSE g : Flattens(ss, g)
<1>1. Flattens(ss, f)
  BY FlattensExists
<1>2. FlattenSeq(ss) = IF Len(ss) = 0 THEN <<>> ELSE f[Len(ss)]
  BY DEF FlattenSeq, Flattens
<1> HIDE DEF f
<1>3. \A i \in 1..Len(ss) : f[i] = IF i = 1 THEN ss[i] ELSE Join(f[i - 1], ss[i])
  BY <1>1 DEF Flattens, Join
<1>4. Len(ss) \in Nat /\ \A i \in 1..Len(ss) : ss[i] \in Seq(E)
  OBVIOUS
<1> DEFINE M == {m \in Nat : m + 1 \in 1..Len(ss) => f[m + 1] \in Seq(E)}
<1>5. 0 \in M
  BY <1>3, <1>4
<1>6. ASSUME NEW m \in Nat, m \in M PROVE m + 1 \in M
  <2> SUFFICES ASSUME (m + 1) + 1 \in 1..Len(ss) PROVE f[(m + 1) + 1] \in Seq(E)
    OBVIOUS
  <2> DEFINE k == (m + 1) + 1
  <2>1. k \in 1..Len(ss) /\ k # 1 /\ k - 1 = m + 1 /\ m + 1 \in 1..Len(ss)
    BY <1>4
  <2>2. f[k - 1] \in Seq(E)
    BY <1>6, <2>1
  <2> HIDE DEF k, M
  <2>3. f[k] = Join(f[k - 1], ss[k]) /\ ss[k] \in Seq(E)
    BY <1>3, <1>4, <2>1
  <2>4. Join(f[k - 1], ss[k]) \in Seq(E)
    BY <2>2, <2>3, JoinType, Zenon
  <2>5. f[k] \in Seq(E)
    BY <2>3, <2>4
  <2> QED
    BY <2>5 DEF k
<1>7. Nat \subseteq M
  <2> HIDE DEF M
  <2> QED
    BY <1>5, <1>6, Induction
<1>8. \A i \in 1..Len(ss) : f[i] \in Seq(E)
  <2> TAKE i \in 1..Len(ss)
  <2>1. i - 1 \in Nat /\ (i - 1) + 1 = i
    BY <1>4
  <2>2. i - 1 \in M
    <3> HIDE DEF M
    <3> QED
      BY <1>7, <2>1
  <2> QED
    BY <2>1, <2>2
<1>9. DOMAIN f = 1..Len(ss)
  BY <1>1 DEF Flattens
<1> QED
  BY <1>2, <1>3, <1>8, <1>9

LEMMA FlattenAppend ==
  ASSUME NEW E, NEW ss \in Seq(Seq(E)), NEW t \in Seq(E)
  PROVE  /\ FlattenSeq(ss) \in Seq(E)
         /\ FlattenSeq(Append(ss, t)) = Join(FlattenSeq(ss), t)
<1> DEFINE tt == Append(ss, t)
           n == Len(ss)
<1>1. n \in Nat /\ tt \in Seq(Seq(E)) /\ Len(tt) = n + 1 /\ tt[n + 1] = t
      /\ \A i \in 1..n : tt[i] = ss[i]
  BY AppendProperties
<1> HIDE DEF tt
<1>2. PICK f : /\ DOMAIN f = 1..n
               /\ \A i \in 1..n : /\ f[i] \in Seq(E)
                                  /\ f[i] = IF i = 1 THEN ss[i] ELSE Join(f[i - 1], ss[i])
               /\ FlattenSeq(ss) = IF n = 0 THEN <<>> ELSE f[n]
  BY FlattenedParts
<1>3. PICK g : /\ DOMAIN g = 1..Len(tt)
               /\ \A i \in 1..Len(tt) :
                    /\ g[i] \in Seq(E)
                    /\ g[i] = IF i = 1 THEN tt[i] ELSE Join(g[i - 1], tt[i])
               /\ FlattenSeq(tt) = IF Len(tt) = 0 THEN <<>> ELSE g[Len(tt)]
  BY <1>1, FlattenedParts
<1> HIDE DEF n
<1> DEFINE M == {m \in Nat : m + 1 \in 1..n => g[m + 1] = f[m + 1]}
<1>4. 0 \in M
  <2> SUFFICES ASSUME 1 \in 1..n PROVE g[1] = f[1]
    OBVIOUS
  <2>1. 1 \in 1..Len(tt)
    BY <1>1
  <2>2. g[1] = tt[1] /\ f[1] = ss[1] /\ tt[1] = ss[1]
    BY <1>1, <1>2, <1>3, <2>1
  <2> QED
    BY <2>2
<1>5. ASSUME NEW m \in Nat, m \in M PROVE m + 1 \in M
  <2> SUFFICES ASSUME (m + 1) + 1 \in 1..n PROVE g[(m + 1) + 1] = f[(m + 1) + 1]
    OBVIOUS
  <2>1. PICK k : k = (m + 1) + 1 /\ k \in 1..n /\ k \in 1..Len(tt) /\ k # 1 /\ k - 1 = m + 1
                 /\ m + 1 \in 1..n
    BY <1>1
  <2>2. g[k - 1] = f[k - 1]
    BY <1>5, <2>1
  <2> HIDE DEF M
  <2> QED
    BY <1>1, <1>2, <1>3, <2>1, <2>2
<1>6. Nat \subseteq M
  <2> HIDE DEF M
  <2> QED
    BY <1>4, <1>5, Induction
<1>7. n # 0 => g[n] = f[n]
  <2> SUFFICES ASSUME n # 0 PROVE g[n] = f[n]
    OBVIOUS
  <2>1. n - 1 \in M /\ (n - 1) + 1 = n /\ n \in 1..n
    BY <1>1, <1>6
  <2> QED
    BY <2>1
<1>8. FlattenSeq(ss) \in Seq(E)
  BY <1>1, <1>2
<1>9. CASE n = 0
  <2>1. FlattenSeq(tt) = t
    BY <1>1, <1>3, <1>9
  <2>2. <<>> \o t = t
    BY ConcatEmptySeq
  <2> QED
    BY <1>2, <1>8, <1>9, <2>1, <2>2 DEF Join, tt
<1>10. CASE n # 0
  <2>1. Len(tt) # 0 /\ Len(tt) # 1 /\ Len(tt) - 1 = n /\ Len(tt) \in 1..Len(tt)
    BY <1>1, <1>10
  <2>2. FlattenSeq(tt) = Join(g[n], t)
    BY <1>1, <1>3, <2>1
  <2> QED
    BY <1>2, <1>7, <1>8, <1>10, <2>2 DEF tt
<1> QED
  BY <1>9, <1>10
=============================================================================
