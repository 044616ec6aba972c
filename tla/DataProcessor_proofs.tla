------------------------- MODULE DataProcessor_proofs -------------------------
(***************************************************************************)
(* What DataProcessor answers and stores, for every batch, set of required *)
(* fields and mixture of deliveries.  The pipeline is made of functions    *)
(* that are recursive in the length of a prefix; the lemmas about them go  *)
(* by induction, which is had here as a fact about sets of numbers.        *)
(***************************************************************************)
EXTENDS DataProcessor, FiniteSetTheorems, WellFoundedInduction, Integers, TLAPS

LEMMA NatSetInduction ==
  ASSUME NEW S, 0 \in S, \A n \in Nat : n \in S => n + 1 \in S
  PROVE  Nat \subseteq S
<1> DEFINE R == OpToRel(<, Nat)
           T == Nat \ S
<1> SUFFICES ASSUME T # {} PROVE FALSE
  OBVIOUS
<1>1. IsWellFoundedOn(R, Nat)
  BY NatLessThanWellFounded
<1>2. \A x, y \in Nat : y < x => <<y, x>> \in R
  BY DEF OpToRel
<1> HIDE DEF R
<1>3. PICK x \in T : \A y \in T : ~ (<<y, x>> \in R)
  BY <1>1, WFMin
<1>4. x \in Nat \ {0}
  BY <1>3
<1>5. x - 1 \in Nat /\ x - 1 < x /\ (x - 1) + 1 = x
  BY <1>4
<1>6. x - 1 \in T
  BY <1>3, <1>5
<1> QED
  BY <1>2, <1>3, <1>4, <1>5, <1>6

\* The same up to a bound.
LEMMA RangeInduction ==
  ASSUME NEW N \in Nat, NEW S, 0 \in S, \A n \in 1..N : n - 1 \in S => n \in S
  PROVE  0..N \subseteq S
<1> DEFINE T == {n \in Nat : n <= N => n \in S}
<1>1. 0 \in T
  OBVIOUS
<1>2. ASSUME NEW n \in Nat, n \in T PROVE n + 1 \in T
  BY <1>2
<1> HIDE DEF T
<1>3. Nat \subseteq T
  BY <1>1, <1>2, NatSetInduction
<1> QED
  BY <1>3 DEF T

\* A definition by recursion on 0..N, with the step G, has the solution f.
Recursion(f, N, V, base, G) ==
  f \in [0..N -> V] /\ f[0] = base /\ \A n \in 1..N : f[n] = G[n][f[n - 1]]

LEMMA PrefixRecursion ==
  ASSUME NEW N \in Nat, NEW V, NEW base \in V, NEW G \in [1..N -> [V -> V]]
  PROVE  \E f : Recursion(f, N, V, base, G)
<1> DEFINE Solves(f, m) == Recursion(f, m, V, base, G)
<1> DEFINE S == {m \in 0..N : \E f : Solves(f, m)}
<1> USE DEF Recursion
<1>1. 0 \in S
  <2> DEFINE g == [n \in 0..0 |-> base]
  <2>1. g \in [0..0 -> V] /\ g[0] = base /\ 1..0 = {}
    OBVIOUS
  <2> HIDE DEF g
  <2> QED
    BY <2>1
<1>2. ASSUME NEW m \in 1..N, m - 1 \in S PROVE m \in S
  <2>1. PICK f : Solves(f, m - 1)
    BY <1>2
  <2> DEFINE g == [n \in 0..m |-> IF n = m THEN G[m][f[m - 1]] ELSE f[n]]
  <2>2. f[m - 1] \in V
    BY <2>1
  <2>3. g \in [0..m -> V] /\ g[0] = base
    BY <2>1, <2>2
  <2>4. ASSUME NEW n \in 1..m PROVE g[n] = G[n][g[n - 1]]
    <3>1. n - 1 \in 0..m /\ n - 1 # m /\ g[n - 1] = f[n - 1]
      OBVIOUS
    <3>2. CASE n = m
      BY <3>1, <3>2
    <3>3. CASE n # m
      <4>1. n \in 1..(m - 1) /\ g[n] = f[n]
        BY <3>3
      <4> QED
        BY <2>1, <3>1, <4>1
    <3> QED
      BY <3>2, <3>3
  <2> HIDE DEF g
  <2>5. Solves(g, m)
    BY <2>3, <2>4
  <2> QED
    BY <2>5
<1> HIDE DEF S
<1>3. 0..N \subseteq S
  BY <1>1, <1>2, RangeInduction
<1>4. N \in S
  BY <1>3
<1> QED
  BY <1>4 DEF S

\* K is what Picked makes of the prefixes of s.
Collects(K, T, s, I) ==
  /\ K \in [0..Len(s) -> Seq(T)]
  /\ K[0] = <<>>
  /\ \A n \in 1..Len(s) : K[n] = IF n \in I THEN Append(K[n - 1], s[n]) ELSE K[n - 1]
  /\ Picked(s, I) = K[Len(s)]

LEMMA PickedPrefixes ==
  ASSUME NEW T, NEW s \in Seq(T), NEW I
  PROVE  \E K : Collects(K, T, s, I)
<1> DEFINE N == Len(s)
           V == Seq(T)
           G == [n \in 1..N |-> [v \in V |-> IF n \in I THEN Append(v, s[n]) ELSE v]]
           Def(f) == f = [n \in 0..N |->
                            IF n = 0 THEN <<>>
                            ELSE IF n \in I THEN Append(f[n - 1], s[n]) ELSE f[n - 1]]
<1>1. N \in Nat /\ <<>> \in V /\ G \in [1..N -> [V -> V]]
  OBVIOUS
<1> HIDE DEF G, V, N
<1>2. PICK f : Recursion(f, N, V, <<>>, G)
  BY <1>1, PrefixRecursion
<1> USE DEF V, N
<1>3. ASSUME NEW n \in 1..N
      PROVE  f[n] = IF n \in I THEN Append(f[n - 1], s[n]) ELSE f[n - 1]
  <2>1. f[n - 1] \in V /\ f[n] = G[n][f[n - 1]]
    BY <1>2 DEF Recursion
  <2>2. G[n][f[n - 1]] = IF n \in I THEN Append(f[n - 1], s[n]) ELSE f[n - 1]
    BY <2>1 DEF G
  <2> QED
    BY <2>1, <2>2
<1>4. Def(f)
  <2>1. f = [n \in 0..N |-> f[n]] /\ f[0] = <<>>
    BY <1>2 DEF Recursion
  <2>2. \A n \in 0..N : f[n] = IF n = 0 THEN <<>>
                               ELSE IF n \in I THEN Append(f[n - 1], s[n]) ELSE f[n - 1]
    BY <1>3, <2>1
  <2> QED
    BY <2>1, <2>2, Zenon
<1> DEFINE K == CHOOSE g : Def(g)
<1>5. Def(K)
  BY <1>4
<1>6. Picked(s, I) = K[N]
  BY DEF Picked
<1> HIDE DEF K
<1>7. /\ K[0] = <<>>
      /\ \A n \in 1..N : K[n] = IF n \in I THEN Append(K[n - 1], s[n]) ELSE K[n - 1]
  <2>1. \A n \in 0..N : K[n] = IF n = 0 THEN <<>>
                               ELSE IF n \in I THEN Append(K[n - 1], s[n]) ELSE K[n - 1]
    BY <1>5, Zenon
  <2>2. 0 \in 0..N /\ \A n \in 1..N : n \in 0..N /\ n # 0
    BY <1>1
  <2> QED
    BY <2>1, <2>2, Zenon
<1>8. K \in [0..N -> V]
  <2> DEFINE S == {n \in 0..N : K[n] \in V}
  <2>0. \A n \in 1..N, v \in V : Append(v, s[n]) \in V
    OBVIOUS
  <2> HIDE DEF V, N
  <2>1. 0 \in S
    BY <1>1, <1>7
  <2>2. ASSUME NEW n \in 1..N, n - 1 \in S PROVE n \in S
    <3>1. K[n - 1] \in V /\ n \in 0..N
      BY <1>1, <2>2
    <3>2. K[n] \in V
      BY <1>7, <2>0, <3>1
    <3> QED
      BY <3>1, <3>2
  <2>3. 0..N \subseteq S
    <3> HIDE DEF S
    <3> QED
      BY <1>1, <2>1, <2>2, RangeInduction
  <2>4. \A n \in 0..N : K[n] \in V
    BY <2>3
  <2> QED
    BY <1>5, <2>4
<1> QED
  BY <1>6, <1>7, <1>8 DEF Collects

\* How many positions of I there are up to n.
Rank(I, n) == Cardinality({k \in I : k <= n})

LEMMA RankSteps ==
  ASSUME NEW N \in Nat, NEW I, \A i \in I : i \in 1..N
  PROVE  /\ IsFiniteSet(I) /\ Cardinality(I) \in Nat
         /\ \A n \in 0..N : Rank(I, n) \in Nat
         /\ Rank(I, 0) = 0
         /\ \A n \in 1..N : Rank(I, n) = IF n \in I THEN Rank(I, n - 1) + 1
                                                   ELSE Rank(I, n - 1)
         /\ Rank(I, N) = Cardinality(I)
         /\ \A i, k \in I : k < i => Rank(I, k) < Rank(I, i)
<1> DEFINE Upto(n) == {k \in I : k <= n}
<1>0. \A i \in I : i \in 1..N
  OBVIOUS
<1>1. IsFiniteSet(I)
  <2>1. IsFiniteSet(1..N)
    BY FS_Interval
  <2> QED
    BY <2>1, FS_Subset
<1>2. \A n \in 0..N : IsFiniteSet(Upto(n))
  BY <1>1, FS_Subset
<1>3. \A n \in 0..N : Rank(I, n) \in Nat
  BY <1>2, FS_CardinalityType DEF Rank
<1>4. Rank(I, 0) = 0
  <2>1. Upto(0) = {}
    BY <1>0
  <2> QED
    BY <2>1, FS_EmptySet DEF Rank
<1>5. ASSUME NEW n \in 1..N
      PROVE  Rank(I, n) = IF n \in I THEN Rank(I, n - 1) + 1 ELSE Rank(I, n - 1)
  <2>1. CASE n \in I
    <3>1. Upto(n) = Upto(n - 1) \cup {n} /\ n \notin Upto(n - 1)
      <4>1. \A k \in I : k <= n <=> k <= n - 1 \/ k = n
        BY <1>0
      <4>2. ~ (n <= n - 1)
        OBVIOUS
      <4> QED
        BY <2>1, <4>1, <4>2, Zenon
    <3>2. IsFiniteSet(Upto(n - 1))
      <4>1. n - 1 \in 0..N
        OBVIOUS
      <4> HIDE DEF Upto
      <4> QED
        BY <1>2, <4>1
    <3>3. Cardinality(Upto(n - 1) \cup {n}) = Cardinality(Upto(n - 1)) + 1
      BY <3>1, <3>2, FS_AddElement
    <3> QED
      BY <2>1, <3>1, <3>3 DEF Rank
  <2>2. CASE n \notin I
    <3>1. Upto(n) = Upto(n - 1)
      BY <1>0, <2>2
    <3> QED
      BY <2>2, <3>1 DEF Rank
  <2> QED
    BY <2>1, <2>2
<1>6. Rank(I, N) = Cardinality(I)
  <2>1. Upto(N) = I
    BY <1>0
  <2> QED
    BY <2>1 DEF Rank
<1>7. ASSUME NEW i \in I, NEW k \in I, k < i PROVE Rank(I, k) < Rank(I, i)
  <2>1. i \notin Upto(k) /\ Upto(k) \cup {i} \subseteq Upto(i)
    BY <1>0, <1>7
  <2>2. IsFiniteSet(Upto(k)) /\ IsFiniteSet(Upto(i))
    BY <1>2
  <2>3. Cardinality(Upto(k) \cup {i}) = Cardinality(Upto(k)) + 1
    BY <2>1, <2>2, FS_AddElement
  <2>4. Cardinality(Upto(k) \cup {i}) <= Cardinality(Upto(i))
    BY <2>1, <2>2, FS_Subset
  <2>5. Rank(I, k) \in Nat /\ Rank(I, i) \in Nat
    BY <1>3
  <2> QED
    BY <2>3, <2>4, <2>5 DEF Rank
<1> QED
  BY <1>1, <1>3, <1>4, <1>5, <1>6, <1>7, FS_CardinalityType

\* What is picked is what stood at the positions, in order, and nothing else.
Picks(t, T, s, I) ==
  /\ t \in Seq(T)
  /\ Len(t) = Cardinality(I)
  /\ \A i \in I : Rank(I, i) \in 1..Len(t) /\ t[Rank(I, i)] = s[i]
  /\ \A m \in 1..Len(t) : \E i \in I : m = Rank(I, i)

LEMMA PickedPicks ==
  ASSUME NEW T, NEW s \in Seq(T), NEW I, \A i \in I : i \in 1..Len(s)
  PROVE  Picks(Picked(s, I), T, s, I)
<1> DEFINE N == Len(s)
<1>0. N \in Nat /\ \A n \in 1..N : s[n] \in T /\ n - 1 \in 0..N /\ n \in 0..N
  OBVIOUS
<1>1. PICK K : Collects(K, T, s, I)
  BY PickedPrefixes
<1>2. /\ \A n \in 0..N : K[n] \in Seq(T)
      /\ K[0] = <<>>
      /\ \A n \in 1..N : K[n] = IF n \in I THEN Append(K[n - 1], s[n]) ELSE K[n - 1]
      /\ Picked(s, I) = K[N]
  BY <1>1 DEF Collects
<1>3. /\ \A n \in 0..N : Rank(I, n) \in Nat
      /\ Rank(I, 0) = 0
      /\ \A n \in 1..N : Rank(I, n) = IF n \in I THEN Rank(I, n - 1) + 1
                                                ELSE Rank(I, n - 1)
      /\ Rank(I, N) = Cardinality(I)
  BY <1>0, RankSteps
<1>4. \A i \in I : i \in 1..N
  OBVIOUS
<1> DEFINE Holds(n) ==
      /\ Len(K[n]) = Rank(I, n)
      /\ \A i \in I : i <= n => Rank(I, i) \in 1..Rank(I, n) /\ K[n][Rank(I, i)] = s[i]
      /\ \A m \in 1..Rank(I, n) : \E i \in I : i <= n /\ m = Rank(I, i)
    S == {n \in 0..N : Holds(n)}
<1> HIDE DEF N
<1>5. 0 \in S
  BY <1>0, <1>2, <1>3, <1>4
<1>6. ASSUME NEW n \in 1..N, n - 1 \in S PROVE n \in S
  <2>1. Holds(n - 1) /\ n - 1 \in 0..N /\ n \in 0..N
    BY <1>0, <1>6
  <2>2. CASE n \notin I
    <3>1. K[n] = K[n - 1] /\ Rank(I, n) = Rank(I, n - 1)
      BY <1>2, <1>3, <2>2
    <3>2. \A i \in I : i <= n => i <= n - 1
      BY <1>0, <1>4, <2>2
    <3>3. \A i \in I : i <= n - 1 => i <= n
      BY <1>0, <1>4
    <3> QED
      BY <2>1, <3>1, <3>2, <3>3
  <2>3. CASE n \in I
    <3> DEFINE q == Rank(I, n - 1)
    <3>1. q \in Nat /\ Rank(I, n) = q + 1 /\ K[n] = Append(K[n - 1], s[n])
      BY <1>0, <1>2, <1>3, <2>3
    <3>2. K[n - 1] \in Seq(T) /\ s[n] \in T /\ Len(K[n - 1]) = q
      BY <1>0, <1>2, <2>1
    <3>3. Len(K[n]) = q + 1 /\ K[n][q + 1] = s[n] /\ \A m \in 1..q : K[n][m] = K[n - 1][m]
      BY <3>1, <3>2
    <3>4. ASSUME NEW i \in I, i <= n
          PROVE  Rank(I, i) \in 1..(q + 1) /\ K[n][Rank(I, i)] = s[i]
      <4>1. CASE i = n
        BY <3>1, <3>3, <4>1
      <4>2. CASE i # n
        <5>1. i <= n - 1
          BY <1>0, <1>4, <3>4, <4>2
        <5>2. Rank(I, i) \in 1..q /\ K[n - 1][Rank(I, i)] = s[i]
          BY <2>1, <5>1
        <5> QED
          BY <3>1, <3>3, <5>2
      <4> QED
        BY <4>1, <4>2
    <3>5. ASSUME NEW m \in 1..(q + 1) PROVE \E i \in I : i <= n /\ m = Rank(I, i)
      <4>1. CASE m = q + 1
        BY <2>3, <3>1, <4>1
      <4>2. CASE m # q + 1
        <5>1. m \in 1..q
          BY <3>1, <4>2
        <5>2. PICK i \in I : i <= n - 1 /\ m = Rank(I, i)
          BY <2>1, <5>1
        <5>3. i <= n
          BY <1>0, <1>4, <5>2
        <5> QED
          BY <5>2, <5>3
      <4> QED
        BY <4>1, <4>2
    <3> HIDE DEF q
    <3> QED
      BY <2>1, <3>1, <3>3, <3>4, <3>5
  <2> QED
    BY <2>2, <2>3
<1>7. 0..N \subseteq S
  <2> HIDE DEF S
  <2> QED
    BY <1>0, <1>5, <1>6, RangeInduction
<1>8. Holds(N) /\ N \in 0..N
  BY <1>0, <1>7
<1>9. \A i \in I : i <= N
  BY <1>0, <1>4
<1> QED
  BY <1>2, <1>3, <1>8, <1>9 DEF Picks

\* Picking from what was picked.
LEMMA PickedTwice ==
  ASSUME NEW T, NEW s \in Seq(T), NEW I, \A i \in I : i \in 1..Len(s), NEW C
  PROVE  Picked(Picked(s, I), C) = Picked(s, {i \in I : Rank(I, i) \in C})
<1> DEFINE N == Len(s)
           t == Picked(s, I)
           J == {i \in I : Rank(I, i) \in C}
<1>0. N \in Nat /\ \A n \in 1..N : n - 1 \in 0..N /\ n \in 0..N
  OBVIOUS
<1>1. Picks(t, T, s, I)
  BY PickedPicks
<1>2. /\ t \in Seq(T) /\ Len(t) = Cardinality(I)
      /\ \A i \in I : Rank(I, i) \in 1..Len(t) /\ t[Rank(I, i)] = s[i]
  BY <1>1 DEF Picks
<1>3. /\ \A n \in 0..N : Rank(I, n) \in Nat
      /\ Rank(I, 0) = 0
      /\ \A n \in 1..N : Rank(I, n) = IF n \in I THEN Rank(I, n - 1) + 1
                                                ELSE Rank(I, n - 1)
      /\ Rank(I, N) = Len(t)
  BY <1>0, <1>2, RankSteps
<1> HIDE DEF t
<1>4. PICK L : Collects(L, T, s, J)
  BY PickedPrefixes
<1>5. PICK M : Collects(M, T, t, C)
  BY <1>2, PickedPrefixes
<1>6. /\ L[0] = <<>> /\ M[0] = <<>>
      /\ \A n \in 1..N : L[n] = IF n \in J THEN Append(L[n - 1], s[n]) ELSE L[n - 1]
      /\ \A m \in 1..Len(t) : M[m] = IF m \in C THEN Append(M[m - 1], t[m]) ELSE M[m - 1]
      /\ Picked(s, J) = L[N] /\ Picked(t, C) = M[Len(t)]
  BY <1>4, <1>5 DEF Collects
<1> DEFINE S == {n \in 0..N : M[Rank(I, n)] = L[n]}
<1> HIDE DEF N
<1>7. 0 \in S
  BY <1>0, <1>3, <1>6
<1>8. ASSUME NEW n \in 1..N, n - 1 \in S PROVE n \in S
  <2>1. M[Rank(I, n - 1)] = L[n - 1] /\ n \in 0..N /\ Rank(I, n - 1) \in Nat
    BY <1>0, <1>3, <1>8
  <2>2. CASE n \notin I
    <3>1. Rank(I, n) = Rank(I, n - 1) /\ L[n] = L[n - 1]
      BY <1>3, <1>6, <2>2
    <3> QED
      BY <2>1, <3>1
  <2>3. CASE n \in I
    <3> DEFINE q == Rank(I, n)
    <3>1. q \in 1..Len(t) /\ t[q] = s[n] /\ q = Rank(I, n - 1) + 1
      BY <1>2, <1>3, <2>3
    <3>2. q - 1 = Rank(I, n - 1)
      BY <2>1, <3>1
    <3>3. M[q] = IF q \in C THEN Append(L[n - 1], s[n]) ELSE L[n - 1]
      BY <1>6, <2>1, <3>1, <3>2
    <3>4. q \in C <=> n \in J
      BY <2>3
    <3>5. M[q] = L[n]
      BY <1>6, <3>3, <3>4
    <3> QED
      BY <2>1, <3>5
  <2> QED
    BY <2>2, <2>3
<1>9. 0..N \subseteq S
  <2> HIDE DEF S
  <2> QED
    BY <1>0, <1>7, <1>8, RangeInduction
<1>10. M[Rank(I, N)] = L[N]
  BY <1>0, <1>9
<1> QED
  BY <1>3, <1>6, <1>10 DEF t

\* U is what Deduplicate makes of the prefixes of s.
Dedups(U, T, s) ==
  /\ U \in [0..Len(s) -> Seq(T)]
  /\ U[0] = <<>>
  /\ \A n \in 1..Len(s) : U[n] = IF Contains(U[n - 1], s[n]) THEN U[n - 1]
                                                             ELSE Append(U[n - 1], s[n])
  /\ Deduplicate(s) = U[Len(s)]

LEMMA DeduplicatePrefixes ==
  ASSUME NEW T, NEW s \in Seq(T)
  PROVE  \E U : Dedups(U, T, s)
<1> DEFINE N == Len(s)
           V == Seq(T)
           G == [n \in 1..N |-> [v \in V |-> IF Contains(v, s[n]) THEN v ELSE Append(v, s[n])]]
           Def(f) == f = [n \in 0..N |->
                            IF n = 0 THEN <<>>
                            ELSE IF Contains(f[n - 1], s[n]) THEN f[n - 1]
                            ELSE Append(f[n - 1], s[n])]
<1>0. \A n \in 1..N, v \in V : Append(v, s[n]) \in V
  OBVIOUS
<1>1. N \in Nat /\ <<>> \in V /\ G \in [1..N -> [V -> V]]
  BY <1>0
<1> HIDE DEF G, V, N
<1>2. PICK f : Recursion(f, N, V, <<>>, G)
  BY <1>1, PrefixRecursion
<1>3. ASSUME NEW n \in 1..N
      PROVE  f[n] = IF Contains(f[n - 1], s[n]) THEN f[n - 1] ELSE Append(f[n - 1], s[n])
  <2>1. f[n - 1] \in V /\ f[n] = G[n][f[n - 1]]
    BY <1>1, <1>2 DEF Recursion
  <2> QED
    BY <2>1 DEF G
<1>4. Def(f)
  <2>1. f = [n \in 0..N |-> f[n]] /\ f[0] = <<>>
    BY <1>2 DEF Recursion
  <2>2. \A n \in 0..N : f[n] = IF n = 0 THEN <<>>
                               ELSE IF Contains(f[n - 1], s[n]) THEN f[n - 1]
                               ELSE Append(f[n - 1], s[n])
    <3>1. \A n \in 0..N : n = 0 \/ n \in 1..N
      BY <1>1
    <3>2. \A n \in 1..N : n # 0
      BY <1>1
    <3> QED
      BY <1>3, <2>1, <3>1, <3>2, Zenon
  <2> QED
    BY <2>1, <2>2, Zenon
<1> DEFINE U == CHOOSE g : Def(g)
<1>5. Def(U)
  BY <1>4
<1>6. Deduplicate(s) = U[N]
  BY DEF Deduplicate, N
<1> HIDE DEF U
<1>7. /\ U[0] = <<>>
      /\ \A n \in 1..N : U[n] = IF Contains(U[n - 1], s[n]) THEN U[n - 1]
                                                           ELSE Append(U[n - 1], s[n])
  <2>1. \A n \in 0..N : U[n] = IF n = 0 THEN <<>>
                               ELSE IF Contains(U[n - 1], s[n]) THEN U[n - 1]
                               ELSE Append(U[n - 1], s[n])
    BY <1>5, Zenon
  <2>2. 0 \in 0..N /\ \A n \in 1..N : n \in 0..N /\ n # 0
    BY <1>1
  <2> QED
    BY <2>1, <2>2, Zenon
<1>8. U \in [0..N -> V]
  <2> DEFINE S == {n \in 0..N : U[n] \in V}
  <2>1. 0 \in S
    BY <1>1, <1>7
  <2>2. ASSUME NEW n \in 1..N, n - 1 \in S PROVE n \in S
    <3>1. U[n - 1] \in V /\ n \in 0..N
      BY <1>1, <2>2
    <3>2. U[n] \in V
      BY <1>0, <1>7, <3>1
    <3> QED
      BY <3>1, <3>2
  <2>3. 0..N \subseteq S
    <3> HIDE DEF S
    <3> QED
      BY <1>1, <2>1, <2>2, RangeInduction
  <2>4. \A n \in 0..N : U[n] \in V
    BY <2>3
  <2> QED
    BY <1>5, <2>4
<1> QED
  BY <1>6, <1>7, <1>8 DEF Dedups, N, V

\* The positions of the first of each kind.
FirstsOf(s) == {i \in DOMAIN s : \A k \in 1..(i - 1) : s[k] # s[i]}

LEMMA DeduplicatePicks ==
  ASSUME NEW T, NEW s \in Seq(T)
  PROVE  /\ Deduplicate(s) = Picked(s, FirstsOf(s))
         /\ \A x : Contains(Deduplicate(s), x) <=> Contains(s, x)
<1> DEFINE N == Len(s)
           I == FirstsOf(s)
<1>0. N \in Nat /\ \A n \in 1..N : s[n] \in T /\ n - 1 \in 0..N /\ n \in 0..N
  OBVIOUS
<1>1. PICK U : Dedups(U, T, s)
  BY DeduplicatePrefixes
<1>2. PICK K : Collects(K, T, s, I)
  BY PickedPrefixes
<1>3. /\ \A n \in 0..N : K[n] \in Seq(T)
      /\ U[0] = <<>> /\ K[0] = <<>>
      /\ \A n \in 1..N : U[n] = IF Contains(U[n - 1], s[n]) THEN U[n - 1]
                                                           ELSE Append(U[n - 1], s[n])
      /\ \A n \in 1..N : K[n] = IF n \in I THEN Append(K[n - 1], s[n]) ELSE K[n - 1]
      /\ Deduplicate(s) = U[N] /\ Picked(s, I) = K[N]
  BY <1>1, <1>2 DEF Dedups, Collects
<1>4. \A n \in 1..N : n \in I <=> \A k \in 1..(n - 1) : s[k] # s[n]
  BY DEF FirstsOf
<1> HIDE DEF N, I
<1> DEFINE Holds(n) == /\ U[n] = K[n]
                       /\ \A x : Contains(K[n], x) <=> \E k \in 1..n : s[k] = x
           S == {n \in 0..N : Holds(n)}
<1>5. 0 \in S
  <2>1. \A x : ~ Contains(<<>>, x)
    BY DEF Contains
  <2>2. 1..0 = {}
    OBVIOUS
  <2> QED
    BY <1>0, <1>3, <2>1, <2>2
<1>6. ASSUME NEW n \in 1..N, n - 1 \in S PROVE n \in S
  <2>1. Holds(n - 1) /\ n \in 0..N /\ n - 1 \in 0..N
    BY <1>0, <1>6
  <2>2. Contains(U[n - 1], s[n]) <=> n \notin I
    BY <1>4, <2>1
  <2>3. U[n] = K[n]
    BY <1>3, <2>1, <2>2
  <2>4. ASSUME NEW x PROVE Contains(K[n], x) <=> Contains(K[n - 1], x) \/ s[n] = x
    <3>1. CASE n \in I
      <4>1. K[n] = Append(K[n - 1], s[n]) /\ K[n - 1] \in Seq(T)
        BY <1>3, <2>1, <3>1
      <4> DEFINE v == K[n - 1]
                 w == K[n]
      <4>2. /\ Len(v) \in Nat /\ Len(w) = Len(v) + 1 /\ w[Len(v) + 1] = s[n]
            /\ \A m \in 1..Len(v) : w[m] = v[m]
        BY <1>0, <4>1
      <4> HIDE DEF v, w
      <4>3. \A m : m \in 1..Len(w) <=> m \in 1..Len(v) \/ m = Len(v) + 1
        BY <4>2
      <4>4. Contains(w, x) <=> Contains(v, x) \/ s[n] = x
        BY <4>2, <4>3, Zenon DEF Contains
      <4> QED
        BY <4>4 DEF v, w
    <3>2. CASE n \notin I
      <4>1. K[n] = K[n - 1] /\ Contains(K[n - 1], s[n])
        BY <1>3, <2>1, <2>2, <3>2
      <4> QED
        BY <4>1
    <3> QED
      BY <3>1, <3>2
  <2>5. ASSUME NEW x
        PROVE  (\E k \in 1..n : s[k] = x) <=> (\E k \in 1..(n - 1) : s[k] = x) \/ s[n] = x
    BY <1>0
  <2> QED
    BY <2>1, <2>3, <2>4, <2>5
<1>7. 0..N \subseteq S
  <2> HIDE DEF S
  <2> QED
    BY <1>0, <1>5, <1>6, RangeInduction
<1>8. Holds(N)
  BY <1>0, <1>7
<1>9. \A x : Contains(s, x) <=> \E k \in 1..N : s[k] = x
  BY DEF Contains, N
<1>10. \A x : Contains(Deduplicate(s), x) <=> Contains(s, x)
  BY <1>3, <1>8, <1>9
<1> QED
  BY <1>3, <1>8, <1>10 DEF I

LEMMA PickedSet ==
  ASSUME NEW T, NEW s \in Seq(T), NEW I, \A i \in I : i \in 1..Len(s)
  PROVE  \A x : Contains(Picked(s, I), x) <=> \E i \in I : s[i] = x
<1> DEFINE t == Picked(s, I)
<1>1. Picks(t, T, s, I)
  BY PickedPicks
<1> HIDE DEF t
<1>2. /\ \A i \in I : Rank(I, i) \in 1..Len(t) /\ t[Rank(I, i)] = s[i]
      /\ \A m \in 1..Len(t) : \E i \in I : m = Rank(I, i)
  BY <1>1 DEF Picks
<1>3. \A x : Contains(t, x) <=> \E i \in I : s[i] = x
  BY <1>2, Zenon DEF Contains
<1> QED
  BY <1>3 DEF t

-------------------------------------------------------------------------------
(* The pipeline: every list it makes is picked from the cleaned batch.     *)

LEMMA CleanType ==
  ASSUME NEW raw \in Seq(Record)
  PROVE  CleanAll(raw) \in Seq(Record) /\ Len(CleanAll(raw)) = Len(raw)
<1>1. ASSUME NEW v \in Value PROVE CleanString(v) \in Value
  BY DEF Value, CleanString, Strip, Unescape, RemoveTags
<1>2. ASSUME NEW r \in Record PROVE CleanRecord(r) \in Record
  <2>1. PICK keys \in SUBSET Field : r \in [keys -> Value]
    BY DEF Record
  <2>2. CleanRecord(r) \in [keys -> Value]
    BY <1>1, <2>1 DEF CleanRecord
  <2> QED
    BY <2>2 DEF Record
<1> QED
  BY <1>2 DEF CleanAll

Usable(all) == {i \in DOMAIN all : ~Discarded(all[i]) /\ Complete(all[i])}

Unusable(all) == {i \in DOMAIN all : ~Discarded(all[i]) /\ ~Complete(all[i])}

FirstUsable(all) ==
  {i \in DOMAIN all : /\ ~Discarded(all[i]) /\ Complete(all[i])
                      /\ \A k \in 1..(i - 1) : all[k] # all[i]}

LEMMA PipelinePicks ==
  ASSUME NEW raw \in Seq(Record)
  PROVE  LET all == CleanAll(raw) IN
         /\ Valid(Clean(raw)) = Picked(all, Usable(all))
         /\ RejectedRecords(raw) = Picked(all, Unusable(all))
<1> DEFINE all == CleanAll(raw)
           A == {i \in DOMAIN all : ~Discarded(all[i])}
           t == Clean(raw)
<1>1. all \in Seq(Record)
  BY CleanType
<1> HIDE DEF all
<1>2. DOMAIN all = 1..Len(all) /\ Len(all) \in Nat
  BY <1>1
<1>3. \A i \in A : i \in 1..Len(all)
  BY <1>2
<1>4. t = Picked(all, A)
  BY DEF Clean, all
<1>5. Picks(t, Record, all, A)
  BY <1>1, <1>3, <1>4, PickedPicks
<1> HIDE DEF A, t
<1>6. /\ t \in Seq(Record)
      /\ DOMAIN t = 1..Len(t)
      /\ \A i \in A : Rank(A, i) \in DOMAIN t /\ t[Rank(A, i)] = all[i]
  BY <1>5 DEF Picks
<1>7. Valid(t) = Picked(all, Usable(all))
  <2> DEFINE C == {m \in DOMAIN t : Complete(t[m])}
  <2>1. {i \in A : Rank(A, i) \in C} = Usable(all)
    BY <1>6 DEF Usable, A
  <2> HIDE DEF C
  <2>2. Picked(t, C) = Picked(all, {i \in A : Rank(A, i) \in C})
    BY <1>1, <1>3, <1>4, PickedTwice
  <2> QED
    BY <2>1, <2>2 DEF Valid, C
<1>8. Invalid(t) = Picked(all, Unusable(all))
  <2> DEFINE C == {m \in DOMAIN t : ~Complete(t[m])}
  <2>1. {i \in A : Rank(A, i) \in C} = Unusable(all)
    BY <1>6 DEF Unusable, A
  <2> HIDE DEF C
  <2>2. Picked(t, C) = Picked(all, {i \in A : Rank(A, i) \in C})
    BY <1>1, <1>3, <1>4, PickedTwice
  <2> QED
    BY <2>1, <2>2 DEF Invalid, C
<1> QED
  BY <1>7, <1>8 DEF RejectedRecords, all, t

\* The clean records are those that stand at the first usable positions.
LEMMA OutputPicks ==
  ASSUME NEW raw \in Seq(Record)
  PROVE  LET all == CleanAll(raw) IN
         /\ Picks(CleanRecords(raw), Record, all, FirstUsable(all))
         /\ \A x : Contains(CleanRecords(raw), x) <=> \E i \in Usable(all) : all[i] = x
         /\ \A x : Contains(RejectedRecords(raw), x) <=> \E i \in Unusable(all) : all[i] = x
<1> DEFINE all == CleanAll(raw)
           B == Usable(all)
           t == Valid(Clean(raw))
           F == FirstUsable(all)
<1>1. all \in Seq(Record)
  BY CleanType
<1>2. t = Picked(all, B) /\ RejectedRecords(raw) = Picked(all, Unusable(all))
  BY PipelinePicks
<1> HIDE DEF all
<1>3. DOMAIN all = 1..Len(all) /\ Len(all) \in Nat
  BY <1>1
<1>4. \A i \in DOMAIN all : i \in B <=> ~Discarded(all[i]) /\ Complete(all[i])
  BY DEF Usable
<1>5. /\ \A i \in B : i \in 1..Len(all)
      /\ \A i \in F : i \in 1..Len(all)
      /\ \A i \in Unusable(all) : i \in 1..Len(all)
  BY <1>3 DEF Usable, Unusable, FirstUsable
<1>6. Picks(t, Record, all, B)
  BY <1>1, <1>2, <1>5, PickedPicks
<1> HIDE DEF B, t
<1>7. /\ t \in Seq(Record)
      /\ DOMAIN t = 1..Len(t) /\ Len(t) \in Nat
      /\ \A i \in B : Rank(B, i) \in 1..Len(t) /\ t[Rank(B, i)] = all[i]
      /\ \A m \in 1..Len(t) : \E i \in B : m = Rank(B, i)
  BY <1>6 DEF Picks
<1>8. \A i, k \in B : k < i => Rank(B, k) < Rank(B, i)
  BY <1>3, <1>5, RankSteps
<1>9. ASSUME NEW i \in B
      PROVE  Rank(B, i) \in FirstsOf(t) <=> i \in F
  <2>1. /\ i \in 1..Len(all) /\ Rank(B, i) \in 1..Len(t) /\ t[Rank(B, i)] = all[i]
        /\ ~Discarded(all[i]) /\ Complete(all[i])
    BY <1>3, <1>4, <1>5, <1>7
  <2>2. i \in F <=> \A k \in 1..(i - 1) : all[k] # all[i]
    BY <1>3, <2>1 DEF FirstUsable
  <2>3. Rank(B, i) \in FirstsOf(t) <=> \A m \in 1..(Rank(B, i) - 1) : t[m] # all[i]
    BY <1>7, <2>1 DEF FirstsOf
  <2>4. ASSUME NEW k \in 1..(i - 1), all[k] = all[i]
        PROVE  \E m \in 1..(Rank(B, i) - 1) : t[m] = all[i]
    <3>1. k \in DOMAIN all /\ k < i
      BY <1>3, <2>1
    <3>2. k \in B
      BY <1>4, <2>1, <2>4, <3>1
    <3>3. Rank(B, k) \in 1..Len(t) /\ t[Rank(B, k)] = all[i] /\ Rank(B, k) < Rank(B, i)
      BY <1>7, <1>8, <2>4, <3>1, <3>2
    <3>4. Rank(B, k) \in 1..(Rank(B, i) - 1)
      BY <1>7, <2>1, <3>3
    <3> QED
      BY <3>3, <3>4
  <2>5. ASSUME NEW m \in 1..(Rank(B, i) - 1), t[m] = all[i]
        PROVE  \E k \in 1..(i - 1) : all[k] = all[i]
    <3>1. m \in 1..Len(t) /\ m < Rank(B, i)
      BY <1>7, <2>1
    <3>2. PICK k \in B : m = Rank(B, k)
      BY <1>7, <3>1
    <3>3. k \in 1..Len(all) /\ all[k] = all[i]
      BY <1>5, <1>7, <2>5, <3>2
    <3>4. ~ (i < k) /\ k # i
      BY <1>8, <2>1, <3>1, <3>2
    <3>5. k \in 1..(i - 1)
      BY <1>3, <2>1, <3>3, <3>4
    <3> QED
      BY <3>3, <3>5
  <2> QED
    BY <2>2, <2>3, <2>4, <2>5
<1>10. {i \in B : Rank(B, i) \in FirstsOf(t)} = F
  <2>1. \A i \in F : i \in B
    BY DEF FirstUsable, Usable, B
  <2> HIDE DEF F
  <2> QED
    BY <1>9, <2>1
<1>11. CleanRecords(raw) = Picked(all, F)
  <2>1. Deduplicate(t) = Picked(t, FirstsOf(t))
    BY <1>7, DeduplicatePicks
  <2>2. Picked(t, FirstsOf(t)) = Picked(all, {i \in B : Rank(B, i) \in FirstsOf(t)})
    BY <1>1, <1>2, <1>5, PickedTwice
  <2> QED
    BY <1>10, <2>1, <2>2 DEF CleanRecords, t
<1>12. Picks(CleanRecords(raw), Record, all, F)
  BY <1>1, <1>5, <1>11, PickedPicks
<1>13. \A x : Contains(CleanRecords(raw), x) <=> \E i \in B : all[i] = x
  <2>1. \A x : Contains(Deduplicate(t), x) <=> Contains(t, x)
    BY <1>7, DeduplicatePicks
  <2>2. \A x : Contains(t, x) <=> \E i \in B : all[i] = x
    BY <1>1, <1>2, <1>5, PickedSet
  <2> QED
    BY <2>1, <2>2 DEF CleanRecords, t
<1>14. \A x : Contains(RejectedRecords(raw), x) <=> \E i \in Unusable(all) : all[i] = x
  BY <1>1, <1>2, <1>5, PickedSet
<1> QED
  BY <1>12, <1>13, <1>14 DEF all, B

-------------------------------------------------------------------------------
(* Sums, and the grade.                                                    *)

\* S is the sum of the prefixes of s.
Sums(S, s) ==
  /\ S \in [0..Len(s) -> Nat]
  /\ S[0] = 0
  /\ \A n \in 1..Len(s) : S[n] = S[n - 1] + s[n]
  /\ Total(s) = S[Len(s)]

LEMMA TotalPrefixes ==
  ASSUME NEW s \in Seq(Nat)
  PROVE  \E S : Sums(S, s)
<1> DEFINE N == Len(s)
           G == [n \in 1..N |-> [v \in Nat |-> v + s[n]]]
           Def(f) == f = [n \in 0..N |-> IF n = 0 THEN 0 ELSE f[n - 1] + s[n]]
<1>0. N \in Nat /\ \A n \in 1..N : s[n] \in Nat /\ n - 1 \in 0..N /\ n \in 0..N /\ n # 0
  OBVIOUS
<1>1. 0 \in Nat /\ G \in [1..N -> [Nat -> Nat]]
  BY <1>0
<1> HIDE DEF G, N
<1>2. PICK f : Recursion(f, N, Nat, 0, G)
  BY <1>0, <1>1, PrefixRecursion
<1>3. ASSUME NEW n \in 1..N PROVE f[n] = f[n - 1] + s[n]
  <2>1. f[n - 1] \in Nat /\ f[n] = G[n][f[n - 1]]
    BY <1>0, <1>2 DEF Recursion
  <2> QED
    BY <2>1 DEF G
<1>4. Def(f)
  <2>1. f = [n \in 0..N |-> f[n]] /\ f[0] = 0
    BY <1>2 DEF Recursion
  <2>2. \A n \in 0..N : n = 0 \/ n \in 1..N
    BY <1>0
  <2>3. \A n \in 0..N : f[n] = IF n = 0 THEN 0 ELSE f[n - 1] + s[n]
    BY <1>0, <1>3, <2>1, <2>2, Zenon
  <2> QED
    BY <2>1, <2>3, Zenon
<1> DEFINE S == CHOOSE g : Def(g)
<1>5. Def(S)
  BY <1>4
<1>6. Total(s) = S[N]
  BY DEF Total, N
<1> HIDE DEF S
<1>7. S[0] = 0 /\ \A n \in 1..N : S[n] = S[n - 1] + s[n]
  <2>1. \A n \in 0..N : S[n] = IF n = 0 THEN 0 ELSE S[n - 1] + s[n]
    BY <1>5, Zenon
  <2>2. 0 \in 0..N
    BY <1>0
  <2> QED
    BY <1>0, <2>1, <2>2, Zenon
<1>8. S \in [0..N -> Nat]
  <2> DEFINE Q == {n \in 0..N : S[n] \in Nat}
  <2>1. 0 \in Q
    BY <1>0, <1>7
  <2>2. ASSUME NEW n \in 1..N, n - 1 \in Q PROVE n \in Q
    BY <1>0, <1>7, <2>2
  <2>3. 0..N \subseteq Q
    <3> HIDE DEF Q
    <3> QED
      BY <1>0, <2>1, <2>2, RangeInduction
  <2>4. \A n \in 0..N : S[n] \in Nat
    BY <2>3
  <2> QED
    BY <1>5, <2>4
<1> QED
  BY <1>6, <1>7, <1>8 DEF Sums, N

\* A sum of numbers that are at least one, each bounded by the one beside it.
LEMMA TotalBounds ==
  ASSUME NEW s \in Seq(Nat), NEW t \in Seq(Nat), Len(s) = Len(t),
         \A n \in 1..Len(s) : s[n] <= t[n] /\ 1 <= t[n]
  PROVE  Total(s) \in Nat /\ Total(t) \in Nat /\ Total(s) <= Total(t) /\ Len(t) <= Total(t)
<1> DEFINE N == Len(s)
<1>0. N \in Nat /\ \A n \in 1..N : /\ s[n] \in Nat /\ t[n] \in Nat
                                   /\ n - 1 \in 0..N /\ n \in 0..N
  OBVIOUS
<1>1. PICK S : Sums(S, s)
  BY TotalPrefixes
<1>2. PICK Z : Sums(Z, t)
  BY TotalPrefixes
<1>3. /\ \A n \in 0..N : S[n] \in Nat /\ Z[n] \in Nat
      /\ S[0] = 0 /\ Z[0] = 0
      /\ \A n \in 1..N : S[n] = S[n - 1] + s[n] /\ Z[n] = Z[n - 1] + t[n]
      /\ Total(s) = S[N] /\ Total(t) = Z[N]
  BY <1>1, <1>2 DEF Sums
<1>4. \A n \in 1..N : s[n] <= t[n] /\ 1 <= t[n]
  OBVIOUS
<1>5. N = Len(t)
  OBVIOUS
<1> HIDE DEF N
<1> DEFINE Q == {n \in 0..N : S[n] <= Z[n] /\ n <= Z[n]}
<1>6. 0 \in Q
  BY <1>0, <1>3
<1>7. ASSUME NEW n \in 1..N, n - 1 \in Q PROVE n \in Q
  <2>1. /\ n \in 0..N /\ n \in Nat /\ s[n] \in Nat /\ t[n] \in Nat
        /\ S[n - 1] \in Nat /\ Z[n - 1] \in Nat
        /\ S[n] = S[n - 1] + s[n] /\ Z[n] = Z[n - 1] + t[n]
    BY <1>0, <1>3
  <2>2. S[n - 1] <= Z[n - 1] /\ n - 1 <= Z[n - 1]
    BY <1>7
  <2>3. s[n] <= t[n] /\ 1 <= t[n]
    BY <1>4
  <2>4. S[n] <= Z[n] /\ n <= Z[n]
    BY <2>1, <2>2, <2>3
  <2> QED
    BY <2>1, <2>4
<1>8. 0..N \subseteq Q
  <2> HIDE DEF Q
  <2> QED
    BY <1>0, <1>6, <1>7, RangeInduction
<1>9. S[N] <= Z[N] /\ N <= Z[N] /\ N \in 0..N
  BY <1>0, <1>8
<1> QED
  BY <1>3, <1>5, <1>9

\* The scores of records that are complete and have a key each.
LEMMA ScoreBounds ==
  ASSUME NEW records \in Seq(Record),
         \A n \in 1..Len(records) : Complete(records[n]) /\ ~Discarded(records[n])
  PROVE  /\ Completeness(records) = <<Len(records), Len(records)>>
         /\ \E v, w \in Nat : /\ Validity(records) = <<v, w>>
                              /\ v <= w /\ Len(records) <= w
<1> DEFINE N == Len(records)
           I == {i \in DOMAIN records : Complete(records[i])}
<1>1. I = 1..N /\ N \in Nat
  OBVIOUS
<1>2. Len(Picked(records, I)) = N
  <2> HIDE DEF I, N
  <2>1. \A i \in I : i \in 1..Len(records)
    BY <1>1 DEF N
  <2>2. Picks(Picked(records, I), Record, records, I)
    BY <2>1, PickedPicks
  <2>3. Cardinality(1..N) = N
    BY <1>1, FS_Interval
  <2> QED
    BY <1>1, <2>2, <2>3 DEF Picks
<1>3. Completeness(records) = <<N, N>>
  BY <1>2 DEF Completeness, Valid
<1> DEFINE s == [i \in DOMAIN records |-> Cardinality(Filled(records[i]))]
           t == [i \in DOMAIN records |-> Cardinality(DOMAIN records[i])]
<1>4. ASSUME NEW i \in 1..N
      PROVE  /\ Cardinality(Filled(records[i])) \in Nat
             /\ Cardinality(DOMAIN records[i]) \in Nat
             /\ Cardinality(Filled(records[i])) <= Cardinality(DOMAIN records[i])
             /\ 1 <= Cardinality(DOMAIN records[i])
  <2> DEFINE r == records[i]
  <2>1. r \in Record
    OBVIOUS
  <2>2. DOMAIN r \subseteq Field
    BY <2>1 DEF Record
  <2>3. IsFiniteSet(DOMAIN r)
    BY <2>2, RecordsAssumption, FS_Subset
  <2>4. DOMAIN r # {}
    BY DEF Discarded
  <2>5. Filled(r) \subseteq DOMAIN r
    BY DEF Filled
  <2> HIDE DEF r
  <2>6. IsFiniteSet(Filled(r)) /\ Cardinality(Filled(r)) <= Cardinality(DOMAIN r)
    BY <2>3, <2>5, FS_Subset
  <2>7. Cardinality(DOMAIN r) \in Nat /\ Cardinality(Filled(r)) \in Nat
    BY <2>3, <2>6, FS_CardinalityType
  <2>8. Cardinality(DOMAIN r) # 0
    BY <2>3, <2>4, FS_EmptySet
  <2> QED
    BY <2>6, <2>7, <2>8 DEF r
<1>5. /\ s \in Seq(Nat) /\ t \in Seq(Nat) /\ Len(s) = N /\ Len(t) = N
      /\ \A n \in 1..N : s[n] <= t[n] /\ 1 <= t[n]
  <2>1. DOMAIN records = 1..N /\ N \in Nat
    OBVIOUS
  <2> HIDE DEF N
  <2>2. s \in [1..N -> Nat] /\ t \in [1..N -> Nat]
    BY <1>4, <2>1
  <2>3. \A n \in 1..N : s[n] <= t[n] /\ 1 <= t[n]
    BY <1>4, <2>1
  <2> HIDE DEF s, t
  <2>4. s \in Seq(Nat) /\ t \in Seq(Nat) /\ Len(s) = N /\ Len(t) = N
    BY <2>1, <2>2
  <2> QED
    BY <2>3, <2>4
<1>6. Validity(records) = <<Total(s), Total(t)>>
  BY DEF Validity
<1> HIDE DEF s, t, N
<1>7. Total(s) \in Nat /\ Total(t) \in Nat /\ Total(s) <= Total(t) /\ N <= Total(t)
  BY <1>5, TotalBounds
<1> QED
  BY <1>3, <1>6, <1>7 DEF N

\* The arithmetic of the grade: n records of m were kept, all of them complete.
LEMMA GradeArithmetic ==
  ASSUME NEW n \in Nat, NEW m \in Nat, NEW v \in Nat, NEW w \in Nat, 1 <= n, v <= w, n <= w
  PROVE  LET Score(p) == ScoreAtLeast(p, <<n, n>>, <<v, w>>, <<n, m>>) IN
         Score(50) /\ (Score(90) => 2 * n >= m)
<1> DEFINE d == n * w * m
           e == v * n * m
           f == n * n * w
           a == n * w
<1>1. a \in Nat /\ 1 <= a
  OBVIOUS
<1>2. d \in Nat /\ e \in Nat /\ f \in Nat /\ e <= d
  OBVIOUS
<1>3. d = a * m /\ f = a * n
  OBVIOUS
<1>4. \A p \in Nat : ScoreAtLeast(p, <<n, n>>, <<v, w>>, <<n, m>>) <=>
                       40 * d + 30 * e + 20 * f + 10 * d >= p * d
  BY DEF ScoreAtLeast
<1>5. ASSUME 20 * f >= 10 * d PROVE 2 * n >= m
  <2>1. a * (2 * n) >= a * m
    BY <1>1, <1>3, <1>5
  <2> QED
    BY <1>1, <2>1
<1> QED
  BY <1>2, <1>4, <1>5

-------------------------------------------------------------------------------
(* The pure properties, of every batch.                                    *)

LEMMA OutputRecords ==
  ASSUME NEW raw \in Seq(Record)
  PROVE  /\ CleanRecords(raw) \in Seq(Record)
         /\ RejectedRecords(raw) \in Seq(Record)
         /\ \A n \in 1..Len(CleanRecords(raw)) :
              Complete(CleanRecords(raw)[n]) /\ ~Discarded(CleanRecords(raw)[n])
<1> DEFINE all == CleanAll(raw)
           out == CleanRecords(raw)
<1>1. all \in Seq(Record) /\ \A i \in Unusable(all) : i \in 1..Len(all)
  BY CleanType DEF Unusable
<1>2. Picks(RejectedRecords(raw), Record, all, Unusable(all))
  <2>1. RejectedRecords(raw) = Picked(all, Unusable(all))
    BY PipelinePicks
  <2> HIDE DEF all
  <2> QED
    BY <1>1, <2>1, PickedPicks
<1>3. Picks(out, Record, all, FirstUsable(all))
  BY OutputPicks
<1>4. ASSUME NEW n \in 1..Len(out) PROVE Complete(out[n]) /\ ~Discarded(out[n])
  <2>1. PICK i \in FirstUsable(all) : n = Rank(FirstUsable(all), i)
    BY <1>3 DEF Picks
  <2>2. out[n] = all[i]
    BY <1>3, <2>1 DEF Picks
  <2>3. ~Discarded(all[i]) /\ Complete(all[i])
    BY <2>1 DEF FirstUsable
  <2> QED
    BY <2>2, <2>3
<1> QED
  BY <1>2, <1>3, <1>4 DEF Picks

\* A list's set, by the positions of the list.
LEMMA SetOf ==
  ASSUME NEW T, NEW s \in Seq(T)
  PROVE  \A x : x \in ToSet(s) <=> Contains(s, x)
BY DEF ToSet, Contains

\* What cleaning makes of a record is what is seen of it, and the fields it leaves
\* empty are those without content.
LEMMA CleanIsSeen ==
  ASSUME NEW r \in Record
  PROVE  /\ CleanRecord(r) = Seen(r)
         /\ Discarded(CleanRecord(r)) <=> Content(r) = {}
         /\ Complete(CleanRecord(r)) <=> Required \subseteq Content(r)
<1>1. PICK keys \in SUBSET Field : r \in [keys -> Value]
  BY DEF Record
<1>2. \A f \in DOMAIN r : r[f] \in Value
  BY <1>1
<1>3. ASSUME NEW v \in Value
      PROVE  /\ CleanString(v) = CASE v \in {"blank", "hollow", "nbsp"} -> "empty"
                                    [] v \in {"padded", "tagged"}        -> "plain"
                                    [] v = "escaped"                     -> "tagged"
                                    [] OTHER                             -> v
             /\ CleanString(v) \in Falsy <=> v \in Contentless
  BY DEF Value, CleanString, Strip, Unescape, RemoveTags, Falsy, Contentless
<1>4. CleanRecord(r) = Seen(r)
  BY <1>2, <1>3 DEF CleanRecord, Seen
<1>5. /\ DOMAIN CleanRecord(r) = DOMAIN r
      /\ \A f \in DOMAIN r : CleanRecord(r)[f] \in Falsy <=> f \notin Content(r)
  BY <1>2, <1>3 DEF CleanRecord, Content
<1>6. Content(r) \subseteq DOMAIN r
  BY DEF Content
<1> QED
  BY <1>4, <1>5, <1>6 DEF Discarded, Complete, Has

LEMMA BatchNothingLost ==
  ASSUME NEW raw \in Seq(Record)
  PROVE  LET kept == {r \in ToSet(raw) : Content(r) # {}} IN
         /\ ToSet(CleanRecords(raw))
              = {Seen(r) : r \in {k \in kept : Required \subseteq Content(k)}}
         /\ ToSet(RejectedRecords(raw))
              = {Seen(r) : r \in {k \in kept : ~(Required \subseteq Content(k))}}
<1> DEFINE all == CleanAll(raw)
           kept == {r \in ToSet(raw) : Content(r) # {}}
           out == CleanRecords(raw)
           rejected == RejectedRecords(raw)
<1>1. all \in Seq(Record) /\ out \in Seq(Record) /\ rejected \in Seq(Record)
  BY CleanType, OutputRecords
<1>2. /\ \A x : Contains(out, x) <=> \E i \in Usable(all) : all[i] = x
      /\ \A x : Contains(rejected, x) <=> \E i \in Unusable(all) : all[i] = x
  BY OutputPicks
<1>3. DOMAIN all = DOMAIN raw /\ \A i \in DOMAIN raw : all[i] = CleanRecord(raw[i])
  BY DEF CleanAll
<1>4. \A x : x \in ToSet(raw) <=> \E i \in DOMAIN raw : raw[i] = x
  BY DEF ToSet
<1>5. \A i \in DOMAIN raw : raw[i] \in Record
  OBVIOUS
<1>6. \A x : x \in ToSet(out) <=> Contains(out, x)
  BY <1>1, SetOf
<1>7. \A x : x \in ToSet(rejected) <=> Contains(rejected, x)
  BY <1>1, SetOf
<1> HIDE DEF all, out, rejected
<1>8. ASSUME NEW i \in DOMAIN raw
      PROVE  /\ all[i] = Seen(raw[i]) /\ raw[i] \in ToSet(raw)
             /\ Discarded(all[i]) <=> Content(raw[i]) = {}
             /\ Complete(all[i]) <=> Required \subseteq Content(raw[i])
  BY <1>3, <1>4, <1>5, CleanIsSeen
<1>9. ASSUME NEW x
      PROVE  x \in ToSet(out)
               <=> \E r \in ToSet(raw) : Content(r) # {} /\ Required \subseteq Content(r)
                                        /\ Seen(r) = x
  BY <1>2, <1>3, <1>4, <1>6, <1>8 DEF Usable
<1>10. ASSUME NEW x
       PROVE  x \in ToSet(rejected)
                <=> \E r \in ToSet(raw) : Content(r) # {} /\ ~(Required \subseteq Content(r))
                                         /\ Seen(r) = x
  BY <1>2, <1>3, <1>4, <1>7, <1>8 DEF Unusable
<1>11. ToSet(out) = {Seen(r) : r \in {k \in kept : Required \subseteq Content(k)}}
  BY <1>9
<1>12. ToSet(rejected) = {Seen(r) : r \in {k \in kept : ~(Required \subseteq Content(k))}}
  BY <1>10
<1> QED
  BY <1>11, <1>12 DEF out, rejected

LEMMA BatchKeptInOrder ==
  ASSUME NEW raw \in Seq(Record)
  PROVE  LET all == CleanAll(raw) IN
         /\ Len(CleanRecords(raw)) = Cardinality(FirstUsable(all))
         /\ \A i \in FirstUsable(all) :
              CleanRecords(raw)[Rank(FirstUsable(all), i)] = all[i]
BY OutputPicks DEF Picks

LEMMA BatchGradeIsEarned ==
  ASSUME NEW raw \in Seq(Record)
  PROVE  LET grade == Grade(raw, CleanRecords(raw)) IN
         /\ grade = "excellent" => 2 * Len(CleanRecords(raw)) >= Len(raw)
         /\ grade = "poor" <=> CleanRecords(raw) = <<>>
<1> DEFINE out == CleanRecords(raw)
           n == Len(out)
           m == Len(raw)
<1>1. /\ out \in Seq(Record)
      /\ \A k \in 1..Len(out) : Complete(out[k]) /\ ~Discarded(out[k])
  BY OutputRecords
<1> HIDE DEF out
<1>2. CASE out = <<>>
  BY <1>2 DEF Grade, out
<1>3. CASE out # <<>>
  <2>1. n \in Nat /\ 1 <= n /\ m \in Nat
    BY <1>1, <1>3
  <2>2. PICK v, w \in Nat : Validity(out) = <<v, w>> /\ v <= w /\ n <= w
    BY <1>1, ScoreBounds
  <2>3. Completeness(out) = <<n, n>>
    BY <1>1, ScoreBounds
  <2> DEFINE AtLeast(p) == ScoreAtLeast(p, <<n, n>>, <<v, w>>, <<n, m>>)
  <2>4. AtLeast(50) /\ (AtLeast(90) => 2 * n >= m)
    <3> HIDE DEF n, m
    <3> QED
      BY <2>1, <2>2, GradeArithmetic
  <2>5. Grade(raw, out) = IF AtLeast(90) THEN "excellent" ELSE
                          IF AtLeast(70) THEN "good" ELSE
                          IF AtLeast(50) THEN "fair" ELSE "poor"
    BY <1>3, <2>2, <2>3, Zenon DEF Grade
  <2> HIDE DEF AtLeast
  <2>6. /\ Grade(raw, out) = "excellent" => 2 * n >= m
        /\ Grade(raw, out) # "poor"
    BY <2>4, <2>5
  <2> QED
    BY <1>3, <2>6 DEF out
<1> QED
  BY <1>2, <1>3

-------------------------------------------------------------------------------
(* The service: types.                                                     *)

\* Only what there is to store is on its way to the bucket.
SomethingToStore == \A a \in Attempt : at[a] \in {"exists", "make", "put"} => Output(a) # <<>>

Typed == TypeOK /\ store = [p \in Paths |-> store[p]] /\ SomethingToStore

LEMMA OutputIsRecords ==
  ASSUME TypeOK, NEW a \in Attempt
  PROVE  Raw(a) \in Seq(Record) /\ Output(a) \in Seq(Record)
<1>1. SubmissionOf[a] \in Submission
  BY ProcessorAssumption
<1> QED
  BY <1>1, OutputRecords DEF TypeOK, Raw, Output

LEMMA PathType ==
  ASSUME TypeOK, NEW a \in Attempt
  PROVE  Path(a) \in Paths /\ Path(a) # NoPath
<1>1. JobOfAttempt(a) \in Job
  BY ProcessorAssumption DEF JobOfAttempt
<1>2. second[a] \in 0..LastSecond
  BY DEF TypeOK
<1>3. FileType(format[SubmissionOf[a]]) \in FileTypes
  BY DEF FileType, FileTypes
<1> QED
  BY <1>1, <1>2, <1>3 DEF Path, Paths, NoPath

LEMMA TypedInit == Init => Typed
<1> SUFFICES ASSUME Init PROVE Typed
  OBVIOUS
<1>1. PICK s \in Starts :
        /\ batch = s.batch /\ format = s.format /\ bucket = s.bucket
        /\ at = [a \in Attempt |-> IF a \in s.sent THEN "idle" ELSE "unsent"]
  BY DEF Init
<1>2. \A u \in Submission : /\ batch[u] \in Seq(Record)
                             /\ format[u] \in {"csv", "json", "parquet", "delta"}
  BY <1>1, ProcessorAssumption
<1>3. 0 \in 0..LastSecond
  BY ProcessorAssumption
<1>4. bucket \in {"absent", "before"}
  BY <1>1, ProcessorAssumption
<1>5. /\ now = 0
      /\ second = [a \in Attempt |-> 0]
      /\ store = [p \in Paths |-> NoObject]
      /\ reply = [a \in Attempt |-> [status |-> "none", path |-> NoPath]]
      /\ logs = {}
  BY DEF Init
<1>6. SomethingToStore
  BY <1>1 DEF SomethingToStore
<1> QED
  BY <1>1, <1>2, <1>3, <1>4, <1>5, <1>6 DEF Typed, TypeOK

\* What a step leaves alone, and the ways it may go.
LEMMA Frame ==
  ASSUME Next PROVE UNCHANGED <<batch, format>>
BY DEF Next, Process, ProcessFails, BucketExists, MakeBucket, PutObject, Die, StoreAudit,
       InitMinio, Tick

LEMMA OutputStays ==
  ASSUME UNCHANGED <<batch, format>>
  PROVE  \A a : /\ Output(a)' = Output(a)
                /\ Raw(a)' = Raw(a)
                /\ format[SubmissionOf[a]]' = format[SubmissionOf[a]]
BY DEF Output, Raw

\* The program counters and the replies.
Control ==
  /\ at \in [Attempt -> {"unsent", "idle", "exists", "make", "put", "done", "dead"}]
  /\ reply \in [Attempt -> [status : {"none", "success", "failed"},
                            path : Paths \cup {NoPath}]]

LEMMA AnswerControl ==
  ASSUME Control, NEW a \in Attempt, NEW path \in Paths \cup {NoPath}, Answer(a, path)
  PROVE  /\ Control'
         /\ at'[a] = "done" /\ reply'[a] = [status |-> "success", path |-> path]
         /\ \A b \in Attempt \ {a} : at'[b] = at[b] /\ reply'[b] = reply[b]
<1>1. [status |-> "success", path |-> path] \in [status : {"none", "success", "failed"},
                                                 path : Paths \cup {NoPath}]
  OBVIOUS
<1> QED
  BY <1>1 DEF Control, Answer

LEMMA GotoControl ==
  ASSUME Control, NEW a \in Attempt, NEW step \in {"exists", "make", "put", "dead"},
         Goto(a, step)
  PROVE  /\ Control'
         /\ at'[a] = step /\ reply'[a] = reply[a]
         /\ \A b \in Attempt \ {a} : at'[b] = at[b] /\ reply'[b] = reply[b]
BY DEF Control, Goto

LEMMA FailControl ==
  ASSUME Control, NEW a \in Attempt, ProcessFails(a)
  PROVE  /\ Control'
         /\ at'[a] = "done"
         /\ reply'[a].status = "failed" /\ reply'[a].path = reply[a].path
         /\ \A b \in Attempt \ {a} : at'[b] = at[b] /\ reply'[b] = reply[b]
<1>1. /\ at' = [at EXCEPT ![a] = "done"]
      /\ reply' = [reply EXCEPT ![a].status = "failed"]
  BY DEF ProcessFails
<1> QED
  BY <1>1 DEF Control

LEMMA TypedNext == Typed /\ [Next]_vars => Typed'
<1> SUFFICES ASSUME Typed, [Next]_vars PROVE Typed'
  OBVIOUS
<1> DEFINE Shelves == /\ \A p \in Paths : store[p] = NoObject \/ store[p] \in Seq(Record) \ {<<>>}
                      /\ store = [p \in Paths |-> store[p]]
           Rest == /\ \A s \in Submission : /\ batch[s] \in Seq(Record)
                                         /\ format[s] \in {"csv", "json", "parquet", "delta"}
                   /\ now \in 0..LastSecond
                   /\ bucket \in {"absent", "before", "init"} \cup Attempt
                   /\ second \in [Attempt -> 0..LastSecond]
                   /\ logs \subseteq Job
<1>1. Typed <=> Control /\ Shelves /\ Rest /\ SomethingToStore
  BY DEF Typed, TypeOK, Control
<1>2. Typed' <=> Control' /\ Shelves' /\ Rest' /\ SomethingToStore'
  BY DEF Typed, TypeOK, Control
<1>3. TypeOK /\ Control /\ Shelves /\ Rest /\ SomethingToStore
  BY <1>1 DEF Typed
<1>4. UNCHANGED <<batch, format>>
  BY Frame DEF vars
<1>5. SomethingToStore' <=> \A a \in Attempt : at'[a] \in {"exists", "make", "put"}
                                                => Output(a) # <<>>
  BY <1>4, OutputStays DEF SomethingToStore
<1>6. UNCHANGED store => Shelves'
  BY <1>3
<1>7. UNCHANGED <<now, bucket, second, logs>> => Rest'
  BY <1>3, <1>4
<1>8. UNCHANGED <<at, reply>> => Control' /\ SomethingToStore'
  BY <1>3, <1>5 DEF Control, SomethingToStore
<1> DEFINE Puts(a) == at[a] = "put" /\ store' = [store EXCEPT ![Path(a)] = Output(a)]
<1>9. ASSUME NEW a \in Attempt, Puts(a) PROVE Shelves'
  <2>1. Output(a) \in Seq(Record) \ {<<>>}
    BY <1>3, <1>9, OutputIsRecords DEF SomethingToStore
  <2>2. store' = [store EXCEPT ![Path(a)] = Output(a)] /\ Path(a) \in Paths
    BY <1>3, <1>9, PathType
  <2> QED
    BY <1>3, <2>1, <2>2
<1> HIDE DEF Shelves
<1>10. ASSUME NEW a \in Attempt, NEW path \in Paths \cup {NoPath}, Answer(a, path)
       PROVE  Control' /\ SomethingToStore'
  BY <1>3, <1>5, <1>10, AnswerControl DEF SomethingToStore
<1>11. ASSUME NEW a \in Attempt, NEW step \in {"exists", "make", "put", "dead"},
              Goto(a, step), step = "dead" \/ Output(a) # <<>>
       PROVE  Control' /\ SomethingToStore'
  BY <1>3, <1>5, <1>11, GotoControl DEF SomethingToStore
<1>12. ASSUME NEW a \in Attempt, Process(a) PROVE Typed'
  <2>1. at[a] = "idle" /\ UNCHANGED <<now, bucket, store, logs>>
    BY <1>12 DEF Process
  <2>2. second' = second \/ second' = [second EXCEPT ![a] = now]
    BY <1>12 DEF Process
  <2>3. Rest'
    BY <1>3, <1>4, <2>1, <2>2
  <2>4. Answer(a, NoPath) \/ (Goto(a, "exists") /\ Output(a) # <<>>)
    BY <1>12 DEF Process
  <2>5. Control' /\ SomethingToStore'
    BY <2>4, <1>10, <1>11
  <2> QED
    BY <1>2, <1>6, <2>1, <2>3, <2>5
<1>13. ASSUME NEW a \in Attempt, ProcessFails(a) PROVE Typed'
  <2>1. UNCHANGED <<now, bucket, second, store, logs>>
    BY <1>13 DEF ProcessFails
  <2>2. Control' /\ SomethingToStore'
    BY <1>3, <1>5, <1>13, FailControl DEF SomethingToStore
  <2> QED
    BY <1>2, <1>6, <1>7, <2>1, <2>2
<1>14. ASSUME NEW a \in Attempt, BucketExists(a) PROVE Typed'
  <2>1. at[a] = "exists" /\ UNCHANGED <<now, bucket, second, store, logs>>
    BY <1>14 DEF BucketExists
  <2>2. Goto(a, "make") \/ Goto(a, "put") \/ Answer(a, NoPath)
    BY <1>14 DEF BucketExists
  <2>3. Output(a) # <<>>
    BY <1>3, <2>1 DEF SomethingToStore
  <2>4. Control' /\ SomethingToStore'
    BY <2>2, <2>3, <1>10, <1>11
  <2> QED
    BY <1>2, <1>6, <1>7, <2>1, <2>4
<1>15. ASSUME NEW a \in Attempt, MakeBucket(a) PROVE Typed'
  <2>1. at[a] = "make" /\ UNCHANGED <<now, second, store, logs>>
    BY <1>15 DEF MakeBucket
  <2>2. Goto(a, "put") \/ Answer(a, NoPath)
    BY <1>15 DEF MakeBucket
  <2>3. bucket' = bucket \/ bucket' = a
    BY <1>15 DEF MakeBucket
  <2>4. Output(a) # <<>>
    BY <1>3, <2>1 DEF SomethingToStore
  <2>5. Control' /\ SomethingToStore'
    BY <2>2, <2>4, <1>10, <1>11
  <2>6. Rest'
    BY <1>3, <1>4, <2>1, <2>3
  <2> QED
    BY <1>2, <1>6, <2>1, <2>5, <2>6
<1>16. ASSUME NEW a \in Attempt, PutObject(a) PROVE Typed'
  <2>1. UNCHANGED <<now, bucket, second, logs>> /\ (Puts(a) \/ UNCHANGED store)
    BY <1>16 DEF PutObject
  <2>2. Answer(a, Path(a)) \/ Answer(a, NoPath)
    BY <1>16 DEF PutObject
  <2>3. Path(a) \in Paths
    BY <1>3, PathType
  <2>4. Control' /\ SomethingToStore'
    BY <2>2, <2>3, <1>10
  <2> QED
    BY <1>2, <1>6, <1>7, <1>9, <2>1, <2>4
<1>17. ASSUME NEW a \in Attempt, Die(a) PROVE Typed'
  <2>1. UNCHANGED <<now, bucket, second, logs>> /\ (Puts(a) \/ UNCHANGED store)
    BY <1>17 DEF Die
  <2>2. Goto(a, "dead")
    BY <1>17 DEF Die
  <2>3. Control' /\ SomethingToStore'
    BY <2>2, <1>11
  <2> QED
    BY <1>2, <1>6, <1>7, <1>9, <2>1, <2>3
<1>18. ASSUME NEW j \in Job, StoreAudit(j) PROVE Typed'
  <2>1. UNCHANGED <<now, bucket, second, store, at, reply>> /\ logs' \subseteq logs \cup {j}
    BY <1>18 DEF StoreAudit
  <2>2. Rest'
    BY <1>3, <1>4, <2>1
  <2> QED
    BY <1>2, <1>6, <1>8, <2>1, <2>2
<1>19. ASSUME InitMinio \/ Tick PROVE Typed'
  <2>1. UNCHANGED <<second, store, at, reply, logs>>
    BY <1>19 DEF InitMinio, Tick
  <2>2. /\ bucket' = bucket \/ bucket' = "init"
        /\ now' = now \/ (now < LastSecond /\ now' = now + 1)
    BY <1>19 DEF InitMinio, Tick
  <2>3. Rest'
    BY <1>3, <1>4, <2>1, <2>2, ProcessorAssumption
  <2> QED
    BY <1>2, <1>6, <1>8, <2>1, <2>3
<1>20. ASSUME UNCHANGED vars PROVE Typed'
  BY <1>2, <1>6, <1>7, <1>8, <1>20 DEF vars
<1> QED
  BY <1>12, <1>13, <1>14, <1>15, <1>16, <1>17, <1>18, <1>19, <1>20 DEF Next

LEMMA TypedAlways == Spec => []Typed
BY TypedInit, TypedNext, PTL DEF Spec

\* The state of the service is what its variables say; what is on its way to
\* the bucket or in it is a list of records that is not empty.
THEOREM ProcessorTypeCorrect == Spec => []TypeOK
<1>1. Typed => TypeOK
  BY DEF Typed
<1> QED
  BY <1>1, TypedAlways, PTL

-------------------------------------------------------------------------------
(* What a reply says of its batch, for every batch.                        *)

\* Every record of the batch with any content is, as it is seen, among the clean
\* records of the reply or the rejected ones, by whether its required fields have
\* content, and neither list has another.
THEOREM NothingLostAlways == Spec => []NothingLost
<1>1. TypeOK => NothingLost
  <2> SUFFICES ASSUME TypeOK, NEW a \in Attempt
               PROVE  LET kept == {r \in ToSet(Raw(a)) : Content(r) # {}} IN
                      /\ ToSet(Output(a))
                           = {Seen(r) : r \in {k \in kept : Required \subseteq Content(k)}}
                      /\ ToSet(Rejected(a))
                           = {Seen(r) : r \in {k \in kept : ~(Required \subseteq Content(k))}}
    BY DEF NothingLost
  <2>1. Raw(a) \in Seq(Record) /\ Output(a) = CleanRecords(Raw(a))
    BY OutputIsRecords DEF Raw, Output
  <2> QED
    BY <2>1, BatchNothingLost DEF Rejected
<1> QED
  BY <1>1, ProcessorTypeCorrect, PTL

\* The clean records of a reply are the first of each kind, in the order of the
\* batch.
THEOREM KeptInOrderAlways == Spec => []KeptInOrder
<1>1. TypeOK => KeptInOrder
  <2> SUFFICES ASSUME TypeOK, NEW a \in Attempt
               PROVE  LET F == FirstUsable(CleanAll(Raw(a))) IN
                      /\ Len(Output(a)) = Cardinality(F)
                      /\ \A i \in F : Output(a)[Cardinality({k \in F : k <= i})]
                                        = CleanAll(Raw(a))[i]
    BY DEF KeptInOrder, FirstUsable
  <2>1. Raw(a) \in Seq(Record) /\ Output(a) = CleanRecords(Raw(a))
    BY OutputIsRecords DEF Raw, Output
  <2> QED
    BY <2>1, BatchKeptInOrder DEF Rank
<1> QED
  BY <1>1, ProcessorTypeCorrect, PTL

\* An excellent batch lost at most half of its records, and only a batch that
\* lost all of them is poor, whatever the terms of the score add up to.
THEOREM GradeIsEarnedAlways == Spec => []GradeIsEarned
<1>1. TypeOK => GradeIsEarned
  <2> SUFFICES ASSUME TypeOK, NEW a \in Attempt
               PROVE  LET grade == Grade(Raw(a), Output(a)) IN
                      /\ grade = "excellent" => 2 * Len(Output(a)) >= Len(Raw(a))
                      /\ grade = "poor" <=> Output(a) = <<>>
    BY DEF GradeIsEarned
  <2>1. Raw(a) \in Seq(Record) /\ Output(a) = CleanRecords(Raw(a))
    BY OutputIsRecords DEF Raw, Output
  <2> QED
    BY <2>1, BatchGradeIsEarned
<1> QED
  BY <1>1, ProcessorTypeCorrect, PTL

-------------------------------------------------------------------------------
(* The object a reply names, and the reason of a reply that names none.    *)

\* Who has answered is done.
Answered(a) == reply[a].status # "none" => at[a] = "done"

\* An answer names the place its own timestamp gives, which has the records of
\* some attempt that was given the same place.
HeldBy(a, b) ==
  at[b] \notin {"unsent", "idle"} /\ Path(b) = Path(a) /\ store[Path(a)] = Output(b)

Held(a) ==
  reply[a].path # NoPath =>
    /\ at[a] = "done"
    /\ reply[a].path = Path(a)
    /\ \E b \in Attempt : HeldBy(a, b)

\* Who is about to make the bucket has seen that there was none, and has not
\* made it itself.
NotTheMaker(a) == at[a] = "make" => bucket \notin {"before", a}

HasReason(a) ==
  a \notin Faulty /\ Succeeded(a) /\ reply[a].path = NoPath =>
    \/ Output(a) = <<>>
    \/ ~Writable(format[SubmissionOf[a]], Output(a))
    \/ bucket \notin {"before", a}

Explained(a) == Answered(a) /\ Held(a) /\ NotTheMaker(a) /\ HasReason(a)

StoreInv == \A a \in Attempt : Explained(a)

LEMMA StoreInvInit == Init => StoreInv
<1> SUFFICES ASSUME Init PROVE StoreInv
  OBVIOUS
<1>1. /\ \A a \in Attempt : reply[a].status = "none" /\ reply[a].path = NoPath
      /\ \A a \in Attempt : at[a] \in {"unsent", "idle"}
  BY DEF Init
<1> QED
  BY <1>1 DEF StoreInv, Explained, Answered, Held, NotTheMaker, HasReason, Succeeded

\* An attempt's place is fixed once it has left "idle".
LEMMA PathStays ==
  ASSUME TypeOK, Next, NEW b \in Attempt, at[b] \notin {"unsent", "idle"}
  PROVE  Path(b)' = Path(b) /\ at'[b] \notin {"unsent", "idle"}
<1>1. UNCHANGED format
  BY Frame
<1>2. Control
  BY DEF TypeOK, Control
<1>3. second'[b] = second[b] /\ at'[b] \notin {"unsent", "idle"}
  <2>1. ASSUME NEW a \in Attempt, Process(a)
        PROVE  second'[b] = second[b] /\ at'[b] \notin {"unsent", "idle"}
    <3>1. a # b
      BY <2>1 DEF Process
    <3>2. second' = second \/ second' = [second EXCEPT ![a] = now]
      BY <2>1 DEF Process
    <3>3. at'[b] = at[b]
      BY <1>2, <2>1, <3>1, AnswerControl, GotoControl DEF Process
    <3> QED
      BY <3>1, <3>2, <3>3 DEF TypeOK
  <2>2. ASSUME NEW a \in Attempt,
               ProcessFails(a) \/ BucketExists(a) \/ MakeBucket(a) \/ PutObject(a) \/ Die(a)
        PROVE  second'[b] = second[b] /\ at'[b] \notin {"unsent", "idle"}
    <3>1. UNCHANGED second
      BY <2>2 DEF ProcessFails, BucketExists, MakeBucket, PutObject, Die
    <3>2. \E v \in {"done", "make", "put", "dead"} : at' = [at EXCEPT ![a] = v]
      BY <2>2 DEF ProcessFails, BucketExists, MakeBucket, PutObject, Die, Answer, Goto
    <3> QED
      BY <1>2, <3>1, <3>2 DEF Control
  <2>3. ASSUME (\E j \in Job : StoreAudit(j)) \/ InitMinio \/ Tick
        PROVE  second'[b] = second[b] /\ at'[b] \notin {"unsent", "idle"}
    BY <2>3 DEF StoreAudit, InitMinio, Tick
  <2> QED
    BY <2>1, <2>2, <2>3 DEF Next
<1> QED
  BY <1>1, <1>3 DEF Path

\* The attempt that takes a step, if it is one of an attempt's.
Others(a) == \A b \in Attempt \ {a} : at'[b] = at[b] /\ reply'[b] = reply[b]

Puts(a) == at[a] = "put" /\ store' = [store EXCEPT ![Path(a)] = Output(a)]

\* What holds of the others when an attempt a has taken a step.
LEMMA OthersStay ==
  ASSUME Typed, StoreInv, Next, NEW a \in Attempt, Others(a),
         at[a] \in {"idle", "exists", "make", "put"},
         UNCHANGED store \/ (Puts(a) /\ at'[a] \notin {"unsent", "idle"}),
         bucket' = bucket \/ (bucket = "absent" /\ bucket' = a)
  PROVE  \A b \in Attempt \ {a} : Explained(b)'
<1> SUFFICES ASSUME NEW b \in Attempt \ {a} PROVE Explained(b)'
  OBVIOUS
<1>1. at'[b] = at[b] /\ reply'[b] = reply[b]
  BY DEF Others
<1>2. TypeOK
  BY DEF Typed
<1>3. \A c : /\ Output(c)' = Output(c)
             /\ format[SubmissionOf[c]]' = format[SubmissionOf[c]]
  BY Frame, OutputStays
<1>4. ASSUME reply[b].path # NoPath
      PROVE  /\ at[b] = "done" /\ reply[b].path = Path(b)' /\ \E c \in Attempt : HeldBy(b, c)'
  <2>1. at[b] = "done" /\ reply[b].path = Path(b) /\ \E c \in Attempt : HeldBy(b, c)
    BY <1>4 DEF StoreInv, Explained, Held
  <2>2. Path(b)' = Path(b)
    BY <1>2, <2>1, PathStays
  <2>3. Path(b) \in Paths /\ store = [p \in Paths |-> store[p]]
    BY <1>2, PathType DEF Typed
  <2>4. PICK c \in Attempt : HeldBy(b, c)
    BY <2>1
  <2>5. Path(c)' = Path(c) /\ at'[c] \notin {"unsent", "idle"}
    BY <1>2, <2>4, PathStays DEF HeldBy
  <2>6. CASE store'[Path(b)] = store[Path(b)]
    BY <1>3, <2>1, <2>2, <2>4, <2>5, <2>6 DEF HeldBy
  <2>7. CASE store'[Path(b)] # store[Path(b)]
    <3>1. Puts(a) /\ at'[a] \notin {"unsent", "idle"}
      BY <2>7
    <3>2. Path(a) = Path(b) /\ store'[Path(b)] = Output(a)
      BY <2>3, <2>7, <3>1 DEF Puts
    <3>3. Path(a)' = Path(a)
      BY <1>2, <3>1, PathStays DEF Puts
    <3>4. HeldBy(b, a)'
      BY <1>3, <2>2, <3>1, <3>2, <3>3 DEF HeldBy
    <3> QED
      BY <2>1, <2>2, <3>4
  <2> QED
    BY <2>6, <2>7
<1>5. bucket \notin {"before", b} => bucket' \notin {"before", b}
  <2>1. a # "before" /\ a # b
    BY ProcessorAssumption
  <2> QED
    BY <2>1
<1>6. at[b] = "make" => bucket \notin {"before", b}
  BY DEF StoreInv, Explained, NotTheMaker
<1>7. reply[b].status # "none" => at[b] = "done"
  BY DEF StoreInv, Explained, Answered
<1>8. (b \notin Faulty /\ Succeeded(b) /\ reply[b].path = NoPath) =>
        \/ Output(b) = <<>>
        \/ ~Writable(format[SubmissionOf[b]], Output(b))
        \/ bucket \notin {"before", b}
  BY DEF StoreInv, Explained, HasReason
<1>9. Succeeded(b)' <=> Succeeded(b)
  BY <1>1 DEF Succeeded
<1>10. Writable(format[SubmissionOf[b]]', Output(b)')
         <=> Writable(format[SubmissionOf[b]], Output(b))
  BY <1>3
<1>11. Answered(b)' /\ NotTheMaker(b)'
  BY <1>1, <1>5, <1>6, <1>7 DEF Answered, NotTheMaker
<1>12. Held(b)'
  BY <1>1, <1>4 DEF Held
<1>13. HasReason(b)'
  BY <1>1, <1>3, <1>5, <1>8, <1>9, <1>10 DEF HasReason
<1> QED
  BY <1>11, <1>12, <1>13 DEF Explained

LEMMA StoreInvNext == Typed /\ StoreInv /\ [Next]_vars => StoreInv'
<1> SUFFICES ASSUME Typed, StoreInv, [Next]_vars PROVE StoreInv'
  OBVIOUS
<1>1. TypeOK /\ Control
  BY DEF Typed, TypeOK, Control
<1>2. \A c : /\ Output(c)' = Output(c)
             /\ format[SubmissionOf[c]]' = format[SubmissionOf[c]]
  BY Frame, OutputStays DEF vars
<1>3. \A a \in Attempt : at[a] # "done" => reply[a].status = "none" /\ reply[a].path = NoPath
  BY DEF StoreInv, Explained, Answered, Held
<1>4. ASSUME NEW a \in Attempt, Explained(a)', Others(a), Next,
             at[a] \in {"idle", "exists", "make", "put"},
             UNCHANGED store \/ (Puts(a) /\ at'[a] \notin {"unsent", "idle"}),
             bucket' = bucket \/ (bucket = "absent" /\ bucket' = a)
      PROVE  StoreInv'
  BY <1>4, OthersStay DEF StoreInv
\* An answer without a path, given for a reason.
<1>5. ASSUME NEW a \in Attempt, Answer(a, NoPath), at[a] # "done",
             \/ a \in Faulty
             \/ Output(a) = <<>>
             \/ ~Writable(format[SubmissionOf[a]], Output(a))
             \/ bucket' \notin {"before", a}
      PROVE  Explained(a)' /\ Others(a) /\ at'[a] = "done"
  <2>1. /\ at'[a] = "done" /\ reply'[a] = [status |-> "success", path |-> NoPath]
        /\ Others(a)
    BY <1>1, <1>5, AnswerControl DEF Others
  <2>2. HasReason(a)'
    BY <1>2, <1>5 DEF HasReason
  <2> QED
    BY <2>1, <2>2 DEF Explained, Answered, Held, NotTheMaker
<1>6. ASSUME NEW a \in Attempt, NEW step \in {"exists", "make", "put", "dead"},
             Goto(a, step), at[a] # "done",
             step = "make" => bucket' \notin {"before", a}
      PROVE  Explained(a)' /\ Others(a) /\ at'[a] \notin {"unsent", "idle"}
  <2>1. at'[a] = step /\ reply'[a] = reply[a] /\ Others(a)
    BY <1>1, <1>6, GotoControl DEF Others
  <2> QED
    BY <1>3, <1>6, <2>1
       DEF Explained, Answered, Held, NotTheMaker, HasReason, Succeeded
<1>7. ASSUME NEW a \in Attempt, Process(a) PROVE StoreInv'
  <2>1. at[a] = "idle" /\ UNCHANGED <<bucket, store>> /\ Next
    BY <1>7 DEF Process, Next
  <2>2. (Answer(a, NoPath) /\ Output(a) = <<>>) \/ Goto(a, "exists")
    BY <1>7 DEF Process
  <2> QED
    BY <1>4, <1>5, <1>6, <2>1, <2>2
<1>8. ASSUME NEW a \in Attempt, ProcessFails(a) PROVE StoreInv'
  <2>1. at[a] = "idle" /\ UNCHANGED <<bucket, store>> /\ Next
    BY <1>8 DEF ProcessFails, Next
  <2>2. /\ at'[a] = "done" /\ Others(a)
        /\ reply'[a].status = "failed" /\ reply'[a].path = NoPath
    BY <1>1, <1>3, <1>8, <2>1, FailControl DEF Others
  <2>3. Explained(a)'
    BY <2>2 DEF Explained, Answered, Held, NotTheMaker, HasReason, Succeeded
  <2> QED
    BY <1>4, <2>1, <2>2, <2>3
<1>9. ASSUME NEW a \in Attempt, BucketExists(a) PROVE StoreInv'
  <2>1. at[a] = "exists" /\ UNCHANGED <<bucket, store>> /\ Next
    BY <1>9 DEF BucketExists, Next
  <2>2. \/ Goto(a, "make") /\ bucket = "absent"
        \/ Goto(a, "put")
        \/ Answer(a, NoPath) /\ a \in Faulty
    BY <1>9 DEF BucketExists
  <2>3. a # "absent"
    BY ProcessorAssumption
  <2>4. Explained(a)' /\ Others(a)
    BY <1>5, <1>6, <2>1, <2>2, <2>3
  <2> QED
    BY <1>4, <2>1, <2>4
<1>10. ASSUME NEW a \in Attempt, MakeBucket(a) PROVE StoreInv'
  <2>1. at[a] = "make" /\ UNCHANGED store /\ Next
    BY <1>10 DEF MakeBucket, Next
  <2>2. bucket' = bucket \/ (bucket = "absent" /\ bucket' = a)
    BY <1>10 DEF MakeBucket
  <2>3. bucket \notin {"before", a}
    BY <2>1 DEF StoreInv, Explained, NotTheMaker
  <2>4. \/ Goto(a, "put")
        \/ Answer(a, NoPath) /\ (a \in Faulty \/ UNCHANGED bucket)
    BY <1>10 DEF MakeBucket
  <2>5. Explained(a)' /\ Others(a)
    BY <1>5, <1>6, <2>1, <2>3, <2>4
  <2> QED
    BY <1>4, <2>1, <2>2, <2>5
<1>11. ASSUME NEW a \in Attempt, PutObject(a) PROVE StoreInv'
  <2>1. at[a] = "put" /\ UNCHANGED bucket /\ Next
    BY <1>11 DEF PutObject, Next
  <2>2. \/ Puts(a) /\ Answer(a, Path(a))
        \/ ~Writable(format[SubmissionOf[a]], Output(a)) /\ Answer(a, NoPath) /\ UNCHANGED store
        \/ a \in Faulty /\ Answer(a, NoPath) /\ (Puts(a) \/ UNCHANGED store)
    BY <1>11 DEF PutObject, Puts
  <2>3. CASE Puts(a) /\ Answer(a, Path(a))
    <3>1. Path(a) \in Paths /\ Path(a)' = Path(a) /\ store = [p \in Paths |-> store[p]]
      BY <1>1, <2>1, PathType, PathStays DEF Typed
    <3>2. /\ at'[a] = "done" /\ reply'[a] = [status |-> "success", path |-> Path(a)]
          /\ Others(a)
      BY <1>1, <2>3, <3>1, AnswerControl DEF Others
    <3>3. store'[Path(a)] = Output(a)
      BY <2>3, <3>1 DEF Puts
    <3>4. HeldBy(a, a)'
      BY <1>2, <3>1, <3>2, <3>3 DEF HeldBy
    <3>5. Path(a) # NoPath
      BY <1>1, PathType
    <3>6. Explained(a)'
      BY <3>1, <3>2, <3>4, <3>5 DEF Explained, Answered, Held, NotTheMaker, HasReason
    <3> QED
      BY <1>4, <2>1, <2>3, <3>2, <3>6
  <2>4. CASE \/ ~Writable(format[SubmissionOf[a]], Output(a)) /\ Answer(a, NoPath)
                /\ UNCHANGED store
             \/ a \in Faulty /\ Answer(a, NoPath) /\ (Puts(a) \/ UNCHANGED store)
    <3>1. Explained(a)' /\ Others(a) /\ at'[a] = "done"
      BY <1>5, <2>1, <2>4
    <3> QED
      BY <1>4, <2>1, <2>4, <3>1
  <2> QED
    BY <2>2, <2>3, <2>4
<1>12. ASSUME NEW a \in Attempt, Die(a) PROVE StoreInv'
  <2>1. at[a] \in {"exists", "make", "put"} /\ UNCHANGED bucket /\ Next
    BY <1>12 DEF Die, Next
  <2>2. Goto(a, "dead") /\ (UNCHANGED store \/ Puts(a))
    BY <1>12 DEF Die, Puts
  <2>3. Explained(a)' /\ Others(a) /\ at'[a] \notin {"unsent", "idle"}
    BY <1>6, <2>1, <2>2
  <2> QED
    BY <1>4, <2>1, <2>2, <2>3
\* The steps of nobody: no attempt is told anything, and the bucket is not its own.
<1>13. ASSUME UNCHANGED <<batch, format, second, at, reply, store>>,
              bucket' = bucket \/ bucket' = "init"
       PROVE  StoreInv'
  <2>1. \A a \in Attempt : a # "init"
    BY ProcessorAssumption
  <2>2. \A a : Path(a)' = Path(a) /\ (Succeeded(a)' <=> Succeeded(a))
    BY <1>13 DEF Path, Succeeded
  <2>3. ASSUME NEW a \in Attempt PROVE Explained(a)'
    <3>1. Explained(a)
      BY DEF StoreInv
    <3>2. bucket \notin {"before", a} => bucket' \notin {"before", a}
      BY <1>13, <2>1
    <3>3. Held(a)'
      BY <1>2, <1>13, <2>2, <3>1 DEF Explained, Held, HeldBy
    <3>4. Answered(a)' /\ NotTheMaker(a)'
      BY <1>13, <3>1, <3>2 DEF Explained, Answered, NotTheMaker
    <3>5. HasReason(a)'
      BY <1>2, <1>13, <2>2, <3>1, <3>2 DEF Explained, HasReason
    <3> QED
      BY <3>3, <3>4, <3>5 DEF Explained
  <2> QED
    BY <2>3 DEF StoreInv
<1>14. ASSUME (\E j \in Job : StoreAudit(j)) \/ InitMinio \/ Tick \/ UNCHANGED vars
       PROVE  StoreInv'
  BY <1>13, <1>14 DEF StoreAudit, InitMinio, Tick, vars
<1> QED
  BY <1>7, <1>8, <1>9, <1>10, <1>11, <1>12, <1>14 DEF Next

LEMMA StoreInvAlways == Spec => []StoreInv
BY TypedAlways, StoreInvInit, StoreInvNext, PTL DEF Spec

\* The object a reply names holds the records of that reply, or those of another
\* submission of the same job that took its timestamp in the same second.
THEOREM PathHoldsReplyAlways == Spec => []PathHoldsReply
<1>1. Typed /\ StoreInv => PathHoldsReply
  <2> SUFFICES ASSUME Typed, StoreInv, NEW a \in Attempt, reply[a].path # NoPath
               PROVE  \/ store[reply[a].path] = Output(a)
                      \/ \E b \in Attempt : /\ SubmissionOf[b] # SubmissionOf[a]
                                            /\ JobOfAttempt(b) = JobOfAttempt(a)
                                            /\ second[b] = second[a]
                                            /\ store[reply[a].path] = Output(b)
    BY DEF PathHoldsReply
  <2>1. reply[a].path = Path(a) /\ \E b \in Attempt : HeldBy(a, b)
    BY DEF StoreInv, Explained, Held
  <2>2. PICK b \in Attempt : HeldBy(a, b)
    BY <2>1
  <2>3. JobOfAttempt(b) = JobOfAttempt(a) /\ second[b] = second[a]
    BY <2>2 DEF HeldBy, Path
  <2>4. SubmissionOf[b] = SubmissionOf[a] => Output(b) = Output(a)
    BY DEF Output
  <2> QED
    BY <2>1, <2>2, <2>3, <2>4 DEF HeldBy
<1> QED
  BY <1>1, TypedAlways, StoreInvAlways, PTL

\* Without a fault a reply has no path only when there was nothing to store, the
\* format could not hold it, or somebody else made the bucket meanwhile.
THEOREM UnstoredHasReasonAlways == Spec => []UnstoredHasReason
<1>1. StoreInv => UnstoredHasReason
  BY DEF StoreInv, Explained, HasReason, UnstoredHasReason
<1> QED
  BY <1>1, StoreInvAlways, PTL
===============================================================================
