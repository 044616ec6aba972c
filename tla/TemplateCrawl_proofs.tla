-------------------------- MODULE TemplateCrawl_proofs -------------------------
(***************************************************************************)
(* The crawls of the template on a site of any number of pages, with any   *)
(* number of deliveries of any number of requests.                         *)
(***************************************************************************)
EXTENDS TemplateCrawl, WellFoundedInduction, Integers, TLAPS

-------------------------------------------------------------------------------
(* Induction and recursion on 0..N.                                        *)

LEMMA NatSetInduction ==
  ASSUME NEW S, 0 \in S, \A n \in Nat : n \in S => n + 1 \in S
  PROVE  Nat \subseteq S
<1> DEFINE R == OpToRel(<, Nat)
           T == Nat \ S
<1> SUFFICES ASSUME T # {} PROVE FALSE
  OBVIOUS
<1>1. IsWellFoundedOn(R, Nat)
  BY NatLessThanWellFounded
<1>2. \A x, y \in Nat : y < x => <<y, x>> \in R
  BY DEF OpToRel
<1> HIDE DEF R
<1>3. PICK x \in T : \A y \in T : ~ (<<y, x>> \in R)
  BY <1>1, WFMin
<1>4. x \in Nat \ {0}
  BY <1>3
<1>5. x - 1 \in Nat /\ x - 1 < x /\ (x - 1) + 1 = x
  BY <1>4
<1>6. x - 1 \in T
  BY <1>3, <1>5
<1> QED
  BY <1>2, <1>3, <1>4, <1>5, <1>6

\* The same up to a bound.
LEMMA RangeInduction ==
  ASSUME NEW N \in Nat, NEW S, 0 \in S, \A n \in 1..N : n - 1 \in S => n \in S
  PROVE  0..N \subseteq S
<1> DEFINE T == {n \in Nat : n <= N => n \in S}
<1>1. 0 \in T
  OBVIOUS
<1>2. ASSUME NEW n \in Nat, n \in T PROVE n + 1 \in T
  BY <1>2
<1> HIDE DEF T
<1>3. Nat \subseteq T
  BY <1>1, <1>2, NatSetInduction
<1> QED
  BY <1>3 DEF T

\* A definition by recursion on 0..N, with the step G, has the solution f.
Recursion(f, N, V, base, G) ==
  f \in [0..N -> V] /\ f[0] = base /\ \A n \in 1..N : f[n] = G[n][f[n - 1]]

LEMMA PrefixRecursion ==
  ASSUME NEW N \in Nat, NEW V, NEW base \in V, NEW G \in [1..N -> [V -> V]]
  PROVE  \E f : Recursion(f, N, V, base, G)
<1> DEFINE Solves(f, m) == Recursion(f, m, V, base, G)
<1> DEFINE S == {m \in 0..N : \E f : Solves(f, m)}
<1> USE DEF Recursion
<1>1. 0 \in S
  <2> DEFINE g == [n \in 0..0 |-> base]
  <2>1. g \in [0..0 -> V] /\ g[0] = base /\ 1..0 = {}
    OBVIOUS
  <2> HIDE DEF g
  <2> QED
    BY <2>1
<1>2. ASSUME NEW m \in 1..N, m - 1 \in S PROVE m \in S
  <2>1. PICK f : Solves(f, m - 1)
    BY <1>2
  <2> DEFINE g == [n \in 0..m |-> IF n = m THEN G[m][f[m - 1]] ELSE f[n]]
  <2>2. f[m - 1] \in V
    BY <2>1
  <2>3. g \in [0..m -> V] /\ g[0] = base
    BY <2>1, <2>2
  <2>4. ASSUME NEW n \in 1..m PROVE g[n] = G[n][g[n - 1]]
    <3>1. n - 1 \in 0..m /\ n - 1 # m /\ g[n - 1] = f[n - 1]
      OBVIOUS
    <3>2. CASE n = m
      BY <3>1, <3>2
    <3>3. CASE n # m
      <4>1. n \in 1..(m - 1) /\ g[n] = f[n]
        BY <3>3
      <4> QED
        BY <2>1, <3>1, <4>1
    <3> QED
      BY <3>2, <3>3
  <2> HIDE DEF g
  <2>5. Solves(g, m)
    BY <2>3, <2>4
  <2> QED
    BY <2>5
<1> HIDE DEF S
<1>3. 0..N \subseteq S
  BY <1>1, <1>2, RangeInduction
<1>4. N \in S
  BY <1>3
<1> QED
  BY <1>4 DEF S

\* K is what Picked makes of the prefixes of s.
Collects(K, T, s, I) ==
  /\ K \in [0..Len(s) -> Seq(T)]
  /\ K[0] = <<>>
  /\ \A n \in 1..Len(s) : K[n] = IF n \in I THEN Append(K[n - 1], s[n]) ELSE K[n - 1]
  /\ Picked(s, I) = K[Len(s)]

LEMMA PickedPrefixes ==
  ASSUME NEW T, NEW s, Len(s) \in Nat, NEW I, \A n \in 1..Len(s) : n \in I => s[n] \in T
  PROVE  \E K : Collects(K, T, s, I)
<1> DEFINE N == Len(s)
           V == Seq(T)
           G == [n \in 1..N |-> [v \in V |-> IF n \in I THEN Append(v, s[n]) ELSE v]]
           Def(f) == f = [n \in 0..N |->
                            IF n = 0 THEN <<>>
                            ELSE IF n \in I THEN Append(f[n - 1], s[n]) ELSE f[n - 1]]
<1>1. N \in Nat /\ <<>> \in V /\ G \in [1..N -> [V -> V]]
  OBVIOUS
<1> HIDE DEF G, V, N
<1>2. PICK f : Recursion(f, N, V, <<>>, G)
  BY <1>1, PrefixRecursion
<1> USE DEF V, N
<1>3. ASSUME NEW n \in 1..N
      PROVE  f[n] = IF n \in I THEN Append(f[n - 1], s[n]) ELSE f[n - 1]
  <2>1. f[n - 1] \in V /\ f[n] = G[n][f[n - 1]]
    BY <1>2 DEF Recursion
  <2>2. G[n][f[n - 1]] = IF n \in I THEN Append(f[n - 1], s[n]) ELSE f[n - 1]
    BY <2>1 DEF G
  <2> QED
    BY <2>1, <2>2
<1>4. Def(f)
  <2>1. f = [n \in 0..N |-> f[n]] /\ f[0] = <<>>
    BY <1>2 DEF Recursion
  <2>2. \A n \in 0..N : f[n] = IF n = 0 THEN <<>>
                               ELSE IF n \in I THEN Append(f[n - 1], s[n]) ELSE f[n - 1]
    <3>1. \A n \in 0..N : n = 0 \/ n \in 1..N
      BY <1>1
    <3> QED
      BY <1>3, <2>1, <3>1, Zenon
  <2> QED
    BY <2>1, <2>2, Zenon
<1> DEFINE K == CHOOSE g : Def(g)
<1>5. Def(K)
  BY <1>4
<1>6. Picked(s, I) = K[N]
  BY DEF Picked
<1> HIDE DEF K
<1>7. /\ K[0] = <<>>
      /\ \A n \in 1..N : K[n] = IF n \in I THEN Append(K[n - 1], s[n]) ELSE K[n - 1]
  <2>1. \A n \in 0..N : K[n] = IF n = 0 THEN <<>>
                               ELSE IF n \in I THEN Append(K[n - 1], s[n]) ELSE K[n - 1]
    BY <1>5, Zenon
  <2>2. 0 \in 0..N /\ \A n \in 1..N : n \in 0..N /\ n # 0
    BY <1>1
  <2> QED
    BY <2>1, <2>2, Zenon
<1>8. K \in [0..N -> V]
  <2> DEFINE S == {n \in 0..N : K[n] \in V}
  <2>0. \A n \in 1..N, v \in V : n \in I => Append(v, s[n]) \in V
    OBVIOUS
  <2> HIDE DEF V, N
  <2>1. 0 \in S
    BY <1>1, <1>7
  <2>2. ASSUME NEW n \in 1..N, n - 1 \in S PROVE n \in S
    <3>1. K[n - 1] \in V /\ n \in 0..N
      BY <1>1, <2>2
    <3>2. K[n] \in V
      BY <1>7, <2>0, <3>1
    <3> QED
      BY <3>1, <3>2
  <2>3. 0..N \subseteq S
    <3> HIDE DEF S
    <3> QED
      BY <1>1, <2>1, <2>2, RangeInduction
  <2>4. \A n \in 0..N : K[n] \in V
    BY <2>3
  <2> QED
    BY <1>5, <2>4
<1> QED
  BY <1>6, <1>7, <1>8 DEF Collects

-------------------------------------------------------------------------------
(* Lists that are picked from lists, and lists that are joined.            *)

LEMMA PickedType ==
  ASSUME NEW T, NEW s, Len(s) \in Nat, NEW I, \A n \in 1..Len(s) : n \in I => s[n] \in T
  PROVE  Picked(s, I) \in Seq(T)
<1>1. PICK K : Collects(K, T, s, I)
  BY PickedPrefixes
<1>2. K \in [0..Len(s) -> Seq(T)] /\ Picked(s, I) = K[Len(s)]
  BY <1>1 DEF Collects
<1>3. Len(s) \in 0..Len(s)
  OBVIOUS
<1> HIDE DEF Collects
<1> QED
  BY <1>2, <1>3

LEMMA PickedPrefixesSeq ==
  ASSUME NEW T, NEW s \in Seq(T), NEW I
  PROVE  \E K : Collects(K, T, s, I)
<1>1. Len(s) \in Nat /\ \A n \in 1..Len(s) : n \in I => s[n] \in T
  OBVIOUS
<1> QED
  BY <1>1, PickedPrefixes

\* One list after the other.
Cat(s, t) == s \o t

LEMMA CatSteps ==
  ASSUME NEW T, NEW s \in Seq(T), NEW t \in Seq(T), NEW x \in T
  PROVE  Cat(s, t) \in Seq(T) /\ Append(Cat(s, t), x) = Cat(s, Append(t, x))
BY DEF Cat

LEMMA EmptyTail ==
  ASSUME NEW T, NEW s \in Seq(T)
  PROVE  Cat(s, <<>>) = s
BY DEF Cat

\* Picking from two lists one after the other.
LEMMA PickedConcat ==
  ASSUME NEW T, NEW s \in Seq(T), NEW t \in Seq(T), NEW A, NEW B, NEW C,
         \A n \in 1..Len(s) : n \in C <=> n \in A,
         \A n \in 1..Len(t) : Len(s) + n \in C <=> n \in B
  PROVE  Picked(Cat(s, t), C) = Cat(Picked(s, A), Picked(t, B))
<1> DEFINE u == Cat(s, t)
           N == Len(s)
           M == Len(t)
<1>1. /\ N \in Nat /\ M \in Nat /\ u \in Seq(T) /\ Len(u) = N + M
      /\ \A n \in 1..N : u[n] = s[n]
      /\ \A m \in 1..M : u[N + m] = t[m]
  BY DEF Cat
<1>3. PICK K : Collects(K, T, s, A)
  BY PickedPrefixesSeq
<1>4. PICK L : Collects(L, T, t, B)
  BY PickedPrefixesSeq
<1> HIDE DEF u
<1>5. PICK J : Collects(J, T, u, C)
  BY <1>1, PickedPrefixesSeq
<1>6. /\ \A n \in 0..N : K[n] \in Seq(T)
      /\ K[0] = <<>>
      /\ \A n \in 1..N : K[n] = IF n \in A THEN Append(K[n - 1], s[n]) ELSE K[n - 1]
      /\ Picked(s, A) = K[N]
  BY <1>3 DEF Collects
<1>7. /\ \A n \in 0..M : L[n] \in Seq(T)
      /\ L[0] = <<>>
      /\ \A n \in 1..M : L[n] = IF n \in B THEN Append(L[n - 1], t[n]) ELSE L[n - 1]
      /\ Picked(t, B) = L[M]
  BY <1>4 DEF Collects
<1>8. /\ J[0] = <<>>
      /\ \A n \in 1..(N + M) : J[n] = IF n \in C THEN Append(J[n - 1], u[n]) ELSE J[n - 1]
      /\ Picked(u, C) = J[N + M]
  BY <1>1, <1>5 DEF Collects
<1>9. /\ \A n \in 1..N : n \in C <=> n \in A
      /\ \A n \in 1..M : N + n \in C <=> n \in B
      /\ \A n \in 1..N : s[n] \in T
      /\ \A n \in 1..M : t[n] \in T
  OBVIOUS
<1> HIDE DEF N, M
<1> DEFINE P == {n \in 0..N : J[n] = K[n]}
           Q == {m \in 0..M : J[N + m] = Cat(K[N], L[m])}
<1>10. 0..N \subseteq P
  <2>1. 0 \in P
    BY <1>1, <1>6, <1>8
  <2>2. ASSUME NEW n \in 1..N, n - 1 \in P PROVE n \in P
    <3>1. n \in 0..N /\ n \in 1..(N + M) /\ J[n - 1] = K[n - 1]
      BY <1>1, <2>2
    <3> QED
      BY <1>1, <1>6, <1>8, <1>9, <3>1
  <2> HIDE DEF P
  <2> QED
    BY <1>1, <2>1, <2>2, RangeInduction
<1>11. J[N] = K[N] /\ K[N] \in Seq(T)
  BY <1>1, <1>6, <1>10
<1>12. 0..M \subseteq Q
  <2>1. 0 \in Q
    <3>1. Cat(K[N], <<>>) = K[N]
      BY <1>11, EmptyTail
    <3> QED
      BY <1>1, <1>7, <1>11, <3>1
  <2>2. ASSUME NEW m \in 1..M, m - 1 \in Q PROVE m \in Q
    <3>1. /\ m \in 0..M /\ m - 1 \in 0..M /\ N + m \in 1..(N + M)
          /\ (N + m) - 1 = N + (m - 1)
          /\ J[N + (m - 1)] = Cat(K[N], L[m - 1])
      BY <1>1, <2>2
    <3>2. L[m - 1] \in Seq(T) /\ t[m] \in T /\ u[N + m] = t[m]
      BY <1>1, <1>7, <1>9, <3>1
    <3>3. CASE m \in B
      <4>1. J[N + m] = Append(Cat(K[N], L[m - 1]), t[m])
        BY <1>8, <1>9, <3>1, <3>2, <3>3
      <4>2. L[m] = Append(L[m - 1], t[m])
        BY <1>7, <3>3
      <4>3. Append(Cat(K[N], L[m - 1]), t[m]) = Cat(K[N], Append(L[m - 1], t[m]))
        BY <1>11, <3>2, CatSteps
      <4> QED
        BY <3>1, <4>1, <4>2, <4>3
    <3>4. CASE m \notin B
      BY <1>7, <1>8, <1>9, <3>1, <3>4
    <3> QED
      BY <3>3, <3>4
  <2> HIDE DEF Q
  <2> QED
    BY <1>1, <2>1, <2>2, RangeInduction
<1>13. J[N + M] = Cat(K[N], L[M])
  BY <1>1, <1>12
<1> QED
  BY <1>6, <1>7, <1>8, <1>13 DEF u

\* The prefixes of a list of lists, joined.
Joins(J, T, ss) ==
  /\ \A n \in 0..Len(ss) : J[n] \in Seq(T)
  /\ J[0] = <<>>
  /\ \A n \in 1..Len(ss) : J[n] = Cat(J[n - 1], ss[n])

LEMMA JoinedPrefixes ==
  ASSUME NEW T, NEW ss, Len(ss) \in Nat, \A n \in 1..Len(ss) : ss[n] \in Seq(T)
  PROVE  Joins(Joined(ss), T, ss)
<1> DEFINE N == Len(ss)
           V == Seq(T)
           G == [n \in 1..N |-> [v \in V |-> v \o ss[n]]]
           Def(f) == f = [n \in 0..N |-> IF n = 0 THEN <<>> ELSE f[n - 1] \o ss[n]]
<1>1. N \in Nat /\ <<>> \in V
  OBVIOUS
<1>2. \A n \in 1..N, v \in V : v \o ss[n] \in V
  OBVIOUS
<1> HIDE DEF N, V
<1>3. G \in [1..N -> [V -> V]]
  BY <1>2
<1> HIDE DEF G
<1>4. PICK f : Recursion(f, N, V, <<>>, G)
  BY <1>1, <1>3, PrefixRecursion
<1>5. ASSUME NEW n \in 1..N PROVE f[n] = f[n - 1] \o ss[n] /\ f[n - 1] \in V
  <2>1. f[n - 1] \in V /\ f[n] = G[n][f[n - 1]]
    BY <1>1, <1>4 DEF Recursion
  <2> QED
    BY <2>1 DEF G
<1>6. \A n \in 0..N : n = 0 \/ n \in 1..N
  BY <1>1
<1>7. Def(f)
  <2>1. f = [n \in 0..N |-> f[n]] /\ f[0] = <<>>
    BY <1>4 DEF Recursion
  <2>2. \A n \in 0..N : f[n] = IF n = 0 THEN <<>> ELSE f[n - 1] \o ss[n]
    BY <1>5, <1>6, <2>1, Zenon
  <2> QED
    BY <2>1, <2>2, Zenon
<1> DEFINE J == CHOOSE g : Def(g)
<1>8. Def(J)
  BY <1>7
<1>9. Joined(ss) = J
  BY DEF Joined, N
<1> HIDE DEF J
<1>10. J[0] = <<>> /\ \A n \in 1..N : J[n] = J[n - 1] \o ss[n]
  <2>1. \A n \in 0..N : J[n] = IF n = 0 THEN <<>> ELSE J[n - 1] \o ss[n]
    BY <1>8, Zenon
  <2>2. 0 \in 0..N /\ \A n \in 1..N : n \in 0..N /\ n # 0
    BY <1>1
  <2> QED
    BY <2>1, <2>2, Zenon
<1> DEFINE S == {n \in 0..N : J[n] \in V}
<1>11. 0 \in S
  BY <1>1, <1>10
<1>12. ASSUME NEW n \in 1..N, n - 1 \in S PROVE n \in S
  <2>1. n \in 0..N /\ J[n - 1] \in V
    BY <1>1, <1>12
  <2> QED
    BY <1>2, <1>10, <2>1
<1>13. 0..N \subseteq S
  <2> HIDE DEF S
  <2> QED
    BY <1>1, <1>11, <1>12, RangeInduction
<1> QED
  BY <1>9, <1>10, <1>13 DEF Joins, Cat, N, V

-------------------------------------------------------------------------------
(* The site: the pages along its links, and what is on them.               *)

\* W is the walk along the links of next.
Walk(W, next) ==
  /\ \A n \in 1..MaxPages : W[n] \in Page \cup {NoPage}
  /\ W[1] = Start
  /\ \A n \in 2..MaxPages : W[n] = IF W[n - 1] = NoPage THEN NoPage ELSE next[W[n - 1]]

LEMMA AlongWalks ==
  ASSUME NEW next \in [Page -> Page \cup {NoPage}]
  PROVE  Walk(Along(next), next)
<1> DEFINE N == MaxPages
           V == Page \cup {NoPage}
           Step(n, v) == IF n = 1 THEN Start ELSE IF v = NoPage THEN NoPage ELSE next[v]
           G == [n \in 1..N |-> [v \in V |-> Step(n, v)]]
           Def(f) == f = [n \in 1..N |-> IF n = 1 THEN Start
                                         ELSE IF f[n - 1] = NoPage THEN NoPage
                                         ELSE next[f[n - 1]]]
<1>1. N \in Nat /\ 1 \in 1..N /\ NoPage \in V /\ Start \in V
  BY CrawlAssumption
<1>2. \A n \in 1..N, v \in V : Step(n, v) \in V
  BY <1>1
<1>3. G \in [1..N -> [V -> V]]
  BY <1>2
<1> HIDE DEF N, V, G
<1>4. PICK h : Recursion(h, N, V, NoPage, G)
  BY <1>1, <1>3, PrefixRecursion
<1> DEFINE f == [n \in 1..N |-> h[n]]
<1>5. ASSUME NEW n \in 1..N
      PROVE  f[n] \in V /\ (n = 1 => f[n] = Start)
                        /\ (n # 1 => f[n] = Step(n, f[n - 1]))
  <2>1. h[n - 1] \in V /\ h[n] = G[n][h[n - 1]]
    BY <1>1, <1>4 DEF Recursion
  <2>2. h[n] = Step(n, h[n - 1])
    BY <2>1 DEF G
  <2>3. n # 1 => n - 1 \in 1..N
    BY <1>1
  <2> QED
    BY <1>2, <2>1, <2>2, <2>3
<1>6. Def(f)
  <2>1. \A n \in 1..N : f[n] = IF n = 1 THEN Start
                               ELSE IF f[n - 1] = NoPage THEN NoPage
                               ELSE next[f[n - 1]]
    <3> HIDE DEF f
    <3> QED
      BY <1>5, Zenon
  <2>2. f = [n \in 1..N |-> f[n]]
    OBVIOUS
  <2> HIDE DEF f
  <2> QED
    BY <2>1, <2>2, Zenon
<1> HIDE DEF f
<1> DEFINE W == CHOOSE g : Def(g)
<1>7. Def(W)
  BY <1>6
<1>8. Along(next) = W
  BY DEF Along, N
<1> HIDE DEF W
<1>9. \A n \in 1..N : W[n] = IF n = 1 THEN Start
                             ELSE IF W[n - 1] = NoPage THEN NoPage
                             ELSE next[W[n - 1]]
  BY <1>7, Zenon
<1>10. W[1] = Start
  BY <1>1, <1>9, Zenon
<1>11. ASSUME NEW n \in 2..N
       PROVE  W[n] = IF W[n - 1] = NoPage THEN NoPage ELSE next[W[n - 1]]
  <2>1. n \in 1..N /\ n # 1
    BY <1>1
  <2> QED
    BY <1>9, <2>1, Zenon
<1> DEFINE S == {n \in 0..N : n = 0 \/ W[n] \in V}
<1>12. 0 \in S
  BY <1>1
<1>13. ASSUME NEW n \in 1..N, n - 1 \in S PROVE n \in S
  <2>1. n \in 0..N
    BY <1>1
  <2>2. CASE n = 1
    BY <1>1, <1>10, <2>1, <2>2
  <2>3. CASE n # 1
    <3>1. n \in 2..N /\ W[n - 1] \in V
      BY <1>1, <1>13, <2>3
    <3>2. \A v \in V : v = NoPage \/ next[v] \in V
      BY DEF V
    <3> QED
      BY <1>1, <1>11, <2>1, <3>1, <3>2
  <2> QED
    BY <2>2, <2>3
<1>14. 0..N \subseteq S
  <2> HIDE DEF S
  <2> QED
    BY <1>1, <1>12, <1>13, RangeInduction
<1>15. \A n \in 1..N : W[n] \in V
  BY <1>1, <1>14
<1> QED
  BY <1>8, <1>10, <1>11, <1>15 DEF Walk, N, V

\* A walk that has ended goes no further.
LEMMA WalkEnds ==
  ASSUME NEW W, NEW next, Walk(W, next), NEW p \in 1..MaxPages,
         p < MaxPages => W[p + 1] = NoPage
  PROVE  \A n \in (p + 1)..MaxPages : W[n] = NoPage
<1>1. MaxPages \in Nat
  BY CrawlAssumption
<1> DEFINE S == {n \in 0..MaxPages : n > p => W[n] = NoPage}
<1>2. 0 \in S
  BY <1>1
<1>3. ASSUME NEW n \in 1..MaxPages, n - 1 \in S PROVE n \in S
  <2>1. CASE n <= p
    BY <1>1, <2>1
  <2>2. CASE n = p + 1
    BY <1>1, <2>2
  <2>3. CASE n > p + 1
    <3>1. n \in 2..MaxPages /\ W[n - 1] = NoPage /\ n \in 0..MaxPages
      BY <1>1, <1>3, <2>3
    <3> QED
      BY <3>1 DEF Walk
  <2> QED
    BY <1>1, <2>1, <2>2, <2>3
<1>4. 0..MaxPages \subseteq S
  <2> HIDE DEF S
  <2> QED
    BY <1>1, <1>2, <1>3, RangeInduction
<1> QED
  BY <1>1, <1>4

\* What is made of a page has its items in order, without those that lack the
\* title.
Good == {"full", "partial"}

LEMMA ExtractedType ==
  ASSUME NEW p \in Page, listing[p] \in Seq(Item)
  PROVE  Extracted(p) \in Seq(Page \X Good)
<1> DEFINE items == listing[p]
           I == {i \in DOMAIN items : items[i] # "untitled"}
           titled == Picked(items, I)
<1>1. Len(items) \in Nat /\ \A n \in 1..Len(items) : n \in I => items[n] \in Good
  BY DEF Item, Good
<1> HIDE DEF items, I
<1>2. titled \in Seq(Good)
  BY <1>1, PickedType
<1>3. Extracted(p) = [i \in DOMAIN titled |-> <<p, titled[i]>>]
  BY DEF Extracted, items, I
<1> HIDE DEF titled
<1>4. DOMAIN titled = 1..Len(titled) /\ Len(titled) \in Nat
  BY <1>2
<1>5. \A i \in 1..Len(titled) : <<p, titled[i]>> \in Page \X Good
  BY <1>2
<1>6. Extracted(p) \in [1..Len(titled) -> Page \X Good]
  BY <1>3, <1>4, <1>5
<1> QED
  BY <1>4, <1>6

LEMMA ValidatedType ==
  ASSUME NEW rs \in Seq(Page \X Good)
  PROVE  Validated(rs) \in Seq(Page \X Good)
<1> DEFINE I == {i \in DOMAIN rs : rs[i][2] = "full"}
<1>1. Len(rs) \in Nat /\ \A n \in 1..Len(rs) : n \in I => rs[n] \in Page \X Good
  OBVIOUS
<1> HIDE DEF I
<1>2. Picked(rs, I) \in Seq(Page \X Good)
  BY <1>1, PickedType
<1> QED
  BY <1>2 DEF Validated, I

\* The valid records of two lists are those of the one and those of the other.
LEMMA ValidatedConcat ==
  ASSUME NEW rs \in Seq(Page \X Good), NEW qs \in Seq(Page \X Good)
  PROVE  Validated(Cat(rs, qs)) = Cat(Validated(rs), Validated(qs))
<1> DEFINE A == {i \in DOMAIN rs : rs[i][2] = "full"}
           B == {i \in DOMAIN qs : qs[i][2] = "full"}
           C == {i \in DOMAIN Cat(rs, qs) : Cat(rs, qs)[i][2] = "full"}
<1>1. /\ DOMAIN Cat(rs, qs) = 1..(Len(rs) + Len(qs))
      /\ \A n \in 1..Len(rs) : Cat(rs, qs)[n] = rs[n]
      /\ \A n \in 1..Len(qs) : Cat(rs, qs)[Len(rs) + n] = qs[n]
      /\ Len(rs) \in Nat /\ Len(qs) \in Nat
      /\ DOMAIN rs = 1..Len(rs) /\ DOMAIN qs = 1..Len(qs)
  BY DEF Cat
<1>2. \A n \in 1..Len(rs) : n \in C <=> n \in A
  <2> TAKE n \in 1..Len(rs)
  <2>1. n \in 1..(Len(rs) + Len(qs))
    BY <1>1
  <2> QED
    BY <1>1, <2>1
<1>3. \A n \in 1..Len(qs) : Len(rs) + n \in C <=> n \in B
  <2> TAKE n \in 1..Len(qs)
  <2>1. Len(rs) + n \in 1..(Len(rs) + Len(qs))
    BY <1>1
  <2> QED
    BY <1>1, <2>1
<1> HIDE DEF A, B, C
<1>4. Picked(Cat(rs, qs), C) = Cat(Picked(rs, A), Picked(qs, B))
  BY <1>2, <1>3, PickedConcat
<1> QED
  BY <1>4 DEF Validated, A, B, C

-------------------------------------------------------------------------------
(* Types.                                                                  *)

Typed ==
  /\ TypeOK
  /\ records \in [Crawl -> Seq(Page \X Good)]
  /\ reply = [c \in Call |-> reply[c]]

LEMMA TypedInit == Init => Typed
BY CrawlAssumption DEF Init, Typed, TypeOK, NoReply, Call, site

LEMMA ExtractedAlways ==
  ASSUME TypeOK, NEW p \in Page
  PROVE  Extracted(p) \in Seq(Page \X Good)
<1>1. listing[p] \in Seq(Item)
  BY CrawlAssumption DEF TypeOK
<1> QED
  BY <1>1, ExtractedType

\* What one call may change of the program's state, and that the site stays.
Others(c) ==
  /\ UNCHANGED site
  /\ \A d \in Call \ {c} : at'[d] = at[d] /\ reply'[d] = reply[d]
  /\ \A d \in Crawl \ {c} : /\ url'[d] = url[d] /\ page'[d] = page[d]
                            /\ records'[d] = records[d] /\ broke'[d] = broke[d]

LEMMA GotoType ==
  ASSUME TypeOK, NEW c \in Call, NEW step \in {"fetch", "sleep", "done"}, Goto(c, step)
  PROVE  /\ at' \in [Call -> {"idle", "fetch", "sleep", "awake", "done"}]
         /\ at'[c] = step /\ \A d \in Call \ {c} : at'[d] = at[d]
BY DEF TypeOK, Goto

LEMMA AnswerType ==
  ASSUME Typed, NEW c \in Crawl, NEW rs \in Seq(Page \X Good), Answer(c, rs)
  PROVE  /\ at' \in [Call -> {"idle", "fetch", "sleep", "awake", "done"}]
         /\ at'[c] = "done" /\ \A d \in Call \ {c} : at'[d] = at[d]
         /\ records' \in [Crawl -> Seq(Page \X Good)]
         /\ records'[c] = rs /\ \A d \in Crawl \ {c} : records'[d] = records[d]
         /\ reply' = [d \in Call |-> reply'[d]]
         /\ reply'[c] = [status |-> "success", records |-> Validated(rs)]
         /\ \A d \in Call \ {c} : reply'[d] = reply[d]
         /\ \A d \in Call : reply'[d].status \in {"none", "analysed", "success", "failed"}
<1>1. c \in Call /\ TypeOK
  BY DEF Call, Typed
<1>2. Goto(c, "done")
  BY DEF Answer
<1>3. records' = [records EXCEPT ![c] = rs]
  BY DEF Answer
<1> DEFINE answer == [status |-> "success", records |-> Validated(rs)]
<1>4. reply' = [reply EXCEPT ![c] = answer] /\ answer.status = "success"
  BY DEF Answer
<1> HIDE DEF answer
<1>5. /\ reply' = [d \in Call |-> reply'[d]] /\ reply'[c] = answer
      /\ \A d \in Call \ {c} : reply'[d] = reply[d]
      /\ \A d \in Call : reply'[d].status \in {"none", "analysed", "success", "failed"}
  BY <1>1, <1>4 DEF Typed, TypeOK
<1>6. /\ at' \in [Call -> {"idle", "fetch", "sleep", "awake", "done"}]
      /\ at'[c] = "done" /\ \A d \in Call \ {c} : at'[d] = at[d]
  BY <1>1, <1>2, GotoType
<1>7. /\ records' \in [Crawl -> Seq(Page \X Good)] /\ records'[c] = rs
      /\ \A d \in Crawl \ {c} : records'[d] = records[d]
  BY <1>3 DEF Typed
<1> QED
  BY <1>5, <1>6, <1>7 DEF answer

\* A get that goes out starts a new count of redirects.
LEMMA SendType ==
  ASSUME TypeOK, NEW c \in Call, Send(c)
  PROVE  /\ at' \in [Call -> {"idle", "fetch", "sleep", "awake", "done"}]
         /\ at'[c] = "fetch" /\ \A d \in Call \ {c} : at'[d] = at[d]
         /\ gets' \in [Call -> Nat] /\ gets'[c] = gets[c] + 1
         /\ \A d \in Call \ {c} : gets'[d] = gets[d]
<1>1. Goto(c, "fetch") /\ gets' = [gets EXCEPT ![c] = @ + 1]
  BY CrawlAssumption DEF Send
<1>2. gets \in [Call -> Nat]
  BY DEF TypeOK
<1> QED
  BY <1>1, <1>2, GotoType

\* The lists a crawl has after a page.
LEMMA NextRecords ==
  ASSUME Typed, NEW c \in Crawl
  PROVE  /\ records[c] \in Seq(Page \X Good) /\ url[c] \in Page
         /\ Extracted(url[c]) \in Seq(Page \X Good)
         /\ records[c] \o Extracted(url[c]) = Cat(records[c], Extracted(url[c]))
         /\ Cat(records[c], Extracted(url[c])) \in Seq(Page \X Good)
<1>1. records[c] \in Seq(Page \X Good) /\ url[c] \in Page
  BY DEF Typed, TypeOK
<1>2. Extracted(url[c]) \in Seq(Page \X Good)
  BY <1>1, ExtractedAlways DEF Typed
<1>3. Cat(records[c], Extracted(url[c])) \in Seq(Page \X Good)
  BY <1>1, <1>2 DEF Cat
<1> QED
  BY <1>1, <1>2, <1>3 DEF Cat

\* The parts of a state's type.
Loop ==
  /\ link \in [Page -> Page \cup {NoPage}] /\ listing \in [Page -> Listings]
  /\ url \in [Crawl -> Page]
  /\ page \in [Crawl -> 0..MaxPages]
  /\ broke \in [Crawl -> BOOLEAN]
  /\ gets \in [Call -> Nat]

Control == at \in [Call -> {"idle", "fetch", "sleep", "awake", "done"}]

Kept == records \in [Crawl -> Seq(Page \X Good)]

Replies ==
  /\ reply = [c \in Call |-> reply[c]]
  /\ \A c \in Call : reply[c].status \in {"none", "analysed", "success", "failed"}

LEMMA TypedParts == Typed <=> Loop /\ Control /\ Kept /\ Replies
<1>1. Typed => Loop /\ Control /\ Kept /\ Replies
  BY DEF Typed, TypeOK, Loop, Control, Kept, Replies
<1>2. ASSUME Kept, NEW c \in Crawl, NEW i \in DOMAIN records[c]
      PROVE  records[c][i] \in Page \X {"full", "partial"}
  <2>1. records[c] \in Seq(Page \X Good)
    BY <1>2 DEF Kept
  <2> QED
    BY <2>1 DEF Good
<1>3. Loop /\ Control /\ Kept /\ Replies => Typed
  BY <1>2 DEF Typed, TypeOK, Loop, Control, Kept, Replies
<1> QED
  BY <1>1, <1>3

LEMMA TypedNext == Typed /\ [Next]_vars => Typed'
<1> SUFFICES ASSUME Typed, [Next]_vars PROVE Typed'
  OBVIOUS
<1>1. Typed' <=> Loop' /\ Control' /\ Kept' /\ Replies'
  BY TypedParts, PTL
<1>2. Loop /\ Control /\ Kept /\ Replies /\ TypeOK
  BY TypedParts DEF Typed
<1>3. MaxPages \in Nat \ {0} /\ Crawl \subseteq Call /\ Analysis \subseteq Call
  BY CrawlAssumption DEF Call
<1>4. UNCHANGED reply => Replies'
  BY <1>2 DEF Replies
<1>5. UNCHANGED records => Kept'
  BY <1>2 DEF Kept
<1>6. ASSUME NEW c \in Analysis, Analyze(c) PROVE Typed'
  <2>1. Send(c) /\ UNCHANGED <<site, url, page, records, broke, reply>>
    BY <1>6 DEF Analyze
  <2>2. Control' /\ Loop'
    BY <1>2, <1>3, <2>1, SendType DEF Control, Loop, site
  <2> QED
    BY <1>1, <1>4, <1>5, <2>1, <2>2
<1>7. ASSUME NEW c \in Analysis, Analyzed(c) PROVE Typed'
  <2>1. Goto(c, "done") /\ UNCHANGED <<site, url, page, records, broke, gets>>
    BY <1>7 DEF Analyzed
  <2>2. PICK a : a.status = "analysed" /\ reply' = [reply EXCEPT ![c] = a]
    BY <1>7 DEF Analyzed
  <2>3. Replies'
    BY <1>2, <1>3, <2>2 DEF Replies
  <2>4. Control' /\ Loop'
    BY <1>2, <1>3, <2>1, GotoType DEF Control, Loop, site
  <2> QED
    BY <1>1, <1>5, <2>1, <2>3, <2>4
<1>8. ASSUME NEW c \in Crawl, Execute(c) PROVE Typed'
  <2>1. Send(c) /\ page' = [page EXCEPT ![c] = 1]
        /\ UNCHANGED <<site, url, records, broke, reply>>
    BY <1>8 DEF Execute
  <2>2. Control' /\ Loop'
    BY <1>2, <1>3, <2>1, SendType DEF Control, Loop, site
  <2> QED
    BY <1>1, <1>4, <1>5, <2>1, <2>2
<1>9. ASSUME NEW c \in Crawl, NEW rs \in Seq(Page \X Good), Answer(c, rs)
      PROVE  Control' /\ Kept' /\ Replies'
  BY <1>9, AnswerType DEF Control, Kept, Replies
<1>10. ASSUME NEW c \in Crawl, Fetched(c) PROVE Typed'
  <2> DEFINE rs == Cat(records[c], Extracted(url[c]))
  <2>1. rs \in Seq(Page \X Good) /\ url[c] \in Page
        /\ records[c] \o Extracted(url[c]) = rs
    BY NextRecords
  <2>2. UNCHANGED <<site, page, broke, gets>>
    BY <1>10 DEF Fetched
  <2>3. CASE link[url[c]] = NoPage
    <3>1. Answer(c, rs) /\ UNCHANGED url
      BY <1>10, <2>1, <2>3 DEF Fetched
    <3>2. Loop'
      BY <1>2, <2>2, <3>1 DEF Loop, site
    <3> QED
      BY <1>1, <1>9, <2>1, <3>1, <3>2
  <2>4. CASE link[url[c]] # NoPage
    <3> HIDE DEF rs
    <3>1. /\ Goto(c, "sleep") /\ UNCHANGED reply
          /\ records' = [records EXCEPT ![c] = rs]
          /\ url' = [url EXCEPT ![c] = link[url[c]]]
      BY <1>10, <2>1, <2>4 DEF Fetched
    <3>2. link[url[c]] \in Page
      BY <1>2, <2>1, <2>4 DEF Loop
    <3>3. Loop' /\ Kept'
      BY <1>2, <2>1, <2>2, <3>1, <3>2 DEF Loop, Kept, site
    <3>4. Control'
      BY <1>2, <1>3, <3>1, GotoType DEF Control
    <3> QED
      BY <1>1, <1>4, <3>1, <3>3, <3>4
  <2> QED
    BY <2>3, <2>4
<1>11. ASSUME NEW c \in Crawl, FetchFails(c) PROVE Typed'
  <2> DEFINE rs == Cat(records[c], Extracted(url[c]))
  <2>1. rs \in Seq(Page \X Good) /\ records[c] \in Seq(Page \X Good)
        /\ records[c] \o Extracted(url[c]) = rs
    BY NextRecords
  <2> HIDE DEF rs
  <2>2. /\ UNCHANGED <<site, url, page, gets>>
        /\ broke' = [broke EXCEPT ![c] = TRUE]
        /\ Answer(c, records[c]) \/ Answer(c, rs)
    BY <1>11, <2>1 DEF FetchFails
  <2>3. Loop'
    BY <1>2, <2>2 DEF Loop, site
  <2> QED
    BY <1>1, <1>9, <2>1, <2>2, <2>3
<1>12. ASSUME NEW c \in Crawl, Continue(c) PROVE Typed'
  <2>1. UNCHANGED <<site, url, broke>> /\ records[c] \in Seq(Page \X Good)
    BY <1>2, <1>12 DEF Continue, Kept
  <2>2. CASE page[c] < MaxPages
    <3>1. Send(c) /\ page' = [page EXCEPT ![c] = @ + 1] /\ UNCHANGED <<records, reply>>
      BY <1>12, <2>2 DEF Continue
    <3>2. page[c] + 1 \in 0..MaxPages
      BY <1>2, <1>3, <2>2 DEF Loop
    <3>3. Loop'
      BY <1>2, <1>3, <2>1, <3>1, <3>2, SendType DEF Loop, site
    <3>4. Control'
      BY <1>2, <1>3, <3>1, SendType DEF Control
    <3> QED
      BY <1>1, <1>4, <1>5, <3>1, <3>3, <3>4
  <2>3. CASE ~(page[c] < MaxPages)
    <3>1. Answer(c, records[c]) /\ UNCHANGED <<page, gets>>
      BY <1>12, <2>3 DEF Continue
    <3>2. Loop'
      BY <1>2, <2>1, <3>1 DEF Loop, site
    <3> QED
      BY <1>1, <1>9, <2>1, <3>1, <3>2
  <2> QED
    BY <2>2, <2>3
<1>13. ASSUME Tick PROVE Typed'
  <2>1. /\ at' = [c \in Call |-> IF at[c] = "sleep" THEN "awake" ELSE at[c]]
        /\ gets' = [c \in Call |-> 0]
        /\ UNCHANGED <<site, url, page, records, broke, reply>>
    BY <1>13 DEF Tick
  <2>2. Control' /\ Loop'
    BY <1>2, <2>1 DEF Control, Loop, site
  <2> QED
    BY <1>1, <1>4, <1>5, <2>1, <2>2
<1>14. ASSUME UNCHANGED vars PROVE Typed'
  <2>1. Control' /\ Loop'
    BY <1>2, <1>14 DEF Control, Loop, vars, site
  <2> QED
    BY <1>1, <1>4, <1>5, <1>14, <2>1 DEF vars
<1>15. ASSUME NEW c \in Crawl, ExecuteFails(c) PROVE Typed'
  <2>1. Goto(c, "done") /\ UNCHANGED <<site, url, page, records, broke, gets>>
    BY <1>15 DEF ExecuteFails
  <2>2. PICK a : a.status = "failed" /\ reply' = [reply EXCEPT ![c] = a]
    BY <1>15 DEF ExecuteFails
  <2>3. Replies'
    BY <1>2, <1>3, <2>2 DEF Replies
  <2>4. Control' /\ Loop'
    BY <1>2, <1>3, <2>1, GotoType DEF Control, Loop, site
  <2> QED
    BY <1>1, <1>5, <2>1, <2>3, <2>4
<1>16. ASSUME NEW c \in Call, Redirected(c) PROVE Typed'
  <2>1. /\ UNCHANGED <<site, at, url, page, records, broke, reply>>
        /\ gets' = [gets EXCEPT ![c] = IF @ = 0 THEN 1 ELSE @]
    BY <1>16 DEF Redirected
  <2>2. Control' /\ Loop'
    BY <1>2, <2>1 DEF Control, Loop, site
  <2> QED
    BY <1>1, <1>4, <1>5, <2>1, <2>2
<1> QED
  BY <1>6, <1>7, <1>8, <1>10, <1>11, <1>12, <1>13, <1>14, <1>15, <1>16 DEF Next, Steps

LEMMA TypedAlways == Spec => []Typed
BY TypedInit, TypedNext, PTL DEF Spec

\* Every crawl is on a page of the site and within its page limit, and what it
\* has collected are records of pages.
THEOREM CrawlTypeCorrect == Spec => []TypeOK
<1>1. Typed => TypeOK
  BY DEF Typed
<1> QED
  BY <1>1, TypedAlways, PTL

-------------------------------------------------------------------------------
(* The pace.                                                               *)

\* All that a call sent in this window belongs to its last get, and who has not
\* begun or has just woken has sent nothing.
PaceKept(c) ==
  /\ gets[c] <= 1
  /\ at[c] \in {"idle", "awake"} => gets[c] = 0

KeepsPace == \A c \in Call : PaceKept(c)

LEMMA KeepsPaceInit == Init => KeepsPace
BY DEF Init, KeepsPace, PaceKept

LEMMA KeepsPaceNext == Typed /\ KeepsPace /\ [Next]_vars => KeepsPace'
<1> SUFFICES ASSUME Typed, KeepsPace, [Next]_vars PROVE KeepsPace'
  OBVIOUS
<1>1. TypeOK /\ Crawl \subseteq Call /\ Analysis \subseteq Call
  BY CrawlAssumption DEF Typed, Call
<1>2. gets \in [Call -> Nat] /\ \A c \in Call : gets[c] \in Nat
  BY <1>1 DEF TypeOK
<1>3. \A c \in Call : PaceKept(c)
  BY DEF KeepsPace
<1>4. ASSUME NEW c \in Call, Send(c), at[c] \in {"idle", "awake"} PROVE KeepsPace'
  <2>1. /\ at'[c] = "fetch" /\ gets'[c] = gets[c] + 1
        /\ \A d \in Call \ {c} : at'[d] = at[d] /\ gets'[d] = gets[d]
    BY <1>1, <1>4, SendType
  <2>2. gets[c] = 0
    BY <1>3, <1>4 DEF PaceKept
  <2>3. PaceKept(c)'
    BY <2>1, <2>2 DEF PaceKept
  <2>4. ASSUME NEW d \in Call \ {c} PROVE PaceKept(d)'
    BY <1>3, <2>1, <2>4 DEF PaceKept
  <2> QED
    BY <2>3, <2>4 DEF KeepsPace
<1>5. ASSUME NEW c \in Call, NEW step \in {"sleep", "done"}, Goto(c, step),
             UNCHANGED gets
      PROVE  KeepsPace'
  <2>1. at'[c] = step /\ \A d \in Call \ {c} : at'[d] = at[d]
    BY <1>1, <1>5, GotoType
  <2>2. ASSUME NEW d \in Call PROVE PaceKept(d)'
    BY <1>3, <1>5, <2>1 DEF PaceKept
  <2> QED
    BY <2>2 DEF KeepsPace
<1>6. ASSUME NEW c \in Analysis, Analyze(c) \/ Analyzed(c) PROVE KeepsPace'
  BY <1>1, <1>4, <1>5, <1>6 DEF Analyze, Analyzed
<1>7. ASSUME NEW c \in Crawl, Execute(c) \/ ExecuteFails(c) PROVE KeepsPace'
  BY <1>1, <1>4, <1>5, <1>7 DEF Execute, ExecuteFails
<1>8. ASSUME NEW c \in Crawl, Fetched(c) \/ FetchFails(c) PROVE KeepsPace'
  <2>1. (Goto(c, "sleep") \/ Goto(c, "done")) /\ UNCHANGED gets
    BY <1>8 DEF Fetched, FetchFails, Answer
  <2> QED
    BY <1>1, <1>5, <2>1
<1>9. ASSUME NEW c \in Crawl, Continue(c) PROVE KeepsPace'
  <2>1. at[c] = "awake" /\ (Send(c) \/ (Goto(c, "done") /\ UNCHANGED gets))
    BY <1>9 DEF Continue, Answer
  <2> QED
    BY <1>1, <1>4, <1>5, <2>1
<1>10. ASSUME NEW c \in Call, Redirected(c) PROVE KeepsPace'
  <2>1. /\ at[c] = "fetch" /\ at' = at
        /\ gets' = [gets EXCEPT ![c] = IF @ = 0 THEN 1 ELSE @]
    BY <1>10 DEF Redirected
  <2>2. gets'[c] = IF gets[c] = 0 THEN 1 ELSE gets[c]
    BY <1>2, <2>1
  <2>3. \A d \in Call \ {c} : gets'[d] = gets[d]
    BY <1>2, <2>1
  <2>4. PaceKept(c)'
    BY <1>2, <1>3, <2>1, <2>2 DEF PaceKept
  <2>5. ASSUME NEW d \in Call \ {c} PROVE PaceKept(d)'
    BY <1>3, <2>1, <2>3 DEF PaceKept
  <2> QED
    BY <2>4, <2>5 DEF KeepsPace
<1>11. ASSUME Tick PROVE KeepsPace'
  <2>1. \A c \in Call : gets'[c] = 0
    BY <1>11 DEF Tick
  <2> QED
    BY <1>2, <2>1 DEF KeepsPace, PaceKept
<1>12. ASSUME UNCHANGED vars PROVE KeepsPace'
  BY <1>3, <1>12 DEF vars, KeepsPace, PaceKept
<1> QED
  BY <1>6, <1>7, <1>8, <1>9, <1>10, <1>11, <1>12 DEF Next, Steps

\* A pause lies between any two pages of a call: all that it sends the site in
\* one window belongs to one get, the request and the redirects it followed,
\* for any number of redirects, of pages and of other calls.
THEOREM EachKeepsPaceAlways == Spec => []EachKeepsPace
<1>1. KeepsPace => EachKeepsPace
  BY DEF KeepsPace, PaceKept, EachKeepsPace
<1> QED
  BY <1>1, TypedAlways, KeepsPaceInit, KeepsPaceNext, PTL DEF Spec

-------------------------------------------------------------------------------
(* The records along the links.                                            *)

Piece(n) == IF Nth[n] = NoPage THEN <<>> ELSE Validated(Extracted(Nth[n]))

Pieces == [n \in 1..MaxPages |-> Piece(n)]

\* The answer a crawl would give after each number of pages.
LEMMA PagesSoFar ==
  ASSUME Typed
  PROVE  /\ Walk(Nth, link)
         /\ Joins(FirstPages, Page \X Good, Pieces)
         /\ Len(Pieces) = MaxPages
<1>1. link \in [Page -> Page \cup {NoPage}] /\ TypeOK
  BY DEF Typed, TypeOK
<1>2. Walk(Nth, link)
  BY <1>1, AlongWalks DEF Nth
<1>3. MaxPages \in Nat
  BY CrawlAssumption
<1>4. ASSUME NEW n \in 1..MaxPages PROVE Piece(n) \in Seq(Page \X Good)
  <2>1. CASE Nth[n] = NoPage
    BY <2>1 DEF Piece
  <2>2. CASE Nth[n] # NoPage
    <3>1. Nth[n] \in Page
      BY <1>2, <2>2 DEF Walk
    <3>2. Extracted(Nth[n]) \in Seq(Page \X Good)
      BY <1>1, <3>1, ExtractedAlways
    <3> QED
      BY <2>2, <3>2, ValidatedType DEF Piece
  <2> QED
    BY <2>1, <2>2
<1>5. Len(Pieces) = MaxPages /\ \A n \in 1..MaxPages : Pieces[n] = Piece(n)
  BY <1>3 DEF Pieces
<1>6. FirstPages = Joined(Pieces)
  BY DEF FirstPages, Pieces, Piece
<1>7. Joins(Joined(Pieces), Page \X Good, Pieces)
  BY <1>3, <1>4, <1>5, JoinedPrefixes
<1> QED
  BY <1>2, <1>5, <1>6, <1>7

LEMMA SiteStays ==
  ASSUME UNCHANGED site
  PROVE  /\ UNCHANGED <<link, listing, Nth, FirstPages>>
         /\ \A p : Extracted(p)' = Extracted(p)
<1>1. link' = link /\ listing' = listing
  BY DEF site
<1>2. Nth' = Nth
  BY <1>1 DEF Nth
<1>3. \A p : Extracted(p)' = Extracted(p)
  BY <1>1 DEF Extracted
<1>4. \A n : Piece(n)' = Piece(n)
  BY <1>2, <1>3 DEF Piece
<1>5. Pieces' = Pieces
  BY <1>4 DEF Pieces
<1>6. FirstPages = Joined(Pieces) /\ FirstPages' = Joined(Pieces')
  BY DEF FirstPages, Pieces, Piece
<1> QED
  BY <1>1, <1>2, <1>3, <1>5, <1>6

\* Where a crawl is when it is about to fetch its next page, when it has got it,
\* and when it is over.
Waiting(c) == page[c] = 0 /\ url[c] = Start /\ records[c] = <<>> /\ ~broke[c]

Fetching(c) ==
  /\ page[c] \in 1..MaxPages
  /\ Nth[page[c]] = url[c]
  /\ Validated(records[c]) = FirstPages[page[c] - 1]
  /\ ~broke[c]

Pausing(c) ==
  /\ page[c] \in 1..MaxPages
  /\ page[c] < MaxPages => Nth[page[c] + 1] = url[c]
  /\ Validated(records[c]) = FirstPages[page[c]]
  /\ ~broke[c]

Over(c) ==
  IF broke[c]
    THEN \E n \in {page[c] - 1, page[c]} : reply[c].records = FirstPages[n]
    ELSE reply[c].records = FirstPages[MaxPages]

OnItsWay(c) ==
  /\ at[c] = "idle" => Waiting(c)
  /\ at[c] = "fetch" => Fetching(c)
  /\ at[c] \in {"sleep", "awake"} => Pausing(c)
  /\ at[c] = "done" /\ reply[c].status = "success" => Over(c)

CrawlInv == \A c \in Crawl : OnItsWay(c)

LEMMA CrawlInvInit == Init => CrawlInv
BY DEF Init, CrawlInv, OnItsWay, Waiting, Call

\* Who takes no step, and at most wakes, stays on its way.
LEMMA OthersStay ==
  ASSUME NEW c \in Crawl, OnItsWay(c), UNCHANGED site,
         at'[c] = at[c] \/ (at[c] = "sleep" /\ at'[c] = "awake"),
         url'[c] = url[c], page'[c] = page[c], records'[c] = records[c],
         broke'[c] = broke[c], reply'[c] = reply[c]
  PROVE  OnItsWay(c)'
<1>1. Nth' = Nth /\ FirstPages' = FirstPages
  BY SiteStays
<1>2. Waiting(c)' <=> Waiting(c)
  BY DEF Waiting
<1>3. Fetching(c)' <=> Fetching(c)
  BY <1>1 DEF Fetching
<1>4. Pausing(c)' <=> Pausing(c)
  BY <1>1 DEF Pausing
<1>5. Over(c)' <=> Over(c)
  BY <1>1 DEF Over
<1> QED
  BY <1>2, <1>3, <1>4, <1>5 DEF OnItsWay

\* The page a crawl has got belongs to those so far.
LEMMA PageCollected ==
  ASSUME Typed, NEW c \in Crawl, Fetching(c)
  PROVE  /\ Validated(Cat(records[c], Extracted(url[c]))) = FirstPages[page[c]]
         /\ Nth[page[c]] \in Page
         /\ page[c] < MaxPages => Nth[page[c] + 1] = link[url[c]]
<1>1. /\ Walk(Nth, link) /\ Joins(FirstPages, Page \X Good, Pieces)
      /\ Len(Pieces) = MaxPages
  BY PagesSoFar
<1>2. /\ records[c] \in Seq(Page \X Good) /\ url[c] \in Page
      /\ Extracted(url[c]) \in Seq(Page \X Good)
  BY NextRecords
<1>3. /\ page[c] \in 1..MaxPages /\ Nth[page[c]] = url[c]
      /\ Validated(records[c]) = FirstPages[page[c] - 1]
  BY DEF Fetching
<1>4. url[c] # NoPage /\ MaxPages \in Nat
  BY <1>2, CrawlAssumption
<1>5. Pieces[page[c]] = Validated(Extracted(url[c]))
  BY <1>3, <1>4 DEF Pieces, Piece
<1>6. FirstPages[page[c]] = Cat(FirstPages[page[c] - 1], Pieces[page[c]])
  BY <1>1, <1>3 DEF Joins
<1>7. Validated(Cat(records[c], Extracted(url[c])))
        = Cat(Validated(records[c]), Validated(Extracted(url[c])))
  BY <1>2, ValidatedConcat
<1>8. Validated(Cat(records[c], Extracted(url[c]))) = FirstPages[page[c]]
  BY <1>3, <1>5, <1>6, <1>7
<1>9. ASSUME page[c] < MaxPages PROVE Nth[page[c] + 1] = link[url[c]]
  <2>1. page[c] + 1 \in 2..MaxPages /\ (page[c] + 1) - 1 = page[c]
    BY <1>3, <1>4, <1>9
  <2> QED
    BY <1>1, <1>3, <1>4, <2>1 DEF Walk
<1> QED
  BY <1>2, <1>3, <1>8, <1>9

\* Where the links end, there is nothing more to collect.
LEMMA NothingMore ==
  ASSUME Typed, NEW p \in 1..MaxPages, p < MaxPages => Nth[p + 1] = NoPage
  PROVE  FirstPages[p] = FirstPages[MaxPages]
<1>1. /\ Walk(Nth, link) /\ Joins(FirstPages, Page \X Good, Pieces)
      /\ Len(Pieces) = MaxPages
  BY PagesSoFar
<1>2. MaxPages \in Nat
  BY CrawlAssumption
<1>3. \A n \in (p + 1)..MaxPages : Nth[n] = NoPage
  BY <1>1, WalkEnds
<1>4. ASSUME NEW n \in (p + 1)..MaxPages PROVE FirstPages[n] = FirstPages[n - 1]
  <2>1. n \in 1..MaxPages /\ n - 1 \in 0..MaxPages
    BY <1>2
  <2>2. Pieces[n] = <<>>
    BY <1>3, <2>1 DEF Pieces, Piece
  <2>3. FirstPages[n - 1] \in Seq(Page \X Good)
    BY <1>1, <2>1 DEF Joins
  <2>4. FirstPages[n] = Cat(FirstPages[n - 1], <<>>)
    BY <1>1, <2>1, <2>2 DEF Joins, Cat
  <2> QED
    BY <2>3, <2>4, EmptyTail
<1> DEFINE S == {n \in 0..MaxPages : n >= p => FirstPages[n] = FirstPages[p]}
<1>5. 0 \in S
  BY <1>2
<1>6. ASSUME NEW n \in 1..MaxPages, n - 1 \in S PROVE n \in S
  <2>1. n \in 0..MaxPages
    BY <1>2
  <2>2. CASE n > p
    <3>1. n \in (p + 1)..MaxPages /\ n - 1 >= p
      BY <1>2, <2>2
    <3> QED
      BY <1>4, <1>6, <2>1, <3>1
  <2>3. CASE n <= p
    BY <1>2, <2>1, <2>3
  <2> QED
    BY <1>2, <2>2, <2>3
<1>7. 0..MaxPages \subseteq S
  <2> HIDE DEF S
  <2> QED
    BY <1>2, <1>5, <1>6, RangeInduction
<1> QED
  BY <1>2, <1>7

LEMMA CrawlInvNext == Typed /\ CrawlInv /\ [Next]_vars => CrawlInv'
<1> SUFFICES ASSUME Typed, CrawlInv, [Next]_vars PROVE CrawlInv'
  OBVIOUS
<1>1. Loop /\ Control /\ Kept /\ Replies /\ TypeOK
  BY TypedParts DEF Typed
<1>2. MaxPages \in Nat \ {0} /\ Crawl \subseteq Call /\ Analysis \cap Crawl = {}
  BY CrawlAssumption DEF Call
<1>3. \A c \in Crawl : OnItsWay(c)
  BY DEF CrawlInv
\* One crawl steps and the others do not.
<1>4. ASSUME NEW c \in Crawl, OnItsWay(c)', Others(c) PROVE CrawlInv'
  <2>1. ASSUME NEW d \in Crawl \ {c} PROVE OnItsWay(d)'
    BY <1>2, <1>3, <1>4, OthersStay DEF Others
  <2> QED
    BY <1>4, <2>1 DEF CrawlInv
<1>5. ASSUME NEW c \in Analysis, Analyze(c) \/ Analyzed(c) PROVE CrawlInv'
  <2>1. UNCHANGED <<site, url, page, records, broke>>
    BY <1>5 DEF Analyze, Analyzed
  <2>2. \A d \in Crawl : at'[d] = at[d] /\ reply'[d] = reply[d]
    <3>1. c \in Call /\ \A d \in Crawl : d \in Call \ {c}
      BY <1>2 DEF Call
    <3>2. Goto(c, "fetch") \/ Goto(c, "done")
      BY <1>5 DEF Analyze, Analyzed, Send
    <3>3. UNCHANGED reply \/ \E a : reply' = [reply EXCEPT ![c] = a]
      BY <1>5 DEF Analyze, Analyzed
    <3>4. \A d \in Crawl : reply'[d] = reply[d]
      BY <1>1, <3>1, <3>3 DEF Replies
    <3> QED
      BY <1>1, <3>1, <3>2, <3>4, GotoType
  <2>3. ASSUME NEW d \in Crawl PROVE OnItsWay(d)'
    BY <1>3, <2>1, <2>2, OthersStay
  <2> QED
    BY <2>3 DEF CrawlInv
<1>12. ASSUME NEW c \in Crawl, ExecuteFails(c) PROVE CrawlInv'
  <2>1. /\ Goto(c, "done") /\ reply' = [reply EXCEPT ![c] = [status |-> "failed"]]
        /\ UNCHANGED <<site, url, page, records, broke>>
    BY <1>12 DEF ExecuteFails
  <2>2. at'[c] = "done" /\ \A d \in Call \ {c} : at'[d] = at[d]
    BY <1>1, <1>2, <2>1, GotoType
  <2>3. reply'[c].status = "failed" /\ \A d \in Call \ {c} : reply'[d] = reply[d]
    BY <1>1, <1>2, <2>1 DEF Replies
  <2>4. Others(c)
    BY <2>1, <2>2, <2>3 DEF Others
  <2>5. OnItsWay(c)'
    BY <2>2, <2>3 DEF OnItsWay
  <2> QED
    BY <1>4, <2>4, <2>5
<1>13. ASSUME NEW c \in Call, Redirected(c) PROVE CrawlInv'
  <2>1. UNCHANGED <<site, at, url, page, records, broke, reply>>
    BY <1>13 DEF Redirected
  <2>2. ASSUME NEW d \in Crawl PROVE OnItsWay(d)'
    BY <1>3, <2>1, OthersStay
  <2> QED
    BY <2>2 DEF CrawlInv
<1>6. ASSUME NEW c \in Crawl, Execute(c) PROVE CrawlInv'
  <2>1. /\ at[c] = "idle" /\ Goto(c, "fetch") /\ page' = [page EXCEPT ![c] = 1]
        /\ UNCHANGED <<site, url, records, broke, reply>>
    BY <1>6 DEF Execute, Send
  <2>2. at'[c] = "fetch" /\ \A d \in Call \ {c} : at'[d] = at[d]
    BY <1>1, <1>2, <2>1, GotoType
  <2>3. page'[c] = 1 /\ \A d \in Crawl \ {c} : page'[d] = page[d]
    BY <1>1, <2>1 DEF Loop
  <2>4. Others(c)
    BY <2>1, <2>2, <2>3 DEF Others
  <2>5. Nth[1] = Start /\ FirstPages[0] = <<>>
    BY PagesSoFar DEF Walk, Joins
  <2>6. Validated(<<>>) = <<>>
    <3> DEFINE I == {i \in DOMAIN <<>> : <<>>[i][2] = "full"}
    <3>1. Picked(<<>>, I) \in Seq({})
      <4>1. Len(<<>>) \in Nat /\ \A n \in 1..Len(<<>>) : n \in I => <<>>[n] \in {}
        OBVIOUS
      <4> HIDE DEF I
      <4> QED
        BY <4>1, PickedType
    <3> QED
      BY <3>1 DEF Validated
  <2>7. Fetching(c)'
    BY <1>2, <1>3, <2>1, <2>3, <2>5, <2>6, SiteStays DEF OnItsWay, Waiting, Fetching
  <2> QED
    BY <1>4, <2>2, <2>4, <2>7 DEF OnItsWay
\* An answer with the records of the pages so far.
<1>7. ASSUME NEW c \in Crawl, NEW rs \in Seq(Page \X Good), Answer(c, rs),
             UNCHANGED <<site, url, page>>, \A d \in Crawl \ {c} : broke'[d] = broke[d],
             IF broke'[c] THEN \E n \in {page[c] - 1, page[c]} : Validated(rs) = FirstPages[n]
             ELSE Validated(rs) = FirstPages[MaxPages]
      PROVE  CrawlInv'
  <2>1. /\ at'[c] = "done" /\ \A d \in Call \ {c} : at'[d] = at[d] /\ reply'[d] = reply[d]
        /\ \A d \in Crawl \ {c} : records'[d] = records[d]
    BY <1>7, AnswerType
  <2>2. reply'[c].records = Validated(rs)
    <3>1. reply'[c] = [status |-> "success", records |-> Validated(rs)]
      BY <1>7, AnswerType
    <3> QED
      BY <3>1
  <2>3. FirstPages' = FirstPages
    BY <1>7, SiteStays
  <2>4. Over(c)'
    BY <1>7, <2>1, <2>3, <2>2 DEF Over
  <2>5. Others(c)
    BY <1>7, <2>1 DEF Others
  <2> QED
    BY <1>4, <2>1, <2>4, <2>5 DEF OnItsWay
<1>8. ASSUME NEW c \in Crawl, Fetched(c) PROVE CrawlInv'
  <2> DEFINE rs == Cat(records[c], Extracted(url[c]))
  <2>1. /\ rs \in Seq(Page \X Good) /\ url[c] \in Page
        /\ records[c] \o Extracted(url[c]) = rs
    BY NextRecords
  <2>2. at[c] = "fetch" /\ UNCHANGED <<site, page, broke>>
    BY <1>8 DEF Fetched
  <2>3. Fetching(c)
    BY <1>3, <2>2 DEF OnItsWay
  <2>4. /\ Validated(rs) = FirstPages[page[c]]
        /\ page[c] < MaxPages => Nth[page[c] + 1] = link[url[c]]
        /\ page[c] \in 1..MaxPages /\ ~broke[c]
    BY <2>3, PageCollected DEF Fetching
  <2> HIDE DEF rs
  <2>5. CASE link[url[c]] = NoPage
    <3>1. Answer(c, rs) /\ UNCHANGED url
      BY <1>8, <2>1, <2>5 DEF Fetched
    <3>2. FirstPages[page[c]] = FirstPages[MaxPages]
      BY <2>4, <2>5, NothingMore
    <3> QED
      BY <1>7, <2>1, <2>2, <2>4, <3>1, <3>2
  <2>6. CASE link[url[c]] # NoPage
    <3>1. /\ Goto(c, "sleep") /\ UNCHANGED reply
          /\ records' = [records EXCEPT ![c] = rs]
          /\ url' = [url EXCEPT ![c] = link[url[c]]]
      BY <1>8, <2>1, <2>6 DEF Fetched
    <3>2. at'[c] = "sleep" /\ \A d \in Call \ {c} : at'[d] = at[d]
      BY <1>1, <1>2, <3>1, GotoType
    <3>3. /\ records'[c] = rs /\ url'[c] = link[url[c]]
          /\ \A d \in Crawl \ {c} : records'[d] = records[d] /\ url'[d] = url[d]
      BY <1>1, <3>1 DEF Loop, Kept
    <3>4. Others(c)
      BY <2>2, <3>1, <3>2, <3>3 DEF Others
    <3>5. Pausing(c)'
      BY <2>2, <2>4, <3>3, SiteStays DEF Pausing
    <3> QED
      BY <1>4, <3>2, <3>4, <3>5 DEF OnItsWay
  <2> QED
    BY <2>5, <2>6
<1>9. ASSUME NEW c \in Crawl, FetchFails(c) PROVE CrawlInv'
  <2> DEFINE rs == Cat(records[c], Extracted(url[c]))
  <2>1. /\ rs \in Seq(Page \X Good) /\ records[c] \in Seq(Page \X Good)
        /\ records[c] \o Extracted(url[c]) = rs
    BY NextRecords
  <2>2. at[c] = "fetch"
    BY <1>9 DEF FetchFails
  <2>3. Fetching(c)
    BY <1>3, <2>2 DEF OnItsWay
  <2>4. /\ Validated(rs) = FirstPages[page[c]]
        /\ Validated(records[c]) = FirstPages[page[c] - 1]
    BY <2>3, PageCollected DEF Fetching
  <2> HIDE DEF rs
  <2>5. /\ UNCHANGED <<site, url, page>>
        /\ broke' = [broke EXCEPT ![c] = TRUE]
        /\ Answer(c, records[c]) \/ Answer(c, rs)
    BY <1>9, <2>1 DEF FetchFails
  <2>6. broke'[c] /\ \A d \in Crawl \ {c} : broke'[d] = broke[d]
    BY <1>1, <2>5 DEF Loop
  <2> QED
    BY <1>7, <2>1, <2>4, <2>5, <2>6
<1>10. ASSUME NEW c \in Crawl, Continue(c) PROVE CrawlInv'
  <2>1. at[c] = "awake" /\ UNCHANGED <<site, url, broke>> /\ records[c] \in Seq(Page \X Good)
    BY <1>1, <1>10 DEF Continue, Kept
  <2>2. Pausing(c)
    BY <1>3, <2>1 DEF OnItsWay
  <2>3. CASE page[c] < MaxPages
    <3>1. /\ Goto(c, "fetch") /\ page' = [page EXCEPT ![c] = @ + 1]
          /\ UNCHANGED <<records, reply>>
      BY <1>10, <2>3 DEF Continue, Send
    <3>2. at'[c] = "fetch" /\ \A d \in Call \ {c} : at'[d] = at[d]
      BY <1>1, <1>2, <3>1, GotoType
    <3>3. page'[c] = page[c] + 1 /\ \A d \in Crawl \ {c} : page'[d] = page[d]
      BY <1>1, <3>1 DEF Loop
    <3>4. Others(c)
      BY <2>1, <3>1, <3>2, <3>3 DEF Others
    <3>5. /\ page[c] \in 1..MaxPages /\ page[c] + 1 \in 1..MaxPages
          /\ (page[c] + 1) - 1 = page[c]
      BY <1>2, <2>2, <2>3 DEF Pausing
    <3>6. Fetching(c)'
      BY <2>1, <2>2, <2>3, <3>1, <3>3, <3>5, SiteStays DEF Pausing, Fetching
    <3> QED
      BY <1>4, <3>2, <3>4, <3>6 DEF OnItsWay
  <2>4. CASE ~(page[c] < MaxPages)
    <3>1. Answer(c, records[c]) /\ UNCHANGED page
      BY <1>10, <2>4 DEF Continue
    <3>2. page[c] = MaxPages
      BY <1>2, <2>2, <2>4 DEF Pausing
    <3>3. Validated(records[c]) = FirstPages[MaxPages] /\ ~broke'[c]
      BY <2>1, <2>2, <3>2 DEF Pausing
    <3> QED
      BY <1>7, <2>1, <3>1, <3>3
  <2> QED
    BY <2>3, <2>4
<1>11. ASSUME Tick \/ UNCHANGED vars PROVE CrawlInv'
  <2>1. UNCHANGED <<site, url, page, records, broke, reply>>
    BY <1>11 DEF Tick, vars
  <2>2. \A c \in Crawl : at'[c] = at[c] \/ (at[c] = "sleep" /\ at'[c] = "awake")
    BY <1>2, <1>11 DEF Tick, vars
  <2>3. ASSUME NEW c \in Crawl PROVE OnItsWay(c)'
    BY <1>3, <2>1, <2>2, OthersStay
  <2> QED
    BY <2>3 DEF CrawlInv
<1> QED
  BY <1>5, <1>6, <1>8, <1>9, <1>10, <1>11, <1>12, <1>13 DEF Next, Steps

\* A crawl answers with the valid records of the pages along the links, page by
\* page and in their order, up to the last link, the page limit or the page an
\* error happened on, whatever the site, the limit and the other calls.
THEOREM RecordsFollowLinksAlways == Spec => []RecordsFollowLinks
<1>1. CrawlInv => RecordsFollowLinks
  BY DEF CrawlInv, OnItsWay, Over, RecordsFollowLinks
<1> QED
  BY <1>1, TypedAlways, CrawlInvInit, CrawlInvNext, PTL DEF Spec
===============================================================================
