---------------------------- MODULE RankingProofs ----------------------------
(***************************************************************************)
(* Ranked lists every element of a finite set exactly once, in order, so a *)
(* sequence rearranged by it loses and duplicates nothing.  First, induction *)
(* over the natural numbers, as a fact about sets of them.                   *)
(***************************************************************************)
EXTENDS Ranking, Integers, FiniteSetTheorems, FunctionTheorems, WellFoundedInduction, TLAPS

\* R orders the elements of I strictly and totally.
StrictOrder(I, R) ==
  /\ \A i \in I : <<i, i>> \notin R
  /\ \A i, j \in I : i = j \/ <<i, j>> \in R \/ <<j, i>> \in R
  /\ \A i, j, k \in I : <<i, j>> \in R /\ <<j, k>> \in R => <<i, k>> \in R

\* The least number of a set.
LEMMA LeastOf ==
  ASSUME NEW T \in SUBSET Nat, T # {}
  PROVE  \E m \in T : \A k \in T : m <= k
<1> DEFINE R == OpToRel(<, Nat)
<1>1. IsWellFoundedOn(R, Nat)
  BY NatLessThanWellFounded
<1>2. \A x, y \in Nat : <<x, y>> \in R <=> x < y
  BY DEF OpToRel
<1> HIDE DEF R
<1>3. PICK m \in T : \A y \in T : ~(<<y, m>> \in R)
  BY <1>1, WFMin
<1>4. ASSUME NEW k \in T PROVE m <= k
  <2>1. k \in Nat /\ m \in Nat
    OBVIOUS
  <2>2. ~(<<k, m>> \in R)
    BY <1>3
  <2>3. ~(k < m)
    BY <1>2, <2>1, <2>2
  <2> QED
    BY <2>1, <2>3
<1> QED
  BY <1>4

\* A set with 0 and the successor of each of its numbers below n has all up to n.
LEMMA InductionUpTo ==
  ASSUME NEW n \in Nat, NEW S, 0 \in S, \A k \in 0 .. n - 1 : k \in S => k + 1 \in S
  PROVE  0 .. n \subseteq S
<1> DEFINE T == (0 .. n) \ S
<1> SUFFICES ASSUME T # {} PROVE FALSE
  OBVIOUS
<1>1. T \in SUBSET Nat
  OBVIOUS
<1>2. \A k \in 0 .. n : k \notin S => k \in T
  OBVIOUS
<1>3. \A k \in T : k \in 0 .. n /\ k \notin S
  OBVIOUS
<1> HIDE DEF T
<1>4. PICK m \in T : \A k \in T : m <= k
  BY <1>1, LeastOf
<1>5. m \in 0 .. n /\ m # 0
  BY <1>3
<1>6. m - 1 \in 0 .. n - 1 /\ ~(m <= m - 1) /\ m = (m - 1) + 1
  BY <1>5
<1>7. m - 1 \in S
  BY <1>2, <1>4, <1>6
<1> QED
  BY <1>3, <1>6, <1>7

\* The values h[0] = x, h[1], ... that n rounds F[1], F[2], ... give to a value of X.
Rounds(n, X) == [1 .. n -> [X -> X]]
IsCourse(h, n, X, x, F) ==
  /\ h \in [0 .. n -> X] /\ h[0] = x
  /\ \A k \in 1 .. n : h[k] = F[k][h[k - 1]]

\* There are such values: the recursive functions that describe loops exist.
LEMMA CourseExists ==
  ASSUME NEW X, NEW n \in Nat, NEW x \in X, NEW F, F \in Rounds(n, X)
  PROVE  \E h : IsCourse(h, n, X, x, F)
<1> DEFINE Upto(k, h) == /\ h \in [0 .. k -> X] /\ h[0] = x
                         /\ \A i \in 1 .. k : h[i] = F[i][h[i - 1]]
           S == {k \in 0 .. n : \E h : Upto(k, h)}
<1>1. 0 \in S
  <2> DEFINE h == [i \in 0 .. 0 |-> x]
  <2>1. h \in [0 .. 0 -> X] /\ h[0] = x /\ 1 .. 0 = {}
    OBVIOUS
  <2>2. Upto(0, h) /\ 0 \in 0 .. n
    BY <2>1
  <2> HIDE DEF h, Upto
  <2> QED
    BY <2>2
<1>2. ASSUME NEW k \in 0 .. n - 1, k \in S PROVE k + 1 \in S
  <2>1. PICK h : Upto(k, h)
    BY <1>2
  <2> DEFINE y == F[k + 1][h[k]]
             w == [i \in 0 .. k + 1 |-> IF i = k + 1 THEN y ELSE h[i]]
  <2>2. k \in 0 .. k /\ k + 1 \in 1 .. n /\ k + 1 \in 0 .. n
    OBVIOUS
  <2>3. y \in X
    <3>1. h[k] \in X /\ F[k + 1] \in [X -> X]
      BY <2>1, <2>2 DEF Rounds
    <3> QED
      BY <3>1
  <2>4. \A i \in 0 .. k : i \in 0 .. k + 1 /\ i # k + 1
    OBVIOUS
  <2>5. \A i \in 0 .. k : w[i] = h[i]
    BY <2>4
  <2>6. w[k + 1] = y
    OBVIOUS
  <2>7. w \in [0 .. k + 1 -> X]
    <3>1. \A i \in 0 .. k + 1 : i = k + 1 \/ i \in 0 .. k
      OBVIOUS
    <3>2. \A i \in 0 .. k : h[i] \in X
      BY <2>1
    <3> QED
      BY <2>3, <3>1, <3>2
  <2> HIDE DEF w
  <2>8. w[0] = x
    <3>1. 0 \in 0 .. k
      OBVIOUS
    <3> QED
      BY <2>1, <2>5, <3>1
  <2>9. ASSUME NEW i \in 1 .. k + 1 PROVE w[i] = F[i][w[i - 1]]
    <3>1. CASE i = k + 1
      <4>1. i - 1 = k /\ k \in 0 .. k
        BY <3>1
      <4> QED
        BY <2>5, <2>6, <3>1, <4>1
    <3>2. CASE i # k + 1
      <4>1. i \in 1 .. k /\ i \in 0 .. k /\ i - 1 \in 0 .. k
        BY <3>2
      <4>2. h[i] = F[i][h[i - 1]]
        BY <2>1, <4>1
      <4> QED
        BY <2>5, <4>1, <4>2
    <3> QED
      BY <3>1, <3>2
  <2>10. Upto(k + 1, w)
    BY <2>7, <2>8, <2>9
  <2> QED
    BY <2>2, <2>10
<1> HIDE DEF S
<1>3. 0 .. n \subseteq S
  BY <1>1, <1>2, InductionUpTo
<1>4. n \in S
  BY <1>3
<1>5. PICK h : Upto(n, h)
  BY <1>4 DEF S
<1>6. IsCourse(h, n, X, x, F)
  BY <1>5 DEF IsCourse
<1> QED
  BY <1>6

\* The indices of a sequence of n elements.
LEMMA IndicesFinite ==
  ASSUME NEW n \in Nat
  PROVE  IsFiniteSet(1 .. n) /\ Cardinality(1 .. n) = n
<1>1. 1 \in Int /\ n \in Int
  OBVIOUS
<1>2. IsFiniteSet(1 .. n) /\ Cardinality(1 .. n) = IF 1 > n THEN 0 ELSE n - 1 + 1
  BY <1>1, FS_Interval
<1> QED
  BY <1>2

\* Along a strict total order the numbers of predecessors grow.
LEMMA RankGrows ==
  ASSUME NEW I, IsFiniteSet(I), NEW R, StrictOrder(I, R),
         NEW i \in I, NEW j \in I, <<i, j>> \in R
  PROVE  /\ Cardinality({h \in I : <<h, i>> \in R}) \in Nat
         /\ Cardinality({h \in I : <<h, j>> \in R}) \in Nat
         /\ Cardinality({h \in I : <<h, i>> \in R}) < Cardinality({h \in I : <<h, j>> \in R})
<1> DEFINE P(x) == {h \in I : <<h, x>> \in R}
<1>1. IsFiniteSet(P(i)) /\ IsFiniteSet(P(j))
  BY FS_Subset
<1>2. i \notin P(i)
  BY DEF StrictOrder
<1>3. IsFiniteSet(P(i) \cup {i}) /\ Cardinality(P(i) \cup {i}) = Cardinality(P(i)) + 1
  BY <1>1, <1>2, FS_AddElement
<1>4. P(i) \cup {i} \in SUBSET P(j)
  BY DEF StrictOrder
<1>5. Cardinality(P(i) \cup {i}) <= Cardinality(P(j))
  BY <1>1, <1>4, FS_Subset
<1>6. Cardinality(P(i)) \in Nat /\ Cardinality(P(j)) \in Nat
  BY <1>1, FS_CardinalityType
<1> QED
  BY <1>3, <1>5, <1>6

\* Ranked(I, R) runs through I, each element once and in the order of R.
THEOREM RankedProperties ==
  ASSUME NEW I, IsFiniteSet(I), NEW R, StrictOrder(I, R)
  PROVE  /\ Cardinality(I) \in Nat
         /\ Ranked(I, R) \in [1 .. Cardinality(I) -> I]
         /\ \A i \in I : \E k \in 1 .. Cardinality(I) : Ranked(I, R)[k] = i
         /\ \A k, l \in 1 .. Cardinality(I) :
              k < l => <<Ranked(I, R)[k], Ranked(I, R)[l]>> \in R
<1> DEFINE P(x) == {h \in I : <<h, x>> \in R}
           n == Cardinality(I)
           rank == [i \in I |-> Cardinality(P(i)) + 1]
           order == Ranked(I, R)
<1>1. n \in Nat
  BY FS_CardinalityType
<1>2. \A i \in I : Cardinality(P(i)) \in Nat /\ Cardinality(P(i)) < n
  <2> TAKE i \in I
  <2>1. IsFiniteSet(P(i)) /\ Cardinality(P(i)) <= n
    BY FS_Subset
  <2>2. P(i) # I
    BY DEF StrictOrder
  <2>3. Cardinality(P(i)) # n
    BY <2>2, FS_Subset
  <2>4. Cardinality(P(i)) \in Nat
    BY <2>1, FS_CardinalityType
  <2> QED
    BY <1>1, <2>1, <2>3, <2>4
<1>3. rank \in [I -> 1 .. n]
  BY <1>1, <1>2
<1>4. ASSUME NEW i \in I, NEW j \in I, <<i, j>> \in R
      PROVE  rank[i] < rank[j]
  <2>1. Cardinality(P(i)) < Cardinality(P(j))
    BY <1>4, RankGrows
  <2> HIDE DEF P
  <2> QED
    BY <1>2, <2>1
<1>5. \A i, j \in I : rank[i] = rank[j] => i = j
  <2> TAKE i, j \in I
  <2>1. rank[i] \in Int /\ rank[j] \in Int
    BY <1>3
  <2>2. i = j \/ <<i, j>> \in R \/ <<j, i>> \in R
    BY DEF StrictOrder
  <2> HIDE DEF rank
  <2> QED
    BY <1>4, <2>1, <2>2
<1>6. rank \in Injection(I, 1 .. n)
  BY <1>3, <1>5, Fun_IsInj
<1>7. IsFiniteSet(1 .. n) /\ Cardinality(1 .. n) = n
  BY <1>1, IndicesFinite
<1>8. rank \in Surjection(I, 1 .. n)
  BY <1>6, <1>7, FS_Injection
<1>9. \A k \in 1 .. n : \E i \in I : rank[i] = k
  <2> HIDE DEF rank
  <2> QED
    BY <1>8, Fun_SurjectionProperties
<1>10. \A k \in 1 .. n : order[k] \in I /\ rank[order[k]] = k
  <2> TAKE k \in 1 .. n
  <2>1. order[k] = CHOOSE i \in I : Cardinality(P(i)) = k - 1
    BY DEF Ranked
  <2>2. PICK i \in I : rank[i] = k
    BY <1>9
  <2>3. Cardinality(P(i)) = k - 1
    BY <2>2, <1>2
  <2>4. order[k] \in I /\ Cardinality(P(order[k])) = k - 1
    BY <2>1, <2>3
  <2> QED
    BY <2>4
<1>11. order \in [1 .. n -> I]
  BY <1>10 DEF Ranked
<1>12. \A i \in I : \E k \in 1 .. n : order[k] = i
  <2> TAKE i \in I
  <2>1. rank[i] \in 1 .. n
    BY <1>3
  <2>2. order[rank[i]] = i
    BY <1>10, <1>5, <2>1
  <2> QED
    BY <2>1, <2>2
<1>13. ASSUME NEW k \in 1 .. n, NEW l \in 1 .. n, k < l
       PROVE  <<order[k], order[l]>> \in R
  <2>1. order[k] \in I /\ order[l] \in I /\ rank[order[k]] = k /\ rank[order[l]] = l
    BY <1>10
  <2>2. order[k] # order[l]
    BY <2>1, <1>13
  <2>3. <<order[l], order[k]>> \notin R
    <3> HIDE DEF rank, order
    <3> QED
      BY <2>1, <1>4, <1>13
  <2> QED
    BY <2>1, <2>2, <2>3 DEF StrictOrder
<1> QED
  BY <1>1, <1>11, <1>12, <1>13

\* Nothing else runs through I in the order of R: two such lists differ nowhere, since
\* at the first place where they did, each would have the other's element still to come.
LEMMA RankedUnique ==
  ASSUME NEW I, IsFiniteSet(I), NEW R, StrictOrder(I, R),
         NEW n \in Nat, NEW f \in [1 .. n -> I],
         \A i \in I : \E k \in 1 .. n : f[k] = i,
         \A k, l \in 1 .. n : k < l => <<f[k], f[l]>> \in R
  PROVE  n = Cardinality(I) /\ f = Ranked(I, R)
<1> DEFINE m == Cardinality(I)
           g == Ranked(I, R)
<1>1. /\ m \in Nat /\ g \in [1 .. m -> I]
      /\ \A i \in I : \E k \in 1 .. m : g[k] = i
      /\ \A k, l \in 1 .. m : k < l => <<g[k], g[l]>> \in R
  BY RankedProperties
<1>2. /\ \A i \in I : <<i, i>> \notin R
      /\ \A i, j, k \in I : <<i, j>> \in R /\ <<j, k>> \in R => <<i, k>> \in R
  BY DEF StrictOrder
<1>3. m = n
  <2>1. \A k, l \in 1 .. n : f[k] = f[l] => k = l
    <3> TAKE k, l \in 1 .. n
    <3>1. k < l \/ l < k \/ k = l
      OBVIOUS
    <3> QED
      BY <1>2, <3>1
  <2>2. f \in Injection(1 .. n, I)
    BY <2>1, Fun_IsInj
  <2>3. f \in Surjection(1 .. n, I)
    BY Fun_IsSurj
  <2>4. f \in Bijection(1 .. n, I)
    BY <2>2, <2>3 DEF Bijection
  <2>5. ExistsBijection(1 .. n, I)
    BY <2>4 DEF ExistsBijection
  <2> QED
    BY <2>5, FS_CountingElements
<1> HIDE DEF g, m
<1>4. ASSUME NEW d \in 1 .. n, f[d] # g[d], \A k \in 1 .. n : k < d => f[k] = g[k]
      PROVE  FALSE
  <2>1. f[d] \in I /\ g[d] \in I
    BY <1>1, <1>3
  <2>2. PICK k \in 1 .. n : g[k] = f[d]
    BY <1>1, <1>3, <2>1
  <2>3. PICK l \in 1 .. n : f[l] = g[d]
    BY <2>1
  <2>4. ~(k < d) /\ k # d
    <3>1. k < d => f[k] = f[d] /\ <<f[k], f[d]>> \in R
      BY <1>4, <2>2
    <3> QED
      BY <1>2, <1>4, <2>1, <2>2, <3>1
  <2>5. ~(l < d) /\ l # d
    <3>1. l < d => g[l] = g[d] /\ <<g[l], g[d]>> \in R
      BY <1>1, <1>3, <1>4, <2>3
    <3> QED
      BY <1>2, <1>4, <2>1, <2>3, <3>1
  <2>6. <<g[d], f[d]>> \in R /\ <<f[d], g[d]>> \in R
    BY <1>1, <1>3, <2>2, <2>3, <2>4, <2>5
  <2> QED
    BY <1>2, <2>1, <2>6
<1>5. \A k \in 1 .. n : f[k] = g[k]
  <2> DEFINE T == {k \in 1 .. n : f[k] # g[k]}
  <2> SUFFICES ASSUME T # {} PROVE FALSE
    OBVIOUS
  <2>1. T \in SUBSET Nat /\ \A k \in T : k \in 1 .. n /\ f[k] # g[k]
    OBVIOUS
  <2>2. \A k \in 1 .. n : k \notin T => f[k] = g[k]
    OBVIOUS
  <2> HIDE DEF T
  <2>3. PICK d \in T : \A k \in T : d <= k
    BY <2>1, LeastOf
  <2>4. \A k \in 1 .. n : k < d => f[k] = g[k]
    BY <2>1, <2>2, <2>3
  <2> QED
    BY <1>4, <2>1, <2>3, <2>4
<1>6. f = g
  BY <1>1, <1>3, <1>5
<1> QED
  BY <1>3, <1>6 DEF g, m

\* Arranging a sequence along a list of some of its indices.
LEMMA ArrangeProperties ==
  ASSUME NEW T, NEW s \in Seq(T), NEW n \in Nat, NEW f \in [1 .. n -> 1 .. Len(s)]
  PROVE  /\ Arrange(s, f) \in Seq(T)
         /\ Len(Arrange(s, f)) = n
         /\ \A k \in 1 .. n : Arrange(s, f)[k] = s[f[k]]
<1>1. Arrange(s, f) \in [1 .. n -> T]
  BY DEF Arrange
<1> QED
  BY <1>1 DEF Arrange

\* What Keep returns: a subsequence, at increasing indices, with all of them.
THEOREM KeepProperties ==
  ASSUME NEW T, NEW s \in Seq(T), NEW I \in SUBSET DOMAIN s
  PROVE  \E f \in [1 .. Cardinality(I) -> I] :
           /\ Cardinality(I) \in 0 .. Len(s)
           /\ Keep(s, I) \in Seq(T)
           /\ Len(Keep(s, I)) = Cardinality(I)
           /\ \A k \in 1 .. Cardinality(I) : Keep(s, I)[k] = s[f[k]]
           /\ \A k, l \in 1 .. Cardinality(I) : k < l => f[k] < f[l]
           /\ \A i \in I : \E k \in 1 .. Cardinality(I) : f[k] = i
<1> DEFINE R == {p \in I \X I : p[1] < p[2]}
           n == Cardinality(I)
           f == Ranked(I, R)
<1>1. Len(s) \in Nat /\ DOMAIN s = 1 .. Len(s) /\ I \subseteq Nat
  OBVIOUS
<1>2. IsFiniteSet(I) /\ n <= Len(s)
  <2>1. IsFiniteSet(1 .. Len(s)) /\ Cardinality(1 .. Len(s)) = Len(s)
    BY <1>1, IndicesFinite
  <2>2. I \in SUBSET (1 .. Len(s))
    BY <1>1
  <2> QED
    BY <2>1, <2>2, FS_Subset
<1>3. \A i, j \in I : <<i, j>> \in R <=> i < j
  OBVIOUS
<1>4. StrictOrder(I, R)
  <2> HIDE DEF R
  <2> QED
    BY <1>1, <1>3 DEF StrictOrder
<1>5. /\ n \in Nat
      /\ f \in [1 .. n -> I]
      /\ \A i \in I : \E k \in 1 .. n : f[k] = i
      /\ \A k, l \in 1 .. n : k < l => <<f[k], f[l]>> \in R
  <2> HIDE DEF R
  <2> QED
    BY <1>2, <1>4, RankedProperties
<1>6. Keep(s, I) = Arrange(s, f)
  BY DEF Keep
<1> HIDE DEF R, f
<1>7. f \in [1 .. Cardinality(I) -> I]
  BY <1>5
<1>8. f \in [1 .. n -> 1 .. Len(s)]
  <2> HIDE DEF n
  <2> QED
    BY <1>1, <1>5
<1>9. /\ Keep(s, I) \in Seq(T)
      /\ Len(Keep(s, I)) = n
      /\ \A k \in 1 .. n : Keep(s, I)[k] = s[f[k]]
  <2> HIDE DEF n
  <2>1. n \in Nat
    BY <1>5
  <2>2. /\ Arrange(s, f) \in Seq(T)
        /\ Len(Arrange(s, f)) = n
        /\ \A k \in 1 .. n : Arrange(s, f)[k] = s[f[k]]
    BY <1>8, <2>1, ArrangeProperties
  <2> QED
    BY <1>6, <2>2
<1>10. \A k, l \in 1 .. n : k < l => f[k] < f[l]
  BY <1>3, <1>5
<1>11. n \in 0 .. Len(s)
  BY <1>1, <1>2, <1>5
<1> QED
  BY <1>5, <1>9, <1>10, <1>11, <1>7
=============================================================================
