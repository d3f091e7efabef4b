---------------------------- MODULE ReadPageProofs ----------------------------
(***************************************************************************)
(* Theorems about ReadPage, for every set of rows, every policy, window,   *)
(* batch size and budget, and any number of changes under a read: what an  *)
(* answer shows, repeats, overlooks and spends.                            *)
(***************************************************************************)
EXTENDS ReadPage, FiniteSetTheorems, WellFoundedInduction, TLAPS

-----------------------------------------------------------------------------
(* The order of the rows *)

\* A newer row of a table has a smaller place.
LEMMA RankFalls ==
    ASSUME NEW S \in SUBSET Int, IsFiniteSet(S), NEW x \in S
    PROVE  /\ Rank(S, x) \in 1..Cardinality(S)
           /\ \A y \in S : x < y => Rank(S, y) < Rank(S, x)
<1> DEFINE Above(z) == {w \in S : w >= z}
<1>1. \A z : /\ Above(z) \in SUBSET S /\ IsFiniteSet(Above(z))
             /\ Cardinality(Above(z)) \in Nat
             /\ Cardinality(Above(z)) <= Cardinality(S)
             /\ Rank(S, z) = Cardinality(Above(z))
  <2> SUFFICES ASSUME NEW z
               PROVE  /\ Above(z) \in SUBSET S /\ IsFiniteSet(Above(z))
                      /\ Cardinality(Above(z)) \in Nat
                      /\ Cardinality(Above(z)) <= Cardinality(S)
                      /\ Rank(S, z) = Cardinality(Above(z))
    OBVIOUS
  <2>1. Above(z) \in SUBSET S
    OBVIOUS
  <2>2. Rank(S, z) = Cardinality(Above(z))
    BY DEF Rank
  <2> HIDE DEF Above
  <2>3. IsFiniteSet(Above(z)) /\ Cardinality(Above(z)) <= Cardinality(S)
    BY <2>1, FS_Subset
  <2>4. QED
    BY <2>1, <2>2, <2>3, FS_CardinalityType
<1>2. Cardinality(S) \in Nat
  BY FS_CardinalityType
<1>3. x \in Above(x)
  OBVIOUS
<1>4. ASSUME NEW y \in S, x < y
      PROVE  Above(y) \subseteq Above(x) /\ x \notin Above(y)
  <2>1. x \in Int /\ y \in Int /\ \A w \in S : w \in Int
    OBVIOUS
  <2>2. \A w \in S : w >= y => w >= x
    BY <1>4, <2>1
  <2>3. ~(x >= y)
    BY <1>4, <2>1
  <2>4. QED
    BY <2>2, <2>3
<1> HIDE DEF Above
<1>5. Cardinality(Above(x)) # 0
  BY <1>1, <1>3, FS_EmptySet
<1>6. ASSUME NEW y \in S, x < y PROVE Rank(S, y) < Rank(S, x)
  <2>1. /\ Above(y) \in SUBSET Above(x) /\ Above(y) # Above(x)
        /\ IsFiniteSet(Above(x))
    BY <1>1, <1>3, <1>4, <1>6
  <2>2. Cardinality(Above(y)) <= Cardinality(Above(x))
    BY ONLY <2>1, FS_Subset
  <2>3. Cardinality(Above(y)) # Cardinality(Above(x))
    BY ONLY <2>1, FS_Subset
  <2>4. QED
    BY <1>1, <2>2, <2>3
<1>7. QED
  BY <1>1, <1>2, <1>5, <1>6

\* Two rows have two places, and every place has its row.
LEMMA RankOnto ==
    ASSUME NEW S \in SUBSET Int, IsFiniteSet(S)
    PROVE  /\ Cardinality(S) \in Nat
           /\ \A x, y \in S : Rank(S, x) = Rank(S, y) => x = y
           /\ \A i \in 1..Cardinality(S) : \E x \in S : Rank(S, x) = i
<1> DEFINE n == Cardinality(S)
           f == [x \in S |-> Rank(S, x)]
<1>1. n \in Nat
  BY FS_CardinalityType
<1>2. \A x, y \in S : Rank(S, x) = Rank(S, y) => x = y
  <2> SUFFICES ASSUME NEW x \in S, NEW y \in S, Rank(S, x) = Rank(S, y), x # y
               PROVE  FALSE
    OBVIOUS
  <2>1. Rank(S, x) \in Int /\ x \in Int /\ y \in Int
    BY RankFalls, <1>1
  <2>2. (x < y => Rank(S, y) < Rank(S, x)) /\ (y < x => Rank(S, x) < Rank(S, y))
    BY RankFalls
  <2>3. QED
    BY <2>1, <2>2
<1>3. f \in [S -> 1..n]
  BY RankFalls
<1>4. IsFiniteSet(1..n) /\ Cardinality(1..n) = n
  <2>1. Cardinality(1..n) = IF 1 > n THEN 0 ELSE n - 1 + 1
    BY <1>1, FS_Interval
  <2>2. IsFiniteSet(1..n)
    BY <1>1, FS_Interval
  <2>3. QED
    BY <1>1, <2>1, <2>2
<1>5. f \in Injection(S, 1..n)
  BY <1>2, <1>3 DEF Injection, IsInjective
<1>6. f \in Surjection(S, 1..n)
  <2> HIDE DEF f
  <2>1. QED
    BY <1>4, <1>5, FS_Injection
<1>7. \A i \in 1..n : \E x \in S : f[x] = i
  BY <1>6 DEF Surjection
<1>8. QED
  BY <1>1, <1>2, <1>7

LEMMA NewestPlaces ==
    ASSUME NEW S \in SUBSET Int, IsFiniteSet(S)
    PROVE  /\ Newest(S) \in Seq(S) /\ Len(Newest(S)) = Cardinality(S)
           /\ \A i \in 1..Cardinality(S) :
                 Newest(S)[i] \in S /\ Rank(S, Newest(S)[i]) = i
           /\ \A x \in S : /\ Rank(S, x) \in 1..Cardinality(S)
                           /\ Newest(S)[Rank(S, x)] = x
<1>1. Cardinality(S) \in Nat
  BY RankOnto
<1>2. ASSUME NEW i \in 1..Cardinality(S)
      PROVE  Newest(S)[i] \in S /\ Rank(S, Newest(S)[i]) = i
  <2>1. \E x \in S : Rank(S, x) = i
    BY RankOnto
  <2>2. Newest(S)[i] = CHOOSE x \in S : Rank(S, x) = i
    BY DEF Newest
  <2>3. QED
    BY <2>1, <2>2
<1>3. Newest(S) \in [1..Cardinality(S) -> S]
  <2>1. Newest(S) = [i \in 1..Cardinality(S) |-> Newest(S)[i]]
    BY DEF Newest
  <2>2. QED
    BY <1>2, <2>1
<1>4. Newest(S) \in Seq(S) /\ Len(Newest(S)) = Cardinality(S)
  <2> DEFINE s == Newest(S)
  <2> HIDE DEF s
  <2>1. s \in [1..Cardinality(S) -> S]
    BY <1>3 DEF s
  <2>2. s \in Seq(S)
    BY <1>1, <2>1
  <2>3. DOMAIN s = 1..Cardinality(S)
    BY <2>1
  <2>4. Len(s) \in Nat /\ DOMAIN s = 1..Len(s)
    BY <2>2
  <2>5. Len(s) = Cardinality(S)
    BY <1>1, <2>3, <2>4
  <2>6. QED
    BY <2>2, <2>5 DEF s
<1>5. ASSUME NEW x \in S PROVE /\ Rank(S, x) \in 1..Cardinality(S)
                               /\ Newest(S)[Rank(S, x)] = x
  <2>1. Rank(S, x) \in 1..Cardinality(S)
    BY RankFalls
  <2>2. /\ Newest(S)[Rank(S, x)] \in S
        /\ Rank(S, Newest(S)[Rank(S, x)]) = Rank(S, x)
    BY <1>2, <2>1
  <2>3. \A v, w \in S : Rank(S, v) = Rank(S, w) => v = w
    BY RankOnto
  <2>4. QED
    BY <2>1, <2>2, <2>3, Zenon
<1>6. QED
  BY <1>2, <1>4, <1>5

\* The places decide the order: no other sequence has each row in its place.
LEMMA NewestOnly ==
    ASSUME NEW S \in SUBSET Int, IsFiniteSet(S),
           NEW s, s \in Seq(S), Len(s) = Cardinality(S),
           \A i \in 1..Len(s) : Rank(S, s[i]) = i
    PROVE  s = Newest(S)
<1> DEFINE t == Newest(S)
<1>1. /\ t \in Seq(S) /\ Len(t) = Len(s)
      /\ \A i \in 1..Len(s) : t[i] \in S /\ Rank(S, t[i]) = i
  BY NewestPlaces
<1>2. \A i \in 1..Len(s) : s[i] \in S
  OBVIOUS
<1>3. \A x, y \in S : Rank(S, x) = Rank(S, y) => x = y
  BY RankOnto
<1> HIDE DEF t
<1>4. \A i \in 1..Len(s) : s[i] = t[i]
  BY <1>1, <1>2, <1>3
<1>5. s = t
  BY <1>1, <1>4
<1>6. QED
  BY <1>5 DEF t

\* Rows that are all newer than some others come before them.
LEMMA RankOfUnion ==
    ASSUME NEW A \in SUBSET Int, IsFiniteSet(A), NEW B \in SUBSET Int, IsFiniteSet(B),
           \A a \in A, b \in B : a > b
    PROVE  /\ IsFiniteSet(A \cup B) /\ A \cap B = {}
           /\ Cardinality(A \cup B) = Cardinality(A) + Cardinality(B)
           /\ \A a \in A : Rank(A \cup B, a) = Rank(A, a)
           /\ \A b \in B : Rank(A \cup B, b) = Cardinality(A) + Rank(B, b)
<1>1. \A a \in A, b \in B : a \in Int /\ b \in Int /\ ~(b >= a) /\ a >= b /\ a # b
  <2> SUFFICES ASSUME NEW a \in A, NEW b \in B
               PROVE  a \in Int /\ b \in Int /\ ~(b >= a) /\ a >= b /\ a # b
    OBVIOUS
  <2>1. a \in Int /\ b \in Int /\ a > b
    OBVIOUS
  <2>2. QED
    BY <2>1
<1>2. A \cap B = {}
  BY <1>1
<1>3. Cardinality(A) \in Nat /\ Cardinality(B) \in Nat
  BY FS_CardinalityType
<1>4. ASSUME NEW T \in SUBSET B
      PROVE  IsFiniteSet(A \cup T) /\ Cardinality(A \cup T) = Cardinality(A) + Cardinality(T)
  <2>1. IsFiniteSet(T) /\ A \cap T = {}
    BY <1>2, FS_Subset
  <2>2. Cardinality(T) \in Nat
    BY <2>1, FS_CardinalityType
  <2>3. IsFiniteSet(A \cup T)
    BY <2>1, FS_Union
  <2>4. Cardinality(A \cup T) = Cardinality(A) + Cardinality(T) - Cardinality(A \cap T)
    BY <2>1, FS_Union
  <2>5. Cardinality(A \cap T) = 0
    BY <2>1, FS_EmptySet
  <2>6. QED
    BY <1>3, <2>2, <2>3, <2>4, <2>5
<1>5. ASSUME NEW a \in A PROVE Rank(A \cup B, a) = Rank(A, a)
  <2>1. {y \in A \cup B : y >= a} = {y \in A : y >= a}
    BY <1>1
  <2>2. QED
    BY <2>1 DEF Rank
<1>6. ASSUME NEW b \in B PROVE Rank(A \cup B, b) = Cardinality(A) + Rank(B, b)
  <2> DEFINE T == {y \in B : y >= b}
  <2>1. {y \in A \cup B : y >= b} = A \cup T
    BY <1>1
  <2>2. T \in SUBSET B
    OBVIOUS
  <2>3. Rank(A \cup B, b) = Cardinality(A \cup T)
    BY <2>1 DEF Rank
  <2>4. Rank(B, b) = Cardinality(T)
    BY DEF Rank
  <2> HIDE DEF T
  <2>5. QED
    BY <1>4, <2>2, <2>3, <2>4
<1>7. QED
  BY <1>2, <1>4, <1>5, <1>6

LEMMA NewestAppends ==
    ASSUME NEW A \in SUBSET Int, IsFiniteSet(A), NEW B \in SUBSET Int, IsFiniteSet(B),
           \A a \in A, b \in B : a > b
    PROVE  Newest(A \cup B) = Newest(A) \o Newest(B)
<1> DEFINE S == A \cup B
           p == Newest(A)
           q == Newest(B)
           m == Cardinality(A)
           n == Cardinality(B)
<1>1. /\ IsFiniteSet(S) /\ S \in SUBSET Int /\ Cardinality(S) = m + n
      /\ \A a \in A : Rank(S, a) = Rank(A, a)
      /\ \A b \in B : Rank(S, b) = m + Rank(B, b)
  BY RankOfUnion
<1>2. /\ p \in Seq(A) /\ Len(p) = m
      /\ \A i \in 1..m : p[i] \in A /\ Rank(A, p[i]) = i
  BY NewestPlaces
<1>3. /\ q \in Seq(B) /\ Len(q) = n
      /\ \A i \in 1..n : q[i] \in B /\ Rank(B, q[i]) = i
  BY NewestPlaces
<1>4. m \in Nat /\ n \in Nat
  BY FS_CardinalityType
<1>5. A \subseteq S /\ B \subseteq S
  OBVIOUS
<1> HIDE DEF p, q, m, n, S
<1>6. p \in Seq(S) /\ q \in Seq(S)
  <2>1. \A i \in 1..m : p[i] \in S
    BY <1>2, <1>5
  <2>2. \A i \in 1..n : q[i] \in S
    BY <1>3, <1>5
  <2>3. QED
    BY <1>2, <1>3, <2>1, <2>2
<1>7. p \o q \in Seq(S) /\ Len(p \o q) = m + n
  BY <1>2, <1>3, <1>6
<1>8. ASSUME NEW i \in 1..(m + n) PROVE Rank(S, (p \o q)[i]) = i
  <2>1. CASE i <= m
    <3>1. (p \o q)[i] = p[i] /\ i \in 1..m
      BY <1>2, <1>3, <1>4, <1>6, <2>1
    <3>2. QED
      BY <1>1, <1>2, <3>1
  <2>2. CASE i > m
    <3>1. (p \o q)[i] = q[i - m] /\ i - m \in 1..n
      BY <1>2, <1>3, <1>4, <1>6, <2>2
    <3>2. Rank(S, q[i - m]) = m + (i - m)
      BY <1>1, <1>3, <3>1
    <3>3. QED
      BY <1>4, <3>1, <3>2
  <2>3. i <= m \/ i > m
    BY <1>4
  <2>4. QED
    BY <2>1, <2>2, <2>3, Zenon
<1>9. p \o q = Newest(S)
  BY <1>1, <1>7, <1>8, NewestOnly
<1>10. QED
  BY <1>9 DEF p, q, S


-----------------------------------------------------------------------------
(* Batches *)

\* A batch has as many rows as its limit, or all that are left.
LEMMA BatchCount ==
    ASSUME NEW S \in SUBSET Int, IsFiniteSet(S), NEW n \in Nat, NEW k \in Nat
    PROVE  /\ Query(S, n, k) \in SUBSET S /\ IsFiniteSet(Query(S, n, k))
           /\ Cardinality(Query(S, n, k)) \in Nat
           /\ Cardinality(Query(S, n, k)) <= n
           /\ Cardinality(Query(S, n, k)) < n =>
                 \A x \in S : Rank(S, x) <= k + Cardinality(Query(S, n, k))
<1> DEFINE B == Query(S, n, k)
           c == Cardinality(S)
           m == Least(k + n, c)
           f == [x \in B |-> Rank(S, x)]
<1>1. B \in SUBSET S /\ \A x \in S : x \in B <=> Rank(S, x) \in k + 1..k + n
  BY DEF Query
<1>2. IsFiniteSet(B)
  BY <1>1, FS_Subset
<1>3. Cardinality(B) \in Nat
  BY <1>2, FS_CardinalityType
<1>4. c \in Nat
  BY FS_CardinalityType
<1>5. m \in Nat /\ m <= k + n /\ m <= c /\ (m = k + n \/ m = c)
  BY <1>4 DEF Least
<1>6. \A x \in S : Rank(S, x) \in 1..c
  BY RankFalls
<1> HIDE DEF B, c, m
<1>7. f \in [B -> k + 1..m]
  BY <1>1, <1>4, <1>5, <1>6
<1>8. ASSUME NEW i \in k + 1..m PROVE \E x \in B : f[x] = i
  <2>1. i \in 1..c /\ i \in k + 1..k + n
    BY <1>4, <1>5
  <2>2. PICK x \in S : Rank(S, x) = i
    BY <2>1, RankOnto DEF c
  <2>3. x \in B
    BY <1>1, <2>1, <2>2
  <2>4. QED
    BY <2>2, <2>3
<1>9. \A x, y \in B : f[x] = f[y] => x = y
  BY <1>1, RankOnto
<1>10. f \in Bijection(B, k + 1..m)
  BY <1>7, <1>8, <1>9 DEF Bijection, Injection, Surjection, IsInjective
<1>11. ExistsBijection(B, k + 1..m)
  BY <1>10 DEF ExistsBijection
<1>12. Cardinality(k + 1..m) = IF k + 1 > m THEN 0 ELSE m - (k + 1) + 1
  <2>1. k + 1 \in Int /\ m \in Int
    BY <1>5
  <2>2. QED
    BY <2>1, FS_Interval
<1>13. Cardinality(B) = Cardinality(k + 1..m)
  BY <1>2, <1>11, FS_Bijection
<1>14. Cardinality(B) <= n
  BY <1>5, <1>12, <1>13
<1>15. ASSUME Cardinality(B) < n, NEW x \in S PROVE Rank(S, x) <= k + Cardinality(B)
  <2>1. Rank(S, x) \in 1..c
    BY <1>6
  <2>2. m = c
    BY <1>5, <1>12, <1>13, <1>15
  <2>3. c <= k + Cardinality(B)
    BY <1>4, <1>5, <1>12, <1>13, <2>2
  <2>4. QED
    BY <1>3, <1>4, <2>1, <2>3
<1>16. QED
  BY <1>1, <1>2, <1>3, <1>14, <1>15 DEF B

\* Counting the rows of a batch leads past exactly that batch.
LEMMA BatchFollows ==
    ASSUME NEW S \in SUBSET Int, IsFiniteSet(S), NEW n \in Nat, NEW k \in Nat
    PROVE  /\ Query(S, k + Cardinality(Query(S, n, k)), 0) =
                Query(S, k, 0) \cup Query(S, n, k)
           /\ \A x \in Query(S, k, 0), y \in Query(S, n, k) : x > y
           /\ \A x \in Query(S, n, k) : /\ k < Rank(S, x)
                                        /\ Rank(S, x) <= k + Cardinality(Query(S, n, k))
           /\ \A x \in S : Rank(S, x) <= k + Cardinality(Query(S, n, k)) =>
                 Rank(S, x) <= k \/ x \in Query(S, n, k)
<1> DEFINE B == Query(S, n, k)
           b == Cardinality(B)
<1>1. /\ B \in SUBSET S /\ b \in Nat /\ b <= n
      /\ b < n => \A x \in S : Rank(S, x) <= k + b
  BY BatchCount
<1>2. Cardinality(S) \in Nat
  BY RankOnto
<1>3. \A x \in S : Rank(S, x) \in 1..Cardinality(S)
  BY RankFalls
<1>4. \A x \in S : x \in B <=> Rank(S, x) \in k + 1..k + n
  BY DEF Query
<1> HIDE DEF B, b
<1>5. ASSUME NEW x \in S
      PROVE  /\ Rank(S, x) <= k + b => Rank(S, x) <= k \/ x \in B
             /\ x \in B => k < Rank(S, x) /\ Rank(S, x) <= k + b
  <2>1. Rank(S, x) \in Nat
    BY <1>2, <1>3
  <2>2. x \in B <=> k < Rank(S, x) /\ Rank(S, x) <= k + n
    BY <1>4, <2>1
  <2>3. CASE b = n
    BY <2>1, <2>2, <2>3
  <2>4. CASE b < n
    BY <1>1, <2>1, <2>2, <2>4
  <2>5. QED
    BY <1>1, <2>3, <2>4
<1>6. \A x \in S, j \in Nat : x \in Query(S, j, 0) <=> Rank(S, x) <= j
  <2> SUFFICES ASSUME NEW x \in S, NEW j \in Nat
               PROVE  x \in Query(S, j, 0) <=> Rank(S, x) <= j
    OBVIOUS
  <2>1. Rank(S, x) \in Nat /\ Rank(S, x) >= 1
    BY <1>2, <1>3
  <2>2. QED
    BY <2>1 DEF Query
<1>7. \A j : Query(S, j, 0) \subseteq S
  BY DEF Query
<1>8. Query(S, k + b, 0) = Query(S, k, 0) \cup B
  <2>1. k + b \in Nat /\ k \in Nat
    BY <1>1
  <2>2. ASSUME NEW x \in S
        PROVE  x \in Query(S, k + b, 0) <=> x \in Query(S, k, 0) \cup B
    <3>1. Rank(S, x) \in Nat
      BY <1>2, <1>3
    <3>2. x \in Query(S, k + b, 0) <=> Rank(S, x) <= k + b
      BY <1>6, <2>1
    <3>3. x \in Query(S, k, 0) <=> Rank(S, x) <= k
      BY <1>6
    <3>4. Rank(S, x) <= k => Rank(S, x) <= k + b
      BY <1>1, <3>1
    <3>5. QED
      BY <1>5, <3>2, <3>3, <3>4
  <2>3. QED
    BY <1>1, <1>7, <2>2
<1>9. ASSUME NEW x \in Query(S, k, 0), NEW y \in B PROVE x > y
  <2>1. x \in S /\ y \in S
    BY <1>1, <1>7
  <2>2. Rank(S, x) \in Nat /\ Rank(S, y) \in Nat /\ x \in Int /\ y \in Int
    BY <1>2, <1>3, <2>1
  <2>3. Rank(S, x) < Rank(S, y)
    <3>1. Rank(S, x) <= k /\ k < Rank(S, y)
      BY <1>5, <1>6, <2>1
    <3>2. QED
      BY <2>2, <3>1
  <2>4. ~(x < y) /\ x # y
    <3>1. x < y => Rank(S, y) < Rank(S, x)
      BY <2>1, RankFalls
    <3>2. QED
      BY <2>2, <2>3, <3>1
  <2>5. QED
    BY <2>2, <2>4
<1>10. QED
  BY <1>1, <1>5, <1>8, <1>9 DEF B, b


-----------------------------------------------------------------------------
(* Sums of snippets *)

\* Induction for a set of numbers: the least one missing has no predecessor.
LEMMA Inductive ==
    ASSUME NEW P \in SUBSET Nat, 0 \in P, \A n \in P : n + 1 \in P
    PROVE  Nat \subseteq P
<1> DEFINE Missing == Nat \ P
<1> SUFFICES ASSUME NEW b \in Missing PROVE FALSE
  OBVIOUS
<1>1. b \in Missing /\ Missing \subseteq Nat
  OBVIOUS
<1>2. \A n \in Missing : n # 0 /\ n - 1 \in Nat /\ (n - 1) + 1 = n
  OBVIOUS
<1>3. \A n \in Nat : n \notin Missing => n \in P
  OBVIOUS
<1>4. \A n \in P : n + 1 \notin Missing
  OBVIOUS
<1> HIDE DEF Missing
<1>5. PICK m \in Missing : \A y \in Missing : ~(<<y, m>> \in OpToRel(<, Nat))
  BY <1>1, NatLessThanWellFounded, WFMin
<1>6. \A y \in Missing : ~(y < m)
  BY <1>1, <1>5 DEF OpToRel
<1>7. m - 1 \notin Missing
  BY <1>1, <1>2, <1>6
<1>8. (m - 1) + 1 \notin Missing
  BY <1>2, <1>3, <1>4, <1>7
<1>9. QED
  BY <1>2, <1>8

\* sum holds the sizes of the prefixes of s.
IsSum(sum, s) ==
    /\ sum \in [0..Len(s) -> Nat]
    /\ sum[0] = 0
    /\ \A i \in 1..Len(s) : sum[i] = sum[i - 1] + Size[s[i]]

LEMMA SnippetSizes ==
    ASSUME ReadPageAssumption, NEW s \in Seq(Row)
    PROVE  Len(s) \in Nat /\ \A i \in 1..Len(s) : s[i] \in Row /\ Size[s[i]] \in Nat
<1>1. Size \in [Row -> Nat]
  BY DEF ReadPageAssumption
<1>2. QED
  BY <1>1

LEMMA SumExists ==
    ASSUME ReadPageAssumption, NEW s \in Seq(Row)
    PROVE  \E sum : IsSum(sum, s)
<1> DEFINE To(n, sum) == /\ sum \in [0..n -> Nat] /\ sum[0] = 0
                         /\ \A i \in 1..n : sum[i] = sum[i - 1] + Size[s[i]]
           P == {n \in Nat : n <= Len(s) => \E sum : To(n, sum)}
<1>1. Len(s) \in Nat /\ \A i \in 1..Len(s) : Size[s[i]] \in Nat
  BY SnippetSizes
<1> HIDE DEF To
<1>2. 0 \in P
  <2> DEFINE zero == [i \in 0..0 |-> 0]
  <2>1. To(0, zero)
    BY DEF To
  <2> HIDE DEF zero
  <2>2. QED
    BY <2>1
<1>3. ASSUME NEW n \in P PROVE n + 1 \in P
  <2> SUFFICES ASSUME n + 1 <= Len(s) PROVE \E sum : To(n + 1, sum)
    OBVIOUS
  <2>1. PICK sum : To(n, sum)
    BY <1>1
  <2> DEFINE next == [i \in 0..n + 1 |-> IF i <= n THEN sum[i]
                                                   ELSE sum[n] + Size[s[n + 1]]]
  <2>2. n \in Nat /\ n + 1 \in 1..Len(s) /\ Size[s[n + 1]] \in Nat
    BY <1>1
  <2>3. next \in [0..n + 1 -> Nat] /\ next[0] = 0
    BY <2>1, <2>2 DEF To
  <2>4. ASSUME NEW i \in 1..n + 1 PROVE next[i] = next[i - 1] + Size[s[i]]
    <3>1. CASE i <= n
      BY <2>1, <2>2, <3>1 DEF To
    <3>2. CASE i = n + 1
      BY <2>1, <2>2, <3>2 DEF To
    <3>3. i <= n \/ i = n + 1
      BY <2>2
    <3>4. QED
      BY <3>1, <3>2, <3>3, Zenon
  <2>5. To(n + 1, next)
    BY <2>3, <2>4 DEF To
  <2>6. QED
    BY <2>5
<1>4. Nat \subseteq P
  <2>1. P \in SUBSET Nat
    OBVIOUS
  <2> HIDE DEF P
  <2>2. QED
    BY <1>2, <1>3, <2>1, Inductive
<1>5. \E sum : To(Len(s), sum)
  BY <1>1, <1>4
<1>6. QED
  BY <1>5 DEF IsSum, To

\* Two sums of one sequence agree, and a sum never falls.
LEMMA SumAgrees ==
    ASSUME ReadPageAssumption, NEW s \in Seq(Row), NEW a, IsSum(a, s), NEW b,
           b[0] = 0, \A i \in 1..Len(s) : b[i] = b[i - 1] + Size[s[i]]
    PROVE  \A n \in 0..Len(s) : a[n] = b[n]
<1> DEFINE P == {n \in Nat : n <= Len(s) => a[n] = b[n]}
<1>1. Len(s) \in Nat /\ a[0] = 0 /\ \A i \in 1..Len(s) : a[i] = a[i - 1] + Size[s[i]]
  BY DEF IsSum
<1>2. 0 \in P
  BY <1>1
<1>3. ASSUME NEW n \in P PROVE n + 1 \in P
  <2> SUFFICES ASSUME n + 1 <= Len(s) PROVE a[n + 1] = b[n + 1]
    OBVIOUS
  <2>1. n \in Nat /\ n + 1 \in 1..Len(s) /\ (n + 1) - 1 = n /\ n <= Len(s)
    BY <1>1
  <2>2. a[n] = b[n]
    BY <2>1
  <2>3. a[n + 1] = a[n] + Size[s[n + 1]] /\ b[n + 1] = b[n] + Size[s[n + 1]]
    BY <1>1, <2>1
  <2>4. QED
    BY <2>2, <2>3
<1>4. P \in SUBSET Nat
  OBVIOUS
<1>5. Nat \subseteq P
  <2> HIDE DEF P
  <2>1. QED
    BY <1>2, <1>3, <1>4, Inductive
<1>6. QED
  BY <1>1, <1>5

LEMMA SumGrows ==
    ASSUME ReadPageAssumption, NEW s \in Seq(Row), NEW a, IsSum(a, s)
    PROVE  \A n, m \in 0..Len(s) : n <= m => a[n] <= a[m]
<1> SUFFICES ASSUME NEW n \in 0..Len(s)
             PROVE  \A m \in 0..Len(s) : n <= m => a[n] <= a[m]
  OBVIOUS
<1> DEFINE P == {d \in Nat : n + d <= Len(s) => a[n] <= a[n + d]}
<1>1. /\ Len(s) \in Nat /\ n \in Nat /\ a \in [0..Len(s) -> Nat]
      /\ \A i \in 1..Len(s) : a[i] = a[i - 1] + Size[s[i]] /\ Size[s[i]] \in Nat
  <2>1. Len(s) \in Nat /\ \A i \in 1..Len(s) : Size[s[i]] \in Nat
    BY SnippetSizes
  <2>2. QED
    BY <2>1 DEF IsSum
<1>2. 0 \in P
  <2>1. n \in Nat /\ a[n] \in Nat
    BY <1>1
  <2>2. n + 0 = n /\ a[n] <= a[n]
    BY ONLY <2>1
  <2>3. QED
    BY <2>2
<1>3. ASSUME NEW d \in P PROVE d + 1 \in P
  <2> SUFFICES ASSUME n + (d + 1) <= Len(s) PROVE a[n] <= a[n + (d + 1)]
    OBVIOUS
  <2>1. /\ d \in Nat /\ n + (d + 1) \in 1..Len(s)
        /\ (n + (d + 1)) - 1 = n + d /\ n + d \in 0..Len(s)
    BY <1>1
  <2>2. a[n] <= a[n + d]
    BY <1>1, <2>1
  <2>3. a[n + (d + 1)] = a[n + d] + Size[s[n + (d + 1)]]
    BY <1>1, <2>1
  <2>4. Size[s[n + (d + 1)]] \in Nat /\ a[n] \in Nat /\ a[n + d] \in Nat
    BY <1>1, <2>1
  <2>5. QED
    BY <2>2, <2>3, <2>4
<1>4. P \in SUBSET Nat
  OBVIOUS
<1>5. Nat \subseteq P
  <2> HIDE DEF P
  <2>1. QED
    BY <1>2, <1>3, <1>4, Inductive
<1>6. ASSUME NEW m \in 0..Len(s), n <= m PROVE a[n] <= a[m]
  <2>1. m - n \in Nat /\ n + (m - n) = m /\ m <= Len(s)
    BY <1>1, <1>6
  <2>2. m - n \in P
    BY <1>5, <2>1
  <2>3. QED
    BY <2>1, <2>2
<1>7. QED
  BY <1>6

LEMMA SizeIsSum ==
    ASSUME ReadPageAssumption, NEW s \in Seq(Row), NEW a, IsSum(a, s)
    PROVE  SizeOf(s) = a[Len(s)] /\ SizeOf(s) \in Nat
<1> DEFINE Solves(f) == f = [i \in 0..Len(s) |-> IF i = 0 THEN 0
                                                 ELSE f[i - 1] + Size[s[i]]]
           f == CHOOSE f : Solves(f)
<1>1. Len(s) \in Nat
  OBVIOUS
<1>2. Solves(a)
  BY <1>1 DEF IsSum
<1>3. Solves(f)
  BY <1>2
<1>4. SizeOf(s) = f[Len(s)]
  BY DEF SizeOf
<1> HIDE DEF f
<1>5. f[0] = 0 /\ \A i \in 1..Len(s) : f[i] = f[i - 1] + Size[s[i]]
  BY <1>1, <1>3
<1>6. a[Len(s)] = f[Len(s)]
  BY <1>1, <1>5, SumAgrees
<1>7. a[Len(s)] \in Nat
  BY <1>1 DEF IsSum
<1>8. QED
  BY <1>4, <1>6, <1>7


LEMMA SizeOfPrefix ==
    ASSUME ReadPageAssumption, NEW s \in Seq(Row), NEW a, IsSum(a, s), NEW n \in 0..Len(s)
    PROVE  /\ SubSeq(s, 1, n) \in Seq(Row) /\ Len(SubSeq(s, 1, n)) = n
           /\ SizeOf(SubSeq(s, 1, n)) = a[n]
<1> DEFINE p == SubSeq(s, 1, n)
           b == [i \in 0..n |-> a[i]]
<1>1. /\ Len(s) \in Nat /\ n \in Nat /\ n <= Len(s)
      /\ \A i \in 1..Len(s) : s[i] \in Row
  BY SnippetSizes
<1>2. p \in Seq(Row) /\ Len(p) = n /\ \A i \in 1..n : p[i] = s[i]
  BY <1>1
<1> HIDE DEF p
<1>3. IsSum(b, p)
  <2>1. a \in [0..Len(s) -> Nat] /\ a[0] = 0
    BY DEF IsSum
  <2>2. b \in [0..Len(p) -> Nat] /\ b[0] = 0
    BY <1>1, <1>2, <2>1
  <2>3. ASSUME NEW i \in 1..n PROVE b[i] = b[i - 1] + Size[p[i]]
    <3>1. i \in 1..Len(s) /\ i \in 0..n /\ i - 1 \in 0..n
      BY <1>1
    <3>2. a[i] = a[i - 1] + Size[s[i]]
      BY <3>1 DEF IsSum
    <3>3. QED
      BY <1>2, <3>1, <3>2
  <2>4. QED
    BY <1>2, <2>2, <2>3 DEF IsSum
<1>4. SizeOf(p) = b[n]
  BY <1>2, <1>3, SizeIsSum
<1>5. QED
  BY <1>1, <1>2, <1>4 DEF p

LEMMA SizeOfConcat ==
    ASSUME ReadPageAssumption, NEW s \in Seq(Row), NEW t \in Seq(Row)
    PROVE  /\ s \o t \in Seq(Row)
           /\ SizeOf(s) \in Nat /\ SizeOf(t) \in Nat
           /\ SizeOf(s \o t) = SizeOf(s) + SizeOf(t)
<1>1. PICK a : IsSum(a, s)
  BY SumExists
<1>2. PICK b : IsSum(b, t)
  BY SumExists
<1> DEFINE m == Len(s)
           n == Len(t)
           st == s \o t
           c == [i \in 0..m + n |-> IF i <= m THEN a[i] ELSE a[m] + b[i - m]]
<1>3. m \in Nat /\ n \in Nat /\ st \in Seq(Row) /\ Len(st) = m + n
  OBVIOUS
<1>4. /\ \A i \in 1..m : st[i] = s[i]
      /\ \A i \in m + 1..m + n : st[i] = t[i - m]
  OBVIOUS
<1>5. /\ a \in [0..m -> Nat] /\ a[0] = 0 /\ b \in [0..n -> Nat] /\ b[0] = 0
      /\ \A i \in 1..m : a[i] = a[i - 1] + Size[s[i]]
      /\ \A i \in 1..n : b[i] = b[i - 1] + Size[t[i]]
  BY <1>1, <1>2 DEF IsSum
<1>6. c \in [0..m + n -> Nat] /\ c[0] = 0 /\ c[m + n] = a[m] + b[n]
  <2>1. ASSUME NEW i \in 0..m + n PROVE c[i] \in Nat
    <3>1. CASE i <= m
      <4>1. i \in 0..m /\ c[i] = a[i]
        BY <1>3, <3>1
      <4>2. QED
        BY ONLY <1>5, <4>1
    <3>2. CASE i > m
      <4>1. i - m \in 0..n /\ m \in 0..m
        BY <1>3, <3>2
      <4>2. c[i] = a[m] + b[i - m]
        BY <1>3, <3>2
      <4>3. a[m] \in Nat /\ b[i - m] \in Nat
        BY ONLY <1>5, <4>1
      <4>4. QED
        BY ONLY <4>2, <4>3
    <3>3. QED
      BY <1>3, <3>1, <3>2
  <2>2. c[0] = 0
    BY <1>3, <1>5
  <2>3. c[m + n] = a[m] + b[n]
    <3>1. CASE n = 0
      BY <1>3, <1>5, <3>1
    <3>2. CASE n # 0
      <4>1. ~(m + n <= m) /\ m + n \in 0..m + n /\ (m + n) - m = n
        BY <1>3, <3>2
      <4>2. QED
        BY <4>1
    <3>3. QED
      BY <3>1, <3>2
  <2>4. c \in [0..m + n -> Nat]
    BY <2>1
  <2>5. QED
    BY <2>2, <2>3, <2>4
<1>7. ASSUME NEW i \in 1..m + n PROVE c[i] = c[i - 1] + Size[st[i]]
  <2>1. i \in 0..m + n /\ i - 1 \in 0..m + n
    BY <1>3
  <2>2. CASE i <= m
    <3>1. i \in 1..m /\ i - 1 <= m
      BY <1>3, <2>2
    <3>2. QED
      BY <1>4, <1>5, <2>1, <2>2, <3>1
  <2>3. CASE i = m + 1
    <3>1. c[i] = a[m] + b[1] /\ c[i - 1] = a[m]
      BY <1>3, <2>1, <2>3
    <3>2. b[1] = Size[t[1]] /\ st[i] = t[1]
      <4>1. 1 \in 1..n /\ i \in m + 1..m + n /\ i - m = 1
        BY <1>3, <2>3
      <4>2. b[1] = b[0] + Size[t[1]] /\ b[1] \in Nat /\ Size[t[1]] \in Nat
        <5>1. b[1] = b[1 - 1] + Size[t[1]]
          BY <1>5, <4>1
        <5>2. b[1] \in Nat /\ Size[t[1]] \in Nat
          BY <1>3, <1>5, <4>1, SnippetSizes
        <5>3. QED
          BY <5>1, <5>2
      <4>3. QED
        BY <1>4, <1>5, <4>1, <4>2
    <3>3. QED
      BY <3>1, <3>2
  <2>4. CASE i > m + 1
    <3>1. /\ i \in m + 1..m + n /\ i - m \in 1..n /\ ~(i <= m) /\ ~(i - 1 <= m)
          /\ (i - 1) - m = (i - m) - 1 /\ (i - m) - 1 \in 0..n /\ m \in 0..m
          /\ i - m \in 0..n
      BY <1>3, <2>4
    <3>2. c[i] = a[m] + b[i - m] /\ c[i - 1] = a[m] + b[(i - m) - 1]
      BY <2>1, <3>1
    <3>3. b[i - m] = b[(i - m) - 1] + Size[t[i - m]] /\ st[i] = t[i - m]
      BY <1>4, <1>5, <3>1
    <3>4. a[m] \in Nat /\ b[(i - m) - 1] \in Nat /\ Size[t[i - m]] \in Nat
      BY <1>5, <3>1, SnippetSizes
    <3>5. QED
      BY <3>2, <3>3, <3>4
  <2>5. i <= m \/ i = m + 1 \/ i > m + 1
    BY <1>3
  <2>6. QED
    BY <2>2, <2>3, <2>4, <2>5, Zenon
<1> HIDE DEF st, c
<1>8. IsSum(c, st)
  BY <1>3, <1>6, <1>7 DEF IsSum
<1>9. SizeOf(st) = c[Len(st)] /\ SizeOf(s) = a[m] /\ SizeOf(t) = b[n]
  BY <1>1, <1>2, <1>3, <1>8, SizeIsSum
<1>10. SizeOf(s) \in Nat /\ SizeOf(t) \in Nat
  BY <1>1, <1>2, SizeIsSum
<1>11. QED
  BY <1>3, <1>6, <1>9, <1>10 DEF st


\* n rows of s fit, and not one more.
Fits(s, left, n) == /\ SizeOf(SubSeq(s, 1, n)) <= left
                    /\ n < Len(s) => SizeOf(SubSeq(s, 1, n + 1)) > left

LEMMA FittingIs ==
    ASSUME ReadPageAssumption, NEW s \in Seq(Row), NEW left \in Nat
    PROVE  \E n \in 0..Len(s) : Fits(s, left, n) /\ Fitting(s, left) = SubSeq(s, 1, n)
<1>1. PICK a : IsSum(a, s)
  BY SumExists
<1>2. /\ Len(s) \in Nat /\ a[0] = 0
      /\ \A n \in 0..Len(s) : a[n] \in Nat
      /\ \A n \in 0..Len(s) : SizeOf(SubSeq(s, 1, n)) = a[n]
  <2>1. a \in [0..Len(s) -> Nat] /\ a[0] = 0
    BY <1>1 DEF IsSum
  <2>2. QED
    BY <1>1, <2>1, SizeOfPrefix
<1>3. \E n \in 0..Len(s) : a[n] <= left /\ (n < Len(s) => a[n + 1] > left)
  <2> SUFFICES ASSUME \A n \in 0..Len(s) : a[n] <= left => n < Len(s) /\ ~(a[n + 1] > left)
               PROVE  FALSE
    OBVIOUS
  <2> DEFINE P == {n \in Nat : n <= Len(s) /\ a[n] <= left}
  <2>1. 0 \in P
    BY <1>2
  <2>2. ASSUME NEW n \in P PROVE n + 1 \in P
    <3>1. n \in 0..Len(s) /\ a[n] <= left
      OBVIOUS
    <3>2. n < Len(s) /\ ~(a[n + 1] > left)
      BY <3>1
    <3>3. n + 1 \in 0..Len(s) /\ n + 1 \in Nat /\ n + 1 <= Len(s)
      BY <1>2, <3>1, <3>2
    <3>4. a[n + 1] \in Nat
      BY <1>2, <3>3
    <3>5. a[n + 1] <= left
      BY <3>2, <3>4
    <3>6. QED
      BY <3>3, <3>5
  <2>3. P \in SUBSET Nat /\ Len(s) + 1 \notin P
    BY <1>2
  <2> HIDE DEF P
  <2>4. Nat \subseteq P
    BY <2>1, <2>2, <2>3, Inductive
  <2>5. QED
    BY <1>2, <2>3, <2>4
<1>4. PICK n \in 0..Len(s) : a[n] <= left /\ (n < Len(s) => a[n + 1] > left)
  BY <1>3
<1>5. Fits(s, left, n)
  <2>1. n < Len(s) => n + 1 \in 0..Len(s)
    BY <1>2
  <2>2. QED
    BY <1>2, <1>4, <2>1 DEF Fits
<1> DEFINE m == CHOOSE i \in 0..Len(s) : Fits(s, left, i)
<1>6. m \in 0..Len(s) /\ Fits(s, left, m)
  BY <1>5
<1>7. Fitting(s, left) = SubSeq(s, 1, m)
  BY DEF Fitting, Fits
<1>8. QED
  BY <1>6, <1>7

LEMMA FittingOnly ==
    ASSUME ReadPageAssumption, NEW s \in Seq(Row), NEW left \in Nat,
           NEW n \in 0..Len(s), Fits(s, left, n)
    PROVE  Fitting(s, left) = SubSeq(s, 1, n)
<1>1. PICK m \in 0..Len(s) : Fits(s, left, m) /\ Fitting(s, left) = SubSeq(s, 1, m)
  BY FittingIs
<1>2. PICK a : IsSum(a, s)
  BY SumExists
<1>3. /\ Len(s) \in Nat
      /\ \A i \in 0..Len(s) : a[i] \in Nat /\ SizeOf(SubSeq(s, 1, i)) = a[i]
  <2>1. a \in [0..Len(s) -> Nat]
    BY <1>2 DEF IsSum
  <2>2. \A i \in 0..Len(s) : SizeOf(SubSeq(s, 1, i)) = a[i]
    BY <1>2, SizeOfPrefix
  <2>3. QED
    BY <2>1, <2>2
<1>4. \A i, k \in 0..Len(s) : i <= k => a[i] <= a[k]
  BY <1>2, SumGrows
<1>5. ASSUME NEW i \in 0..Len(s), NEW k \in 0..Len(s), i < k,
             Fits(s, left, i), Fits(s, left, k)
      PROVE  FALSE
  <2>1. i + 1 \in 0..Len(s) /\ i + 1 <= k /\ i < Len(s)
    BY <1>3, <1>5
  <2>2. a[i + 1] > left /\ a[k] <= left
    BY <1>3, <1>5, <2>1 DEF Fits
  <2>3. a[i + 1] <= a[k] /\ a[i + 1] \in Nat /\ a[k] \in Nat
    BY <1>3, <1>4, <2>1
  <2>4. QED
    BY <2>2, <2>3
<1>6. ~(m < n) /\ ~(n < m)
  BY <1>1, <1>5
<1>7. m = n
  BY <1>3, <1>6
<1>8. QED
  BY <1>1, <1>7

LEMMA PrefixOfConcat ==
    ASSUME NEW p \in Seq(Row), NEW q \in Seq(Row)
    PROVE  /\ \A n \in 0..Len(p) : SubSeq(p \o q, 1, n) = SubSeq(p, 1, n)
           /\ \A n \in 0..Len(q) : SubSeq(p \o q, 1, Len(p) + n) = p \o SubSeq(q, 1, n)
           /\ SubSeq(p, 1, Len(p)) = p
           /\ p \o q \in Seq(Row) /\ Len(p \o q) = Len(p) + Len(q)
<1>1. p \o q \in Seq(Row) /\ Len(p \o q) = Len(p) + Len(q)
  OBVIOUS
<1>2. ASSUME NEW n \in 0..Len(p) PROVE SubSeq(p \o q, 1, n) = SubSeq(p, 1, n)
  OBVIOUS
<1>3. ASSUME NEW n \in 0..Len(q)
      PROVE  SubSeq(p \o q, 1, Len(p) + n) = p \o SubSeq(q, 1, n)
  OBVIOUS
<1>4. SubSeq(p, 1, Len(p)) = p
  OBVIOUS
<1>5. QED
  BY <1>1, <1>2, <1>3, <1>4


\* What fits of two parts is what fits of the first, and, if that is all of it,
\* what fits of the second in the rest of the budget.
LEMMA FittingConcat ==
    ASSUME ReadPageAssumption, NEW p \in Seq(Row), NEW q \in Seq(Row), NEW left \in Nat
    PROVE  /\ SizeOf(p) <= left =>
                Fitting(p \o q, left) = p \o Fitting(q, left - SizeOf(p))
           /\ Fitting(p, left) # p => Fitting(p \o q, left) = Fitting(p, left)
<1>1. Len(p) \in Nat /\ Len(q) \in Nat /\ p \o q \in Seq(Row) /\ Len(p \o q) = Len(p) + Len(q)
  OBVIOUS
<1>2. SizeOf(p) \in Nat
  BY SizeOfConcat
<1>3. ASSUME SizeOf(p) <= left
      PROVE  Fitting(p \o q, left) = p \o Fitting(q, left - SizeOf(p))
  <2> DEFINE rest == left - SizeOf(p)
  <2>1. rest \in Nat
    BY <1>2, <1>3
  <2> HIDE DEF rest
  <2>2. PICK n \in 0..Len(q) : Fits(q, rest, n) /\ Fitting(q, rest) = SubSeq(q, 1, n)
    BY <2>1, FittingIs
  <2>3. ASSUME NEW k \in 0..Len(q)
        PROVE  /\ SubSeq(p \o q, 1, Len(p) + k) = p \o SubSeq(q, 1, k)
               /\ SizeOf(SubSeq(p \o q, 1, Len(p) + k)) = SizeOf(p) + SizeOf(SubSeq(q, 1, k))
               /\ SizeOf(SubSeq(q, 1, k)) \in Nat
    <3>1. SubSeq(p \o q, 1, Len(p) + k) = p \o SubSeq(q, 1, k)
      BY PrefixOfConcat
    <3>2. SubSeq(q, 1, k) \in Seq(Row)
      BY <1>1, SnippetSizes
    <3>3. /\ SizeOf(p \o SubSeq(q, 1, k)) = SizeOf(p) + SizeOf(SubSeq(q, 1, k))
          /\ SizeOf(SubSeq(q, 1, k)) \in Nat
      BY <3>2, SizeOfConcat
    <3>4. QED
      BY <3>1, <3>3
  <2>4. Fits(p \o q, left, Len(p) + n)
    <3>1. SizeOf(SubSeq(p \o q, 1, Len(p) + n)) <= left
      <4>1. SizeOf(SubSeq(q, 1, n)) <= rest
        BY <2>2 DEF Fits
      <4>2. QED
        BY <1>2, <2>3, <4>1 DEF rest
    <3>2. ASSUME Len(p) + n < Len(p \o q)
          PROVE  SizeOf(SubSeq(p \o q, 1, (Len(p) + n) + 1)) > left
      <4>1. n < Len(q) /\ n + 1 \in 0..Len(q) /\ (Len(p) + n) + 1 = Len(p) + (n + 1)
        BY <1>1, <3>2
      <4>2. SizeOf(SubSeq(q, 1, n + 1)) > rest
        BY <2>2, <4>1 DEF Fits
      <4>3. /\ SizeOf(SubSeq(p \o q, 1, Len(p) + (n + 1)))
                 = SizeOf(p) + SizeOf(SubSeq(q, 1, n + 1))
            /\ SizeOf(SubSeq(q, 1, n + 1)) \in Nat
        BY <2>3, <4>1
      <4>4. SizeOf(p) + SizeOf(SubSeq(q, 1, n + 1)) > left
        BY <1>2, <4>2, <4>3 DEF rest
      <4>5. QED
        BY <4>1, <4>3, <4>4
    <3>3. QED
      BY <3>1, <3>2 DEF Fits
  <2>5. Len(p) + n \in 0..Len(p \o q)
    BY <1>1
  <2>6. Fitting(p \o q, left) = SubSeq(p \o q, 1, Len(p) + n)
    BY <1>1, <2>4, <2>5, FittingOnly
  <2>7. QED
    BY <2>2, <2>3, <2>6 DEF rest
<1>4. ASSUME Fitting(p, left) # p
      PROVE  Fitting(p \o q, left) = Fitting(p, left)
  <2>1. PICK n \in 0..Len(p) : Fits(p, left, n) /\ Fitting(p, left) = SubSeq(p, 1, n)
    BY FittingIs
  <2>2. SubSeq(p, 1, Len(p)) = p
    OBVIOUS
  <2>3. n < Len(p) /\ n + 1 \in 0..Len(p)
    <3>1. n # Len(p)
      BY <1>4, <2>1, <2>2, Zenon
    <3>2. QED
      BY <1>1, <3>1
  <2>4. \A k \in 0..Len(p) : SubSeq(p \o q, 1, k) = SubSeq(p, 1, k)
    BY PrefixOfConcat
  <2>5. Fits(p \o q, left, n)
    BY <2>1, <2>3, <2>4 DEF Fits
  <2>6. n \in 0..Len(p \o q)
    BY <1>1
  <2>7. QED
    BY <1>1, <2>1, <2>4, <2>5, <2>6, FittingOnly
<1>5. QED
  BY <1>3, <1>4

-----------------------------------------------------------------------------
(* Slices *)

LEMMA LeastIs ==
    ASSUME NEW a \in Int, NEW b \in Int
    PROVE  /\ Least(a, b) \in Int /\ Least(a, b) <= a /\ Least(a, b) <= b
           /\ Least(a, b) = a \/ Least(a, b) = b
BY DEF Least

LEMMA SliceIs ==
    ASSUME NEW R, NEW s \in Seq(R), NEW n \in Nat, NEW k \in Nat
    PROVE  /\ Slice(s, n, k) \in Seq(R)
           /\ Len(Slice(s, n, k)) = IF k >= Len(s) THEN 0 ELSE Least(n, Len(s) - k)
           /\ Len(Slice(s, n, k)) <= n
           /\ \A i \in 1..Len(Slice(s, n, k)) :
                 k + i \in 1..Len(s) /\ Slice(s, n, k)[i] = s[k + i]
<1> DEFINE m == Least(k + n, Len(s))
           r == SubSeq(s, k + 1, m)
<1>1. Len(s) \in Nat /\ m \in Nat /\ m <= Len(s) /\ m <= k + n /\ (m = k + n \/ m = Len(s))
  BY DEF Least
<1>2. Slice(s, n, k) = r
  BY DEF Slice
<1>3. IF k >= Len(s) THEN k + 1 > m
                     ELSE m - k = Least(n, Len(s) - k) /\ m - k \in Nat /\ k <= m
  BY <1>1 DEF Least
<1> HIDE DEF m
<1>4. /\ r \in Seq(R)
      /\ Len(r) = IF k + 1 > m THEN 0 ELSE m - k
      /\ \A i \in 1..Len(r) : k + i \in 1..Len(s) /\ r[i] = s[k + i]
  <2>1. CASE k + 1 > m
    <3>1. r = << >>
      BY <1>1, <2>1
    <3> HIDE DEF r
    <3>2. r \in Seq(R) /\ Len(r) = 0
      BY <3>1
    <3>3. QED
      BY <2>1, <3>2
  <2>2. CASE k + 1 <= m
    <3>1. r \in Seq(R) /\ Len(r) = m - k
      BY <1>1, <2>2
    <3>2. \A i \in 1..m - k : k + i \in 1..Len(s) /\ r[i] = s[k + i]
      BY <1>1, <2>2
    <3>3. QED
      BY <1>1, <2>2, <3>1, <3>2
  <2>3. QED
    BY <1>1, <2>1, <2>2
<1> HIDE DEF r
<1>5. Len(r) = IF k >= Len(s) THEN 0 ELSE Least(n, Len(s) - k)
  BY <1>1, <1>3, <1>4
<1>6. Len(r) <= n
  BY <1>1, <1>3, <1>4
<1>7. QED
  BY <1>2, <1>4, <1>5, <1>6


\* A slice of two parts is a slice of each: the offset that the first part did
\* not use up, and the places that it did not fill, are those of the second.
LEMMA SliceConcat ==
    ASSUME NEW R, NEW s \in Seq(R), NEW t \in Seq(R), NEW n \in Nat, NEW k \in Nat
    PROVE  Slice(s \o t, n, k) =
             Slice(s, n, k) \o Slice(t, n - Len(Slice(s, n, k)),
                                     Least(k - Least(k, Len(s)), Len(t)))
<1> DEFINE a == Len(s)
           b == Len(t)
           r == Slice(s, n, k)
           h == Least(k - Least(k, a), b)
           u == Slice(t, n - Len(r), h)
           v == Slice(s \o t, n, k)
<1>1. a \in Nat /\ b \in Nat /\ s \o t \in Seq(R) /\ Len(s \o t) = a + b
  OBVIOUS
<1>2. /\ r \in Seq(R) /\ Len(r) <= n /\ Len(r) \in Nat
      /\ Len(r) = IF k >= a THEN 0 ELSE Least(n, a - k)
      /\ \A i \in 1..Len(r) : k + i \in 1..a /\ r[i] = s[k + i]
  BY SliceIs
<1>3. n - Len(r) \in Nat
  BY <1>2
<1>4. h \in Nat /\ h <= b /\ h = IF k >= a THEN Least(k - a, b) ELSE 0
  BY <1>1 DEF Least
<1> HIDE DEF h, r
<1>5. /\ u \in Seq(R) /\ Len(u) \in Nat
      /\ Len(u) = IF h >= b THEN 0 ELSE Least(n - Len(r), b - h)
      /\ \A i \in 1..Len(u) : h + i \in 1..b /\ u[i] = t[h + i]
  BY <1>3, <1>4, SliceIs
<1>6. /\ v \in Seq(R) /\ Len(v) \in Nat
      /\ Len(v) = IF k >= a + b THEN 0 ELSE Least(n, (a + b) - k)
      /\ \A i \in 1..Len(v) : k + i \in 1..a + b /\ v[i] = (s \o t)[k + i]
  <2> DEFINE st == s \o t
  <2>1. st \in Seq(R) /\ Len(st) = a + b
    BY <1>1
  <2> HIDE DEF st
  <2> DEFINE z == Slice(st, n, k)
  <2>2. /\ z \in Seq(R)
        /\ Len(z) = IF k >= a + b THEN 0 ELSE Least(n, (a + b) - k)
        /\ \A i \in 1..Len(z) : k + i \in 1..a + b /\ z[i] = st[k + i]
    <3>1. st \in Seq(R) /\ Len(st) = a + b /\ n \in Nat /\ k \in Nat
      BY <2>1
    <3>2. z \in Seq(R)
      BY ONLY <3>1, SliceIs
    <3>3. Len(z) = IF k >= Len(st) THEN 0 ELSE Least(n, Len(st) - k)
      BY ONLY <3>1, SliceIs
    <3>4. \A i \in 1..Len(z) : k + i \in 1..Len(st) /\ z[i] = st[k + i]
      BY ONLY <3>1, SliceIs
    <3> HIDE DEF z
    <3>5. QED
      BY <2>1, <3>2, <3>3, <3>4
  <2>3. Len(Slice(st, n, k)) \in Nat
    BY <2>2
  <2>4. QED
    BY <2>2, <2>3 DEF st
<1>7. \A i \in 1..a : (s \o t)[i] = s[i]
  OBVIOUS
<1>8. \A i \in a + 1..a + b : (s \o t)[i] = t[i - a]
  OBVIOUS
<1> HIDE DEF u, v, a, b
<1>9. Len(v) = Len(r) + Len(u)
  <2>1. CASE k >= a
    BY <1>1, <1>2, <1>4, <1>5, <1>6, <2>1 DEF Least
  <2>2. CASE k < a /\ n <= a - k
    BY <1>1, <1>2, <1>4, <1>5, <1>6, <2>2 DEF Least
  <2>3. CASE k < a /\ n > a - k
    BY <1>1, <1>2, <1>4, <1>5, <1>6, <2>3 DEF Least
  <2>4. k >= a \/ (k < a /\ n <= a - k) \/ (k < a /\ n > a - k)
    BY <1>1
  <2>5. QED
    BY <2>1, <2>2, <2>3, <2>4, Zenon
<1>10. ASSUME NEW i \in 1..Len(r) PROVE v[i] = r[i]
  <2>1. i \in 1..Len(v)
    BY <1>2, <1>5, <1>9
  <2>2. v[i] = (s \o t)[k + i] /\ k + i \in 1..a /\ r[i] = s[k + i]
    BY <1>2, <1>6, <2>1
  <2>3. QED
    BY <1>7, <2>2
<1>11. ASSUME NEW i \in 1..Len(u) PROVE v[Len(r) + i] = u[i]
  <2>1. Len(r) + i \in 1..Len(v)
    BY <1>2, <1>5, <1>9
  <2>2. v[Len(r) + i] = (s \o t)[k + (Len(r) + i)] /\ k + (Len(r) + i) \in 1..a + b
    BY <1>6, <2>1
  <2>3. u[i] = t[h + i] /\ h + i \in 1..b
    BY <1>5
  <2>4. k + (Len(r) + i) = a + (h + i)
    <3>1. CASE k >= a
      BY <1>1, <1>2, <1>4, <1>5, <2>3, <3>1 DEF Least
    <3>2. CASE k < a
      <4>1. Len(r) = Least(n, a - k) /\ h = 0
        BY <1>1, <1>2, <1>4, <3>2
      <4>2. n - Len(r) >= 1
        BY <1>1, <1>2, <1>3, <1>5, <4>1 DEF Least
      <4>3. Len(r) = a - k
        BY <1>1, <1>2, <3>2, <4>1, <4>2 DEF Least
      <4>4. i \in Int /\ a \in Int
        BY <1>1, <1>5
      <4>5. h + i = i
        BY <4>1, <4>4
      <4>6. k + ((a - k) + i) = a + i
        BY <4>4
      <4>7. QED
        BY <4>3, <4>5, <4>6, Zenon
    <3>3. QED
      BY <1>1, <3>1, <3>2
  <2>5. a + (h + i) \in a + 1..a + b /\ (a + (h + i)) - a = h + i
    <3>1. a \in Nat /\ b \in Nat
      BY <1>1
    <3>2. h + i \in 1..b
      BY <2>3
    <3> DEFINE p == h + i
    <3> HIDE DEF p
    <3>3. a + p \in a + 1..a + b /\ (a + p) - a = p
      <4>1. p \in 1..b
        BY <3>2 DEF p
      <4>2. QED
        BY ONLY <3>1, <4>1
    <3>4. QED
      BY <3>3 DEF p
  <2>6. QED
    BY <1>8, <2>2, <2>3, <2>4, <2>5
<1>12. r \o u \in Seq(R) /\ Len(r \o u) = Len(v)
  BY <1>2, <1>5, <1>9
<1>13. ASSUME NEW i \in 1..Len(v) PROVE (r \o u)[i] = v[i]
  <2>1. CASE i <= Len(r)
    <3>1. i \in 1..Len(r) /\ (r \o u)[i] = r[i]
      BY <1>2, <1>5, <1>6, <2>1
    <3>2. QED
      BY <1>10, <3>1
  <2>2. CASE i > Len(r)
    <3>1. i \in Nat /\ i <= Len(v) /\ Len(r) \in Nat /\ Len(u) \in Nat
      BY <1>2, <1>5, <1>6
    <3>2. i - Len(r) \in 1..Len(u) /\ Len(r) + (i - Len(r)) = i
      BY ONLY <1>9, <2>2, <3>1
    <3>3. (r \o u)[i] = u[i - Len(r)]
      BY ONLY <1>2, <1>5, <1>9, <2>2, <3>1
    <3>4. QED
      BY <1>11, <3>2, <3>3
  <2>3. i <= Len(r) \/ i > Len(r)
    BY <1>2, <1>6
  <2>4. QED
    BY <2>1, <2>2, <2>3, Zenon
<1> DEFINE w == r \o u
<1>14. w \in Seq(R) /\ Len(w) = Len(v) /\ \A i \in 1..Len(v) : w[i] = v[i]
  BY <1>12, <1>13
<1> HIDE DEF w
<1>15. w = v
  BY <1>6, <1>14
<1>16. QED
  BY <1>15 DEF w, r, u, v, h, a, b


-----------------------------------------------------------------------------
(* What a batch adds *)

LEMMA InOrder ==
    ASSUME ReadPageAssumption, NEW S \in SUBSET Row
    PROVE  /\ S \in SUBSET Int /\ IsFiniteSet(S) /\ Cardinality(S) \in Nat
           /\ Newest(S) \in Seq(Row) /\ Len(Newest(S)) = Cardinality(S)
           /\ \A i \in 1..Len(Newest(S)) : Newest(S)[i] \in S
           /\ \A i, k \in 1..Len(Newest(S)) : Newest(S)[i] = Newest(S)[k] => i = k
           /\ \A x \in S : Contains(Newest(S), x)
<1>1. S \in SUBSET Int /\ IsFiniteSet(S)
  BY FS_Subset DEF ReadPageAssumption
<1>2. Cardinality(S) \in Nat
  BY <1>1, FS_CardinalityType
<1> DEFINE s == Newest(S)
<1>3. /\ s \in Seq(S) /\ Len(s) = Cardinality(S)
      /\ \A i \in 1..Cardinality(S) : s[i] \in S /\ Rank(S, s[i]) = i
      /\ \A x \in S : Rank(S, x) \in 1..Cardinality(S) /\ s[Rank(S, x)] = x
  BY <1>1, NewestPlaces
<1> HIDE DEF s
<1>4. s \in Seq(Row)
  <2>1. \A i \in 1..Len(s) : s[i] \in Row
    BY <1>3
  <2>2. QED
    BY <1>3, <2>1
<1>5. \A i, k \in 1..Len(s) : s[i] = s[k] => i = k
  BY <1>3
<1>6. \A x \in S : Contains(s, x)
  BY <1>3 DEF Contains
<1>7. QED
  BY <1>1, <1>2, <1>3, <1>4, <1>5, <1>6 DEF s

LEMMA BatchIs ==
    ASSUME ReadPageAssumption, StateOK, ReadInv, pc = "load"
    PROVE  /\ Batch(job) \in SUBSET Row /\ Cardinality(Batch(job)) \in Nat
           /\ job.alone => /\ job.raw + Cardinality(Batch(job)) = 1
                           /\ Batch(job) = IF job.raw = 0 THEN {job.seed} ELSE {}
           /\ ~job.alone => /\ ReadLimit(job) \in Nat
                            /\ job.raw + ReadLimit(job) <= maxReadWindow
                            /\ Batch(job) = Query(table, ReadLimit(job), job.raw)
                            /\ Cardinality(Batch(job)) <= ReadLimit(job)
<1>1. /\ job \in Job /\ job.raw \in Nat /\ job.limit \in Nat /\ job.offset \in Nat
      /\ job.seed \in Row /\ job.alone \in BOOLEAN
      /\ table \in SUBSET Row
      /\ defaultLimit \in Nat /\ maxReadWindow \in Nat
  BY DEF StateOK, Job, ReadPageAssumption
<1>2. CASE job.alone
  <2>1. Batch(job) = IF job.raw = 0 THEN {job.seed} ELSE {}
    BY <1>2 DEF Batch
  <2>2. job.raw <= 1
    BY <1>2 DEF ReadInv
  <2>3. CASE job.raw = 0
    <3>1. Batch(job) = {job.seed}
      BY <2>1, <2>3
    <3>2. Cardinality(Batch(job)) = 1
      BY <3>1, FS_Singleton
    <3>3. QED
      BY <1>1, <1>2, <2>3, <3>1, <3>2
  <2>4. CASE job.raw # 0
    <3>1. job.raw = 1 /\ Batch(job) = {}
      BY <1>1, <2>1, <2>2, <2>4
    <3>2. Cardinality(Batch(job)) = 0
      BY <3>1, FS_EmptySet
    <3>3. QED
      BY <1>2, <3>1, <3>2
  <2>5. QED
    BY <2>3, <2>4
<1>3. CASE ~job.alone
  <2>1. Batch(job) = Query(table, ReadLimit(job), job.raw)
    BY <1>3 DEF Batch
  <2>2. job.raw <= maxReadWindow
    BY <1>3 DEF ReadInv
  <2>3. BatchSize(job) \in Nat
    BY <1>1 DEF BatchSize, Greatest
  <2>4. ReadLimit(job) \in Nat /\ job.raw + ReadLimit(job) <= maxReadWindow
    BY <1>1, <2>2, <2>3 DEF ReadLimit, Least
  <2>5. table \in SUBSET Int /\ IsFiniteSet(table)
    BY <1>1, InOrder
  <2> DEFINE n == ReadLimit(job)
             k == job.raw
  <2> HIDE DEF n, k
  <2>6. n \in Nat /\ k \in Nat /\ Batch(job) = Query(table, n, k)
    BY <1>1, <2>1, <2>4 DEF n, k
  <2>7. /\ Query(table, n, k) \in SUBSET table
        /\ Cardinality(Query(table, n, k)) \in Nat
        /\ Cardinality(Query(table, n, k)) <= n
    BY <2>5, <2>6, BatchCount
  <2>8. QED
    BY <1>1, <1>3, <2>1, <2>4, <2>6, <2>7 DEF n
<1>4. QED
  BY <1>2, <1>3

LEMMA SeenOfShown ==
    ASSUME ReadPageAssumption, NEW S \in SUBSET Row, NEW k \in Job,
           ~k.alone => k.raw <= maxReadWindow
    PROVE  /\ Seen(k, S) \in SUBSET Row /\ Shown(k, S) \in SUBSET Row
           /\ Seen(k, S) \subseteq Shown(k, S)
           /\ \A x \in Seen(k, S), y \in Shown(k, S) \ Seen(k, S) : x > y
<1>1. k.seed \in Row /\ k.raw \in Nat /\ maxReadWindow \in Nat
  BY DEF Job, ReadPageAssumption
<1>2. CASE k.alone
  BY <1>1, <1>2 DEF Seen, Shown
<1>3. CASE ~k.alone
  <2>1. S \in SUBSET Int /\ IsFiniteSet(S) /\ Cardinality(S) \in Nat
    BY InOrder
  <2>2. \A x \in S : Rank(S, x) \in Nat /\ 1 <= Rank(S, x) /\ x \in Int
    BY <2>1, RankFalls
  <2>3. \A x \in S : x \in Seen(k, S) <=> Rank(S, x) <= k.raw /\ Allowed(x)
    BY <1>1, <1>3, <2>2 DEF Seen, Query
  <2>4. \A x \in S : x \in Shown(k, S) <=> Rank(S, x) <= maxReadWindow /\ Allowed(x)
    BY <1>1, <1>3, <2>2 DEF Shown, Query
  <2>5. Seen(k, S) \subseteq S /\ Shown(k, S) \subseteq S
    BY <1>3 DEF Seen, Shown, Query
  <2>6. Seen(k, S) \subseteq Shown(k, S)
    <3>1. \A x \in S : Rank(S, x) <= k.raw => Rank(S, x) <= maxReadWindow
      BY <1>1, <1>3, <2>2
    <3>2. QED
      BY <2>3, <2>4, <2>5, <3>1
  <2>7. ASSUME NEW x \in Seen(k, S), NEW y \in Shown(k, S) \ Seen(k, S) PROVE x > y
    <3>1. x \in S /\ y \in S /\ Rank(S, x) <= k.raw /\ ~(Rank(S, y) <= k.raw)
      BY <2>3, <2>4, <2>5
    <3>2. x < y => Rank(S, y) < Rank(S, x)
      BY <2>1, <3>1, RankFalls
    <3>3. x # y
      OBVIOUS
    <3>4. QED
      BY <1>1, <2>2, <3>1, <3>2, <3>3
  <2>8. QED
    BY <2>5, <2>6, <2>7
<1>4. QED
  BY <1>2, <1>3

\* k is job with the batch counted.
Counted(k) == /\ k \in Job /\ k.alone = job.alone /\ k.seed = job.seed
              /\ k.raw = job.raw + Cardinality(Batch(job))

LEMMA SeenGrows ==
    ASSUME ReadPageAssumption, StateOK, ReadInv, pc = "load", NEW k, Counted(k)
    PROVE  /\ Seen(job, table) \in SUBSET Row
           /\ Seen(k, table) = Seen(job, table) \cup {x \in Batch(job) : Allowed(x)}
           /\ \A x \in Seen(job, table), y \in {z \in Batch(job) : Allowed(z)} : x > y
           /\ IF k.alone THEN k.raw = 1 ELSE k.raw <= maxReadWindow
<1>1. job \in Job /\ job.raw \in Nat /\ job.seed \in Row /\ table \in SUBSET Row
  BY DEF StateOK, Job
<1>2. CASE job.alone
  <2>1. /\ k.raw = 1 /\ k.alone /\ k.seed = job.seed
        /\ Batch(job) = IF job.raw = 0 THEN {job.seed} ELSE {}
    BY <1>2, BatchIs DEF Counted
  <2>2. Seen(k, table) = {x \in {job.seed} : Allowed(x)}
    BY <2>1 DEF Seen
  <2>3. Seen(job, table) = {x \in IF job.raw = 0 THEN {} ELSE {job.seed} : Allowed(x)}
    BY <1>2 DEF Seen
  <2>4. CASE job.raw = 0
    BY <1>1, <2>1, <2>2, <2>3, <2>4
  <2>5. CASE job.raw # 0
    BY <1>1, <2>1, <2>2, <2>3, <2>5
  <2>6. QED
    BY <2>4, <2>5
<1>3. CASE ~job.alone
  <2> DEFINE n == ReadLimit(job)
             r == job.raw
  <2> HIDE DEF n, r
  <2>1. /\ n \in Nat /\ r \in Nat /\ r + n <= maxReadWindow
        /\ Batch(job) = Query(table, n, r)
        /\ Cardinality(Batch(job)) \in Nat /\ Cardinality(Batch(job)) <= n
    BY <1>1, <1>3, BatchIs DEF n, r
  <2>2. table \in SUBSET Int /\ IsFiniteSet(table)
    BY <1>1, InOrder
  <2>3. /\ Query(table, r + Cardinality(Query(table, n, r)), 0)
              = Query(table, r, 0) \cup Query(table, n, r)
        /\ \A x \in Query(table, r, 0), y \in Query(table, n, r) : x > y
    BY <2>1, <2>2, BatchFollows
  <2>4. ~k.alone /\ k.raw = r + Cardinality(Query(table, n, r))
    BY <1>3, <2>1 DEF Counted, r
  <2>5. Seen(k, table) = {x \in Query(table, r, 0) \cup Batch(job) : Allowed(x)}
    BY <2>1, <2>3, <2>4 DEF Seen
  <2>6. Seen(job, table) = {x \in Query(table, r, 0) : Allowed(x)}
    BY <1>3 DEF Seen, r
  <2>7. Query(table, r, 0) \subseteq Row
    BY <1>1 DEF Query
  <2>8. k.raw <= maxReadWindow
    <3>1. maxReadWindow \in Nat
      BY DEF ReadPageAssumption
    <3>2. QED
      BY <2>1, <2>4, <3>1
  <2>9. QED
    BY <2>1, <2>3, <2>4, <2>5, <2>6, <2>7, <2>8
<1>4. QED
  BY <1>2, <1>3

\* A read that does not go on has seen all that it can show.
LEMMA SeenAll ==
    ASSUME ReadPageAssumption, StateOK, ReadInv, pc = "load", NEW k, Counted(k),
           ~More(job, Batch(job))
    PROVE  /\ Seen(k, table) = Shown(k, table)
           /\ ~job.alone /\ Cardinality(table) <= maxReadWindow =>
                 \A x \in table : Rank(table, x) <= k.raw
<1>1. job \in Job /\ job.raw \in Nat /\ job.seed \in Row /\ table \in SUBSET Row
  BY DEF StateOK, Job
<1>2. CASE job.alone
  <2>1. k.raw = 1 /\ k.alone
    BY <1>2, BatchIs DEF Counted
  <2>2. QED
    BY <1>2, <2>1 DEF Seen, Shown
<1>3. CASE ~job.alone
  <2> DEFINE n == ReadLimit(job)
             r == job.raw
             b == Cardinality(Batch(job))
  <2>1. /\ n \in Nat /\ r \in Nat /\ r + n <= maxReadWindow
        /\ Batch(job) = Query(table, n, r)
        /\ b \in Nat /\ b <= n /\ maxReadWindow \in Nat
    BY <1>1, <1>3, BatchIs DEF ReadPageAssumption
  <2>2. table \in SUBSET Int /\ IsFiniteSet(table) /\ Cardinality(table) \in Nat
    BY <1>1, InOrder
  <2>3. ~k.alone /\ k.raw = r + b
    BY <1>3 DEF Counted
  <2>4. b # n \/ r + b >= maxReadWindow
    <3>1. b # n \/ ~(r + b < maxReadWindow)
      BY DEF More
    <3>2. QED
      BY <2>1, <3>1
  <2> HIDE DEF n, r, b
  <2>5. b < n => \A x \in table : Rank(table, x) <= r + b
    BY <2>1, <2>2, BatchCount DEF b
  <2>6. \A x \in table : /\ Rank(table, x) \in Nat /\ 1 <= Rank(table, x)
                         /\ Rank(table, x) <= Cardinality(table)
    BY <2>2, RankFalls
  <2>7. \A x \in table : Rank(table, x) <= maxReadWindow <=> Rank(table, x) <= r + b
    <3>1. CASE b < n
      BY <2>1, <2>5, <2>6, <3>1
    <3>2. CASE b = n
      <4>1. r + b = maxReadWindow
        BY <2>1, <2>4, <3>2
      <4>2. QED
        BY <4>1
    <3>3. QED
      BY <2>1, <3>1, <3>2
  <2>8. Query(table, maxReadWindow, 0) = Query(table, r + b, 0)
    BY <2>1, <2>6, <2>7 DEF Query
  <2>9. Seen(k, table) = Shown(k, table)
    BY <2>3, <2>8 DEF Seen, Shown
  <2>10. Cardinality(table) <= maxReadWindow => \A x \in table : Rank(table, x) <= k.raw
    BY <2>1, <2>2, <2>3, <2>6, <2>7
  <2>11. QED
    BY <2>9, <2>10
<1>4. QED
  BY <1>2, <1>3


-----------------------------------------------------------------------------
(* The steps of a read *)

\* run is a part of s without gaps.
RunOf(run, s) ==
    \E h \in Nat : \A i \in 1..Len(run) : h + i \in 1..Len(s) /\ run[i] = s[h + i]

\* What the queries add to the results: k is what becomes of job, take is a run
\* of the visible rows of the batch, V of which are shown.
Taken(k, take, V) ==
    /\ Counted(k) /\ k.results = job.results \o take
    /\ V \in SUBSET Batch(job) /\ take \in Seq(Row) /\ RunOf(take, Newest(V))

LEMMA ConcatInjective ==
    ASSUME NEW s \in Seq(Row), NEW t \in Seq(Row), IsInjective(s), IsInjective(t),
           \A i \in 1..Len(s), k \in 1..Len(t) : s[i] # t[k]
    PROVE  IsInjective(s \o t)
<1> DEFINE m == Len(s)
           n == Len(t)
           st == s \o t
<1>1. m \in Nat /\ n \in Nat /\ DOMAIN s = 1..m /\ DOMAIN t = 1..n
      /\ st \in Seq(Row) /\ DOMAIN st = 1..m + n
  OBVIOUS
<1>2. ASSUME NEW i \in 1..m + n
      PROVE  \/ i \in 1..m /\ st[i] = s[i]
             \/ i - m \in 1..n /\ st[i] = t[i - m]
  BY <1>1
<1>3. \A a, b \in 1..m : s[a] = s[b] => a = b
  BY <1>1 DEF IsInjective
<1>4. \A a, b \in 1..n : t[a] = t[b] => a = b
  BY <1>1 DEF IsInjective
<1> HIDE DEF st, m, n
<1>5. ASSUME NEW a \in 1..m + n, NEW b \in 1..m + n, st[a] = st[b] PROVE a = b
  <2>1. CASE a \in 1..m /\ st[a] = s[a] /\ b \in 1..m /\ st[b] = s[b]
    BY <1>3, <1>5, <2>1
  <2>2. CASE a - m \in 1..n /\ st[a] = t[a - m] /\ b - m \in 1..n /\ st[b] = t[b - m]
    <3>1. a - m = b - m
      BY <1>4, <1>5, <2>2
    <3>2. a \in Int /\ b \in Int
      BY <1>1
    <3>3. QED
      BY <1>1, <3>1, <3>2
  <2>3. CASE \/ a \in 1..m /\ st[a] = s[a] /\ b - m \in 1..n /\ st[b] = t[b - m]
             \/ b \in 1..m /\ st[b] = s[b] /\ a - m \in 1..n /\ st[a] = t[a - m]
    BY <1>5, <2>3 DEF m, n
  <2>4. QED
    BY <1>2, <2>1, <2>2, <2>3
<1>6. IsInjective(st)
  BY <1>1, <1>5 DEF IsInjective
<1>7. QED
  BY <1>6 DEF st

\* The results have the types of results, and repeat nothing.
LEMMA TakenRepeats ==
    ASSUME ReadPageAssumption, StateOK, ReadInv, RepeatInv, pc = "load",
           NEW k, NEW take, NEW V, Taken(k, take, V), changes.inserted = 0
    PROVE  /\ IsInjective(k.results)
           /\ ~job.alone =>
                 \A i \in 1..Len(k.results) :
                    k.results[i] \in table => Rank(table, k.results[i]) <= k.raw
<1> DEFINE s == job.results
<1>1. /\ job \in Job /\ job.raw \in Nat /\ table \in SUBSET Row /\ s \in Seq(Row)
      /\ job.alone \in BOOLEAN
  BY DEF StateOK, Job
<1>2. /\ take \in Seq(Row) /\ k.results = s \o take
      /\ V \in SUBSET Batch(job) /\ k.raw = job.raw + Cardinality(Batch(job))
  BY DEF Taken, Counted
<1>3. V \in SUBSET Row /\ Cardinality(Batch(job)) \in Nat
  BY <1>2, BatchIs
<1>4. PICK h \in Nat : \A i \in 1..Len(take) :
         h + i \in 1..Len(Newest(V)) /\ take[i] = Newest(V)[h + i]
  BY DEF Taken, RunOf
<1>5. \A i \in 1..Len(take) : take[i] \in V
  BY <1>3, <1>4, InOrder
<1>6. IsInjective(take)
  <2>1. ASSUME NEW a \in 1..Len(take), NEW b \in 1..Len(take), take[a] = take[b]
        PROVE  a = b
    <3>1. /\ h + a \in 1..Len(Newest(V)) /\ h + b \in 1..Len(Newest(V))
          /\ Newest(V)[h + a] = Newest(V)[h + b]
      BY <1>4, <2>1
    <3>2. h + a = h + b
      BY <1>3, <3>1, InOrder
    <3>3. a \in Int /\ b \in Int
      OBVIOUS
    <3>4. QED
      BY <3>2, <3>3
  <2>2. DOMAIN take = 1..Len(take)
    BY <1>2
  <2>3. QED
    BY <2>1, <2>2 DEF IsInjective
<1>7. IsInjective(s)
  BY DEF RepeatInv
<1> DEFINE st == s \o take
<1>8. /\ Len(s) \in Nat /\ Len(take) \in Nat /\ Len(st) = Len(s) + Len(take)
      /\ \A i \in 1..Len(st) : \/ i \in 1..Len(s) /\ st[i] = s[i]
                               \/ i - Len(s) \in 1..Len(take) /\ st[i] = take[i - Len(s)]
  BY <1>1, <1>2
<1>9. CASE job.alone
  <2>1. Len(s) = 0 \/ Len(take) = 0
    <3>1. CASE job.raw = 0
      <4>1. s = << >>
        BY <3>1 DEF ReadInv
      <4>2. QED
        BY <4>1
    <3>2. CASE job.raw # 0
      <4>1. Batch(job) = {}
        BY <1>9, <3>2, BatchIs
      <4>2. ~(1 \in 1..Len(take))
        BY <1>2, <1>5, <4>1
      <4>3. QED
        BY <1>8, <4>2
    <3>3. QED
      BY <3>1, <3>2
  <2>2. \A i \in 1..Len(s), n \in 1..Len(take) : s[i] # take[n]
    BY <1>8, <2>1
  <2>3. IsInjective(s \o take)
    BY <1>1, <1>2, <1>6, <1>7, <2>2, ConcatInjective
  <2>4. QED
    BY <1>2, <1>9, <2>3
<1>10. CASE ~job.alone
  <2> DEFINE n == ReadLimit(job)
             r == job.raw
  <2>1. n \in Nat /\ r \in Nat /\ Batch(job) = Query(table, n, r)
    BY <1>1, <1>10, BatchIs
  <2> HIDE DEF n
  <2>2. table \in SUBSET Int /\ IsFiniteSet(table) /\ Cardinality(table) \in Nat
    BY <1>1, InOrder
  <2>3. \A x \in Batch(job) : /\ r < Rank(table, x)
                              /\ Rank(table, x) <= r + Cardinality(Batch(job))
    BY <2>1, <2>2, BatchFollows
  <2>4. Batch(job) \subseteq table
    BY <2>1 DEF Query
  <2>5. \A x \in table : Rank(table, x) \in Nat
    BY <2>2, RankFalls
  <2>6. \A i \in 1..Len(take) : /\ take[i] \in table /\ r < Rank(table, take[i])
                                /\ Rank(table, take[i]) <= k.raw
    BY <1>2, <1>5, <2>3, <2>4
  <2>7. \A i \in 1..Len(s) : s[i] \in table => Rank(table, s[i]) <= r
    BY <1>10 DEF RepeatInv
  <2>8. \A i \in 1..Len(s), m \in 1..Len(take) : s[i] # take[m]
    <3> SUFFICES ASSUME NEW i \in 1..Len(s), NEW m \in 1..Len(take), s[i] = take[m]
                 PROVE  FALSE
      OBVIOUS
    <3> DEFINE x == take[m]
    <3>1. x \in table /\ r < Rank(table, x) /\ Rank(table, x) <= r /\ Rank(table, x) \in Nat
      BY <2>5, <2>6, <2>7
    <3> HIDE DEF x
    <3>2. QED
      BY <2>1, <3>1
  <2>9. IsInjective(st)
    BY <1>1, <1>2, <1>6, <1>7, <2>8, ConcatInjective
  <2>10. ASSUME NEW i \in 1..Len(st), st[i] \in table PROVE Rank(table, st[i]) <= k.raw
    <3>1. CASE i \in 1..Len(s) /\ st[i] = s[i]
      <4>1. Rank(table, s[i]) <= r /\ Rank(table, s[i]) \in Nat
        BY <2>5, <2>7, <2>10, <3>1
      <4>2. r <= k.raw /\ k.raw \in Nat
        BY <1>2, <1>3, <2>1
      <4>3. Rank(table, s[i]) <= k.raw
        BY <2>1, <4>1, <4>2
      <4>4. QED
        BY <3>1, <4>3
    <3>2. CASE i - Len(s) \in 1..Len(take) /\ st[i] = take[i - Len(s)]
      BY <2>6, <3>2
    <3>3. QED
      BY <1>8, <3>1, <3>2
  <2>11. QED
    BY <1>2, <2>9, <2>10
<1>11. QED
  BY <1>1, <1>9, <1>10


\* What one LoadPage does, field by field.
LEMMA LoadPageIs ==
    ASSUME ReadPageAssumption, StateOK, ReadInv, LoadPage
    PROVE  LET fresh == {x \in Batch(job) : Allowed(x)}
               shown == Newest(fresh)
               skip  == Least(job.offset - job.skipped, Len(shown))
               take  == Slice(shown, job.limit - Len(job.results), skip)
           IN /\ pc = "load" /\ job.kind # "context"
              /\ job' = [job EXCEPT !.raw = @ + Cardinality(Batch(job)),
                                    !.skipped = @ + skip,
                                    !.results = @ \o take]
              /\ skip \in Nat /\ skip <= job.offset - job.skipped
              /\ take \in Seq(Row) /\ Len(take) <= job.limit - Len(job.results)
              /\ Taken(job', take, fresh)
              /\ \/ pc' = "load" /\ Len(job'.results) < job'.limit
                 \/ /\ pc' = "loaded"
                    /\ Len(job'.results) >= job'.limit \/ ~More(job, Batch(job))
<1> DEFINE fresh == {x \in Batch(job) : Allowed(x)}
           shown == Newest(fresh)
           skip  == Least(job.offset - job.skipped, Len(shown))
           take  == Slice(shown, job.limit - Len(job.results), skip)
           left  == job.limit - Len(job.results)
           b     == Cardinality(Batch(job))
<1>1. pc = "load" /\ job.kind # "context"
  BY DEF LoadPage
<1>2. /\ job \in Job /\ job.offset \in Nat /\ job.skipped \in Nat /\ job.limit \in Nat
      /\ job.results \in Seq(Row) /\ job.raw \in Nat
  BY DEF StateOK, Job
<1>3. fresh \in SUBSET Row /\ fresh \in SUBSET Batch(job) /\ b \in Nat
  BY <1>1, BatchIs
<1>4. shown \in Seq(Row)
  BY <1>3, InOrder
<1>5. left \in Nat
  <2>1. Len(job.results) \in Nat
    BY <1>2
  <2>2. Len(job.results) <= job.limit
    BY <1>1 DEF ReadInv
  <2>3. QED
    BY <1>2, <2>1, <2>2
<1>6. /\ job' = [job EXCEPT !.raw = @ + b, !.skipped = @ + skip, !.results = @ \o take]
      /\ pc' = IF Len(job'.results) >= job'.limit \/ ~More(job, Batch(job))
               THEN "loaded" ELSE "load"
  BY DEF LoadPage
<1> HIDE DEF fresh, shown
<1>7. skip \in Nat /\ skip <= job.offset - job.skipped
  <2>1. Len(shown) \in Nat
    BY <1>4
  <2>2. job.skipped <= job.offset
    BY DEF ReadInv
  <2>3. QED
    BY <1>2, <2>1, <2>2 DEF Least
<1> HIDE DEF skip
<1>8. /\ take \in Seq(Row) /\ Len(take) <= left
      /\ \A i \in 1..Len(take) : skip + i \in 1..Len(shown) /\ take[i] = shown[skip + i]
  BY <1>4, <1>5, <1>7, SliceIs
<1> HIDE DEF take, left, b
<1>9. job.results \o take \in Seq(Row)
  BY <1>2, <1>8
<1>10. /\ job' \in Job /\ job'.alone = job.alone /\ job'.seed = job.seed
       /\ job'.raw = job.raw + b /\ job'.results = job.results \o take
       /\ job'.limit = job.limit
  <2> DEFINE raw == job.raw + b
             skipped == job.skipped + skip
             results == job.results \o take
  <2>1. raw \in Nat /\ skipped \in Nat /\ results \in Seq(Row)
    BY <1>2, <1>3, <1>7, <1>9
  <2>2. job' = [job EXCEPT !.raw = raw, !.skipped = skipped, !.results = results]
    BY <1>6
  <2> HIDE DEF raw, skipped, results
  <2>3. /\ job' \in Job /\ job'.alone = job.alone /\ job'.seed = job.seed
        /\ job'.raw = raw /\ job'.results = results /\ job'.limit = job.limit
    BY <1>2, <2>1, <2>2 DEF Job
  <2>4. QED
    BY <2>3 DEF raw, results
<1>11. Taken(job', take, fresh)
  BY <1>3, <1>7, <1>8, <1>10 DEF Taken, Counted, RunOf, b, shown
<1>12. \/ pc' = "load" /\ Len(job'.results) < job'.limit
       \/ /\ pc' = "loaded"
          /\ Len(job'.results) >= job'.limit \/ ~More(job, Batch(job))
  <2>1. Len(job'.results) \in Nat /\ job'.limit \in Nat
    BY <1>2, <1>9, <1>10
  <2>2. CASE pc' = "loaded"
    BY <1>6, <2>2
  <2>3. CASE pc' = "load"
    BY <1>6, <2>1, <2>3
  <2>4. QED
    BY <1>6, <2>2, <2>3
<1>13. QED
  BY <1>1, <1>6, <1>7, <1>8, <1>11, <1>12 DEF take, skip, shown, fresh, b, left

LEMMA ConcatContains ==
    ASSUME NEW s \in Seq(Row), NEW t \in Seq(Row), NEW x
    PROVE  Contains(s, x) \/ Contains(t, x) => Contains(s \o t, x)
<1>1. /\ Len(s) \in Nat /\ Len(t) \in Nat /\ Len(s \o t) = Len(s) + Len(t)
      /\ \A i \in 1..Len(s) : (s \o t)[i] = s[i]
      /\ \A i \in 1..Len(t) : (s \o t)[Len(s) + i] = t[i]
  OBVIOUS
<1>2. ASSUME NEW i \in 1..Len(s), s[i] = x PROVE Contains(s \o t, x)
  <2>1. i \in 1..Len(s \o t) /\ (s \o t)[i] = x
    BY <1>1, <1>2
  <2>2. QED
    BY <2>1 DEF Contains
<1>3. ASSUME NEW i \in 1..Len(t), t[i] = x PROVE Contains(s \o t, x)
  <2>1. Len(s) + i \in 1..Len(s \o t) /\ (s \o t)[Len(s) + i] = x
    BY <1>1, <1>3
  <2>2. QED
    BY <2>1 DEF Contains
<1>4. QED
  BY <1>2, <1>3 DEF Contains

LEMMA LoadPageOverlooks ==
    ASSUME ReadPageAssumption, StateOK, ReadInv, OverlookInv, LoadPage
    PROVE  OverlookInv'
<1> DEFINE fresh == {x \in Batch(job) : Allowed(x)}
           shown == Newest(fresh)
           skip  == Least(job.offset - job.skipped, Len(shown))
           left  == job.limit - Len(job.results)
           take  == Slice(shown, left, skip)
<1>1. /\ pc = "load" /\ job.kind # "context"
      /\ job' = [job EXCEPT !.raw = @ + Cardinality(Batch(job)),
                            !.skipped = @ + skip,
                            !.results = @ \o take]
      /\ skip \in Nat /\ skip <= job.offset - job.skipped
      /\ take \in Seq(Row) /\ Len(take) <= left
      /\ Taken(job', take, fresh)
      /\ \/ pc' = "load" /\ Len(job'.results) < job'.limit
         \/ /\ pc' = "loaded"
            /\ Len(job'.results) >= job'.limit \/ ~More(job, Batch(job))
  BY LoadPageIs
<1>2. UNCHANGED <<table, before, changes>>
  BY DEF LoadPage
<1>3. /\ job \in Job /\ table \in SUBSET Row /\ job.raw \in Nat /\ job.limit \in Nat
      /\ job.results \in Seq(Row) /\ job.skipped \in Nat /\ job.offset \in Nat
  BY DEF StateOK, Job
<1>4. /\ job'.kind = job.kind /\ job'.offset = job.offset /\ job'.limit = job.limit
      /\ job'.skipped = job.skipped + skip /\ job'.results = job.results \o take
      /\ job'.raw = job.raw + Cardinality(Batch(job))
  BY <1>1, <1>3 DEF Job
<1> SUFFICES ASSUME job.kind = "page", job.offset = 0, changes.deleted = 0
             PROVE  /\ before \subseteq table /\ job'.skipped = 0
                    /\ pc' = "load" =>
                         \A x \in before : Allowed(x) /\ Rank(table, x) <= job'.raw =>
                            Contains(job'.results, x)
                    /\ /\ pc' \in {"loaded", "done"} /\ Len(job'.results) < job'.limit
                       /\ Cardinality(table) <= maxReadWindow
                       => \A x \in before : Allowed(x) => Contains(job'.results, x)
  BY <1>2, <1>4 DEF OverlookInv
<1>5. /\ before \subseteq table /\ job.skipped = 0 /\ ~job.alone
      /\ \A x \in before : Allowed(x) /\ Rank(table, x) <= job.raw =>
            Contains(job.results, x)
  BY <1>1 DEF OverlookInv, ReadInv
<1>6. skip = 0
  BY <1>1, <1>5
<1> HIDE DEF take, skip, left, shown, fresh
<1>10. /\ job'.results \in Seq(Row) /\ Len(job'.results) \in Nat
       /\ Len(job.results) \in Nat /\ Len(take) \in Nat
       /\ Len(job'.results) = Len(job.results) + Len(take)
  BY <1>1, <1>3, <1>4
<1>7. ASSUME Len(job'.results) < job'.limit, NEW x \in before, Allowed(x),
             Rank(table, x) <= job'.raw
      PROVE  Contains(job'.results, x)
  <2>1. CASE Rank(table, x) <= job.raw
    BY <1>1, <1>3, <1>4, <1>5, <1>7, <2>1, ConcatContains
  <2>2. CASE ~(Rank(table, x) <= job.raw)
    <3> DEFINE n == ReadLimit(job)
               r == job.raw
    <3>1. n \in Nat /\ r \in Nat /\ Batch(job) = Query(table, n, r)
      BY <1>1, <1>3, <1>5, BatchIs
    <3>2. table \in SUBSET Int /\ IsFiniteSet(table) /\ x \in table
      BY <1>3, <1>5, InOrder
    <3> HIDE DEF n, r
    <3>3. Rank(table, x) <= r \/ x \in Query(table, n, r)
      <4>1. Rank(table, x) <= r + Cardinality(Query(table, n, r))
        BY <1>4, <1>7, <3>1 DEF r
      <4>2. QED
        BY <3>1, <3>2, <4>1, BatchFollows
    <3>4. x \in fresh
      BY <1>7, <2>2, <3>1, <3>3 DEF r, fresh
    <3>5. fresh \in SUBSET Row
      BY <1>1, BatchIs DEF fresh
    <3>6. Contains(shown, x) /\ shown \in Seq(Row)
      BY <3>4, <3>5, InOrder DEF shown
    <3>7. left \in Nat /\ Len(take) < left
      <4>1. Len(job.results) <= job.limit
        BY <1>1, <1>4 DEF ReadInv
      <4>2. Len(job'.results) < job.limit
        BY <1>4, <1>7
      <4>3. left = job.limit - Len(job.results) /\ job.limit \in Nat
        BY <1>3 DEF left
      <4>4. left \in Nat
        BY <1>10, <4>1, <4>3
      <4>5. Len(take) < left
        BY <1>10, <4>2, <4>3
      <4>6. QED
        BY <4>4, <4>5
    <3>8. /\ Len(take) = IF 0 >= Len(shown) THEN 0 ELSE Least(left, Len(shown) - 0)
          /\ \A i \in 1..Len(take) : take[i] = shown[0 + i]
      BY <1>6, <3>6, <3>7, SliceIs DEF take
    <3>9. Len(take) = Len(shown)
      BY <3>6, <3>7, <3>8 DEF Least
    <3>10. Contains(take, x)
      <4>1. PICK i \in 1..Len(shown) : shown[i] = x
        BY <3>6 DEF Contains
      <4>2. i \in 1..Len(take) /\ 0 + i = i
        BY <3>6, <3>9
      <4>3. QED
        BY <3>8, <4>1, <4>2 DEF Contains
    <3>11. QED
      BY <1>1, <1>3, <1>4, <3>10, ConcatContains
  <2>3. QED
    BY <2>1, <2>2
<1>8. ASSUME pc' = "loaded", Len(job'.results) < job'.limit,
             Cardinality(table) <= maxReadWindow, NEW x \in before, Allowed(x)
      PROVE  Contains(job'.results, x)
  <2>1. ~(Len(job'.results) >= job'.limit)
    BY <1>3, <1>4, <1>8, <1>10
  <2>2. ~More(job, Batch(job))
    BY <1>1, <1>8, <2>1
  <2>3. \A y \in table : Rank(table, y) <= job'.raw
    <3>1. Counted(job')
      BY <1>1 DEF Taken
    <3>2. QED
      BY <1>1, <1>5, <1>8, <2>2, <3>1, SeenAll
  <2>4. QED
    BY <1>5, <1>7, <1>8, <2>3
<1>9. job'.skipped = 0
  BY <1>3, <1>4, <1>5, <1>6
<1>11. pc' \in {"load", "loaded"} /\ (pc' = "load" => Len(job'.results) < job'.limit)
  BY <1>1
<1>12. QED
  BY <1>5, <1>7, <1>8, <1>9, <1>11


\* One more batch, and the rest of what could be shown, in the order of the rows.
LEMMA SeenInOrder ==
    ASSUME ReadPageAssumption, StateOK, ReadInv, pc = "load",
           NEW k, Counted(k), NEW X
    PROVE  LET fresh == {x \in Batch(job) : Allowed(x)}
           IN /\ Seen(job, table) \in SUBSET Row /\ Seen(k, table) \in SUBSET Row
              /\ Shown(k, table) \in SUBSET Row /\ fresh \in SUBSET Row
              /\ Newest(Seen(k, table) \ X) =
                    Newest(Seen(job, table) \ X) \o Newest(fresh \ X)
              /\ Newest(Shown(k, table) \ X) =
                    Newest(Seen(k, table) \ X)
                       \o Newest((Shown(k, table) \ Seen(k, table)) \ X)
<1> DEFINE fresh == {x \in Batch(job) : Allowed(x)}
           old  == Seen(job, table)
           seen == Seen(k, table)
           all  == Shown(k, table)
<1>1. table \in SUBSET Row /\ fresh \in SUBSET Row /\ k \in Job /\ maxReadWindow \in Nat
  BY BatchIs DEF StateOK, Counted, ReadPageAssumption
<1>2. /\ old \in SUBSET Row /\ seen = old \cup fresh
      /\ \A x \in old, y \in fresh : x > y
      /\ IF k.alone THEN k.raw = 1 ELSE k.raw <= maxReadWindow
  BY SeenGrows
<1>3. /\ seen \in SUBSET Row /\ all \in SUBSET Row /\ seen \subseteq all
      /\ \A x \in seen, y \in all \ seen : x > y
  BY <1>1, <1>2, SeenOfShown
<1> HIDE DEF fresh, old, seen, all
<1>4. \A S \in SUBSET Row : S \in SUBSET Int /\ IsFiniteSet(S)
  BY InOrder
<1>5. ASSUME NEW A \in SUBSET Row, NEW B \in SUBSET Row, \A x \in A, y \in B : x > y
      PROVE  Newest((A \cup B) \ X) = Newest(A \ X) \o Newest(B \ X)
  <2>1. (A \cup B) \ X = (A \ X) \cup (B \ X)
    OBVIOUS
  <2>2. /\ A \ X \in SUBSET Int /\ IsFiniteSet(A \ X)
        /\ B \ X \in SUBSET Int /\ IsFiniteSet(B \ X)
        /\ \A x \in A \ X, y \in B \ X : x > y
    BY <1>4, <1>5
  <2>3. Newest((A \ X) \cup (B \ X)) = Newest(A \ X) \o Newest(B \ X)
    BY <2>2, NewestAppends
  <2>4. QED
    BY <2>1, <2>3
<1>6. Newest(seen \ X) = Newest(old \ X) \o Newest(fresh \ X)
  BY <1>1, <1>2, <1>5
<1>7. all = seen \cup (all \ seen) /\ all \ seen \in SUBSET Row
  BY <1>3
<1>8. Newest(all \ X) = Newest(seen \ X) \o Newest((all \ seen) \ X)
  <2>1. Newest((seen \cup (all \ seen)) \ X) = Newest(seen \ X) \o Newest((all \ seen) \ X)
    BY <1>3, <1>5, <1>7
  <2>2. QED
    BY <1>7, <2>1
<1>9. QED
  BY <1>1, <1>2, <1>3, <1>6, <1>8 DEF fresh, old, seen, all

LEMMA LoadPageExact ==
    ASSUME ReadPageAssumption, StateOK, ReadInv, ExactInv, LoadPage
    PROVE  ExactInv'
<1> DEFINE fresh == {x \in Batch(job) : Allowed(x)}
           new   == Newest(fresh)
           skip  == Least(job.offset - job.skipped, Len(new))
           take  == Slice(new, job.limit - Len(job.results), skip)
           old   == Newest(Seen(job, table))
           seen  == Newest(Seen(job', table))
           all   == Newest(Shown(job', table))
           rest  == Newest(Shown(job', table) \ Seen(job', table))
<1>1. /\ pc = "load" /\ job.kind # "context"
      /\ job' = [job EXCEPT !.raw = @ + Cardinality(Batch(job)),
                            !.skipped = @ + skip,
                            !.results = @ \o take]
      /\ skip \in Nat /\ skip <= job.offset - job.skipped
      /\ take \in Seq(Row) /\ Len(take) <= job.limit - Len(job.results)
      /\ Taken(job', take, fresh)
      /\ \/ pc' = "load" /\ Len(job'.results) < job'.limit
         \/ /\ pc' = "loaded"
            /\ Len(job'.results) >= job'.limit \/ ~More(job, Batch(job))
  BY LoadPageIs
<1>2. UNCHANGED <<table, before, changes>>
  BY DEF LoadPage
<1>3. /\ job \in Job /\ table \in SUBSET Row /\ job.limit \in Nat
      /\ job.results \in Seq(Row) /\ job.skipped \in Nat /\ job.offset \in Nat
  BY DEF StateOK, Job
<1>4. /\ job'.kind = job.kind /\ job'.offset = job.offset /\ job'.limit = job.limit
      /\ job'.skipped = job.skipped + skip /\ job'.results = job.results \o take
  BY <1>1, <1>3 DEF Job
<1>5. Counted(job')
  BY <1>1 DEF Taken
<1> SUFFICES ASSUME Undisturbed
             PROVE  /\ before = table
                    /\ pc' = "load" => /\ job'.skipped = Least(job.offset, Len(seen))
                                       /\ job'.results = Slice(seen, job.limit, job.offset)
                    /\ pc' = "loaded" => job'.results = Slice(all, job.limit, job.offset)
  BY <1>1, <1>2, <1>4 DEF ExactInv, Undisturbed
<1>6. /\ before = table /\ job.skipped = Least(job.offset, Len(old))
      /\ job.results = Slice(old, job.limit, job.offset)
  BY <1>1 DEF ExactInv
<1>7. /\ Seen(job, table) \in SUBSET Row /\ Seen(job', table) \in SUBSET Row
      /\ Shown(job', table) \in SUBSET Row /\ fresh \in SUBSET Row
      /\ seen = old \o new /\ all = seen \o rest
  <2>1. \A S : S \ {} = S
    OBVIOUS
  <2>2. /\ Seen(job, table) \in SUBSET Row /\ Seen(job', table) \in SUBSET Row
        /\ Shown(job', table) \in SUBSET Row /\ fresh \in SUBSET Row
        /\ Newest(Seen(job', table) \ {}) = Newest(Seen(job, table) \ {}) \o Newest(fresh \ {})
        /\ Newest(Shown(job', table) \ {}) =
              Newest(Seen(job', table) \ {})
                \o Newest((Shown(job', table) \ Seen(job', table)) \ {})
    BY <1>1, <1>5, SeenInOrder
  <2>3. QED
    BY <2>1, <2>2
<1>8. old \in Seq(Row) /\ new \in Seq(Row) /\ seen \in Seq(Row) /\ rest \in Seq(Row)
  <2>1. Shown(job', table) \ Seen(job', table) \in SUBSET Row
    BY <1>7
  <2>2. QED
    BY <1>7, <2>1, InOrder
<1> HIDE DEF fresh, new, old, seen, all, rest
<1>9. Len(old) \in Nat /\ Len(new) \in Nat /\ Len(seen) = Len(old) + Len(new)
  BY <1>7, <1>8
<1>10. job'.results = Slice(seen, job.limit, job.offset)
  <2>1. Slice(old \o new, job.limit, job.offset) =
          job.results \o Slice(new, job.limit - Len(job.results),
                                 Least(job.offset - Least(job.offset, Len(old)), Len(new)))
    <3> DEFINE r == Slice(old, job.limit, job.offset)
    <3>1. Slice(old \o new, job.limit, job.offset) =
            r \o Slice(new, job.limit - Len(r),
                         Least(job.offset - Least(job.offset, Len(old)), Len(new)))
      BY <1>3, <1>8, SliceConcat
    <3> HIDE DEF r
    <3>2. r = job.results
      BY <1>6 DEF r
    <3>3. QED
      BY <3>1, <3>2
  <2>2. Slice(old \o new, job.limit, job.offset) = job.results \o take
    BY <1>6, <2>1
  <2>3. QED
    BY <1>4, <1>7, <2>2
<1>11. job'.skipped = Least(job.offset, Len(seen))
  BY <1>3, <1>4, <1>6, <1>9 DEF Least
<1>12. ASSUME pc' = "loaded" PROVE job'.results = Slice(all, job.limit, job.offset)
  <2>1. CASE ~More(job, Batch(job))
    <3>1. Seen(job', table) = Shown(job', table)
      BY <1>1, <1>5, <2>1, SeenAll
    <3>2. QED
      BY <1>10, <3>1 DEF seen, all
  <2>2. CASE Len(job'.results) >= job.limit
    <3> DEFINE r == Slice(seen, job.limit, job.offset)
               h == Least(job.offset - Least(job.offset, Len(seen)), Len(rest))
    <3>1. Slice(seen \o rest, job.limit, job.offset) =
            r \o Slice(rest, job.limit - Len(r), h)
      BY <1>3, <1>8, SliceConcat
    <3>2. r \in Seq(Row) /\ Len(r) <= job.limit
      BY <1>3, <1>8, SliceIs
    <3>3. r = job'.results
      BY <1>10
    <3> HIDE DEF r
    <3>4. Len(r) \in Nat /\ job.limit - Len(r) = 0
      BY <1>3, <2>2, <3>2, <3>3
    <3>5. h \in Nat
      BY <1>3, <1>8, <1>9 DEF Least
    <3> HIDE DEF h
    <3>6. Slice(rest, 0, h) \in Seq(Row) /\ Len(Slice(rest, 0, h)) <= 0
      BY <1>8, <3>5, SliceIs
    <3>7. Slice(rest, 0, h) = << >>
      BY <3>6
    <3>8. Slice(seen \o rest, job.limit, job.offset) = r \o << >>
      BY <3>1, <3>4, <3>7
    <3>9. r \o << >> = r
      BY <3>2
    <3>10. QED
      BY <1>7, <3>3, <3>8, <3>9
  <2>3. QED
    BY <1>1, <1>4, <1>12, <2>1, <2>2
<1>13. QED
  BY <1>6, <1>10, <1>11, <1>12


LEMMA LoadPageStep ==
    ASSUME ReadPageAssumption, PageInv, LoadPage
    PROVE  PageInv'
<1> DEFINE fresh == {x \in Batch(job) : Allowed(x)}
           shown == Newest(fresh)
           skip  == Least(job.offset - job.skipped, Len(shown))
           take  == Slice(shown, job.limit - Len(job.results), skip)
<1>1. /\ pc = "load" /\ job.kind # "context"
      /\ job' = [job EXCEPT !.raw = @ + Cardinality(Batch(job)),
                            !.skipped = @ + skip,
                            !.results = @ \o take]
      /\ skip \in Nat /\ skip <= job.offset - job.skipped
      /\ take \in Seq(Row) /\ Len(take) <= job.limit - Len(job.results)
      /\ Taken(job', take, fresh)
      /\ \/ pc' = "load" /\ Len(job'.results) < job'.limit
         \/ /\ pc' = "loaded"
            /\ Len(job'.results) >= job'.limit \/ ~More(job, Batch(job))
  BY LoadPageIs DEF PageInv
<1>2. UNCHANGED <<table, before, changes>>
  BY DEF LoadPage
<1>3. /\ job \in Job /\ table \in SUBSET Row /\ job.limit \in Nat /\ job.raw \in Nat
      /\ job.results \in Seq(Row) /\ job.skipped \in Nat /\ job.offset \in Nat
  BY DEF PageInv, StateOK, Job
<1> HIDE DEF take, skip, shown
<1>4. /\ job'.kind = job.kind /\ job'.offset = job.offset /\ job'.limit = job.limit
      /\ job'.alone = job.alone /\ job'.seed = job.seed
      /\ job'.skipped = job.skipped + skip /\ job'.results = job.results \o take
      /\ job'.raw = job.raw + Cardinality(Batch(job))
  BY <1>1, <1>3 DEF Job
<1>5. Counted(job')
  BY <1>1 DEF Taken
<1>6. StateOK'
  BY <1>1, <1>2, <1>5 DEF PageInv, StateOK, Counted
<1>7. ReadInv'
  <2>1. IF job'.alone THEN job'.raw = 1 ELSE job'.raw <= maxReadWindow
    BY <1>1, <1>5, SeenGrows DEF PageInv
  <2>2. job'.skipped <= job'.offset
    BY <1>1, <1>3, <1>4
  <2>3. Len(job'.results) <= job'.limit
    <3>1. /\ Len(job.results) \in Nat /\ Len(take) \in Nat
          /\ Len(job'.results) = Len(job.results) + Len(take)
      BY <1>1, <1>3, <1>4
    <3>2. QED
      BY <1>1, <1>3, <1>4, <3>1
  <2>4. pc' = "load" /\ job'.raw = 0 => job'.results = << >>
    <3> SUFFICES ASSUME job'.raw = 0 PROVE job'.results = << >>
      OBVIOUS
    <3>1. Batch(job) \in SUBSET Row /\ Cardinality(Batch(job)) \in Nat
      BY <1>1, BatchIs DEF PageInv
    <3>2. job.raw = 0 /\ Cardinality(Batch(job)) = 0
      BY <1>3, <1>4, <3>1
    <3>3. IsFiniteSet(Batch(job))
      BY <3>1, InOrder
    <3>4. Batch(job) = {}
      BY <3>2, <3>3, FS_EmptySet
    <3>5. Newest(fresh) \in Seq(Row) /\ Len(Newest(fresh)) = 0
      <4>1. fresh = {}
        BY <3>4
      <4>2. {} \in SUBSET Row /\ Cardinality({}) = 0
        BY FS_EmptySet
      <4>3. QED
        BY <4>1, <4>2, InOrder
    <3>6. RunOf(take, Newest(fresh))
      BY <1>1 DEF Taken
    <3>7. ~(1 \in 1..Len(take))
      BY <3>5, <3>6 DEF RunOf
    <3>8. Len(take) = 0
      BY <1>1, <3>7
    <3>9. job.results = << >>
      BY <1>1, <3>2 DEF PageInv, ReadInv
    <3>10. QED
      BY <1>1, <1>4, <3>8, <3>9
  <2>5. /\ job.kind = "page" => ~job.alone
        /\ job.kind # "page" => job.offset = 0 /\ Allowed(job.seed)
        /\ job.limit >= 1 /\ job.limit + job.offset <= maxReadWindow
    BY <1>1 DEF PageInv, ReadInv
  <2>6. pc' # "idle" /\ (pc' = "load" => Len(job'.results) < job'.limit)
    BY <1>1
  <2>7. job'.alone => job'.raw <= 1
    BY <2>1
  <2>8. QED
    BY <1>4, <2>1, <2>2, <2>3, <2>4, <2>5, <2>6, <2>7 DEF ReadInv, Allowed
<1>8. SpentInv'
  BY <1>1, <1>4 DEF SpentInv
<1>9. RepeatInv'
  BY <1>1, <1>2, <1>4, TakenRepeats DEF PageInv, RepeatInv
<1>10. OverlookInv'
  BY LoadPageOverlooks DEF PageInv
<1>11. ExactInv'
  BY LoadPageExact DEF PageInv
<1>12. ExactAnswer' /\ SeedShown'
  BY <1>1 DEF ExactAnswer, SeedShown
<1>13. QED
  BY <1>6, <1>7, <1>8, <1>9, <1>10, <1>11, <1>12 DEF PageInv


LEMMA LoadContextStep ==
    ASSUME ReadPageAssumption, PageInv, LoadContext
    PROVE  PageInv'
<1> DEFINE V       == {x \in Batch(job) : Allowed(x) /\ x # job.seed}
           shown   == Newest(V)
           left    == job.budget - job.used
           fitting == Fitting(shown, left)
           b       == Cardinality(Batch(job))
<1>1. /\ pc = "load" /\ job.kind = "context"
      /\ job' = [job EXCEPT !.raw = @ + b, !.used = @ + SizeOf(fitting),
                            !.results = @ \o fitting]
      /\ pc' = IF fitting # shown \/ ~More(job, Batch(job)) THEN "loaded" ELSE "load"
      /\ UNCHANGED <<table, before, changes>>
  BY DEF LoadContext
<1>2. /\ job \in Job /\ table \in SUBSET Row /\ job.raw \in Nat /\ job.used \in Nat
      /\ job.results \in Seq(Row) /\ job.budget \in Nat /\ job.body \in Nat
  BY DEF PageInv, StateOK, Job
<1>3. /\ StateOK /\ ReadInv /\ RepeatInv
      /\ job.used = SizeOf(job.results) /\ job.used + job.body <= job.budget
      /\ job.body = 0
  BY <1>1 DEF PageInv, SpentInv
<1>4. V \in SUBSET Row /\ V \in SUBSET Batch(job) /\ b \in Nat
  BY <1>1, <1>3, BatchIs
<1>5. shown \in Seq(Row) /\ left \in Nat
  BY <1>2, <1>3, <1>4, InOrder
<1> HIDE DEF V, shown, left, b
<1>6. PICK n \in 0..Len(shown) : Fits(shown, left, n) /\ fitting = SubSeq(shown, 1, n)
  BY <1>5, FittingIs
<1> HIDE DEF fitting
<1>7. /\ fitting \in Seq(Row) /\ Len(fitting) = n
      /\ \A i \in 1..n : i \in 1..Len(shown) /\ fitting[i] = shown[i]
  BY <1>5, <1>6, SnippetSizes
<1>8. SizeOf(fitting) \in Nat /\ SizeOf(fitting) <= left
  <2>1. SizeOf(fitting) <= left
    BY <1>6 DEF Fits
  <2>2. QED
    BY <1>7, <2>1, SizeOfConcat
<1>9. /\ job.results \o fitting \in Seq(Row)
      /\ SizeOf(job.results \o fitting) = job.used + SizeOf(fitting)
  BY <1>2, <1>3, <1>7, SizeOfConcat
<1> DEFINE raw == job.raw + b
           used == job.used + SizeOf(fitting)
           results == job.results \o fitting
<1>10. /\ raw \in Nat /\ used \in Nat /\ results \in Seq(Row)
       /\ used <= job.budget /\ used = SizeOf(results)
  <2>1. left = job.budget - job.used
    BY DEF left
  <2>2. raw \in Nat
    BY <1>2, <1>4
  <2> DEFINE size == SizeOf(fitting)
  <2>3. /\ size \in Nat /\ size <= left /\ job.used \in Nat /\ job.budget \in Nat
        /\ used = job.used + size
    BY <1>2, <1>8
  <2>4. results \in Seq(Row) /\ used = SizeOf(results)
    BY <1>9
  <2> HIDE DEF size, used
  <2>5. used \in Nat /\ used <= job.budget
    BY ONLY <2>1, <2>3
  <2>6. QED
    BY <2>2, <2>4, <2>5
<1>11. job' = [job EXCEPT !.raw = raw, !.used = used, !.results = results]
  BY <1>1
<1> HIDE DEF raw, used, results
<1>12. /\ job' \in Job /\ job'.kind = "context" /\ job'.alone = job.alone
       /\ job'.seed = job.seed /\ job'.budget = job.budget /\ job'.body = 0
       /\ job'.offset = job.offset /\ job'.skipped = job.skipped
       /\ job'.limit = job.limit
       /\ job'.raw = raw /\ job'.used = used /\ job'.results = results
  BY <1>1, <1>2, <1>3, <1>10, <1>11 DEF Job
<1>13. Taken(job', fitting, V) /\ Counted(job')
  <2>1. Counted(job')
    BY <1>12 DEF Counted, raw, b
  <2>2. RunOf(fitting, shown)
    <3>1. \A i \in 1..Len(fitting) : 0 + i \in 1..Len(shown) /\ fitting[i] = shown[0 + i]
      BY <1>6, <1>7
    <3>2. QED
      BY <3>1 DEF RunOf
  <2>3. QED
    BY <1>4, <1>7, <1>12, <2>1, <2>2 DEF Taken, results, shown
<1>14. StateOK'
  BY <1>1, <1>3, <1>12 DEF StateOK
<1>15. ReadInv'
  <2>1. IF job'.alone THEN job'.raw = 1 ELSE job'.raw <= maxReadWindow
    BY <1>1, <1>3, <1>13, SeenGrows
  <2>2. pc' = "load" /\ job'.raw = 0 => job'.results = << >>
    <3> SUFFICES ASSUME job'.raw = 0 PROVE job'.results = << >>
      OBVIOUS
    <3>1. job.raw = 0 /\ b = 0
      BY <1>2, <1>4, <1>12 DEF raw
    <3>2. Batch(job) \in SUBSET Row
      BY <1>1, <1>3, BatchIs
    <3>3. Batch(job) = {}
      BY <3>1, <3>2, InOrder, FS_EmptySet DEF b
    <3>4. V = {}
      BY <1>4, <3>3
    <3>5. Len(shown) = 0
      <4>1. V \in SUBSET Row /\ Cardinality(V) = 0
        BY <1>4, <3>4, FS_EmptySet
      <4>2. QED
        BY <4>1, InOrder DEF shown
    <3>6. Len(fitting) = 0
      BY <1>6, <1>7, <3>5
    <3>7. job.results = << >>
      BY <1>1, <1>3, <3>1 DEF ReadInv
    <3>8. QED
      BY <1>7, <1>12, <3>6, <3>7 DEF results
  <2>3. /\ job.offset = 0 /\ Allowed(job.seed) /\ job.skipped <= job.offset
    BY <1>1, <1>3 DEF ReadInv
  <2>4. pc' # "idle"
    BY <1>1
  <2>5. job'.alone => job'.raw <= 1
    BY <2>1
  <2>6. QED
    BY <1>12, <2>1, <2>2, <2>3, <2>4, <2>5 DEF ReadInv, Allowed
<1>16. SpentInv'
  <2>1. job'.used = SizeOf(job'.results)
    BY <1>10, <1>12
  <2>2. job'.used + job'.body <= job'.budget
    BY <1>2, <1>10, <1>12
  <2>3. QED
    BY <1>12, <2>1, <2>2 DEF SpentInv
<1>17. RepeatInv'
  BY <1>1, <1>3, <1>12, <1>13, TakenRepeats DEF RepeatInv
<1>18. OverlookInv'
  BY <1>12 DEF OverlookInv
<1>19. ExactInv'
  <2> DEFINE X    == {job.seed}
             old  == Newest(Seen(job, table) \ X)
             seen == Newest(Seen(job', table) \ X)
             all  == Newest(Shown(job', table) \ X)
             rest == Newest((Shown(job', table) \ Seen(job', table)) \ X)
  <2> SUFFICES ASSUME Undisturbed
               PROVE  /\ before = table
                      /\ pc' = "load" => results = seen
                      /\ pc' = "loaded" => results = Fitting(all, job.budget)
    BY <1>1, <1>12 DEF ExactInv, Undisturbed
  <2>1. before = table /\ job.results = old
    BY <1>1 DEF PageInv, ExactInv
  <2>2. /\ Seen(job, table) \in SUBSET Row /\ Seen(job', table) \in SUBSET Row
        /\ Shown(job', table) \in SUBSET Row
        /\ seen = old \o shown /\ all = seen \o rest
    <3>1. V = {x \in Batch(job) : Allowed(x)} \ X
      BY DEF V
    <3>2. /\ Seen(job, table) \in SUBSET Row /\ Seen(job', table) \in SUBSET Row
          /\ Shown(job', table) \in SUBSET Row
          /\ seen = old \o Newest({x \in Batch(job) : Allowed(x)} \ X)
          /\ all = seen \o rest
      BY <1>1, <1>3, <1>13, SeenInOrder
    <3>3. QED
      BY <3>1, <3>2 DEF shown
  <2>3. old \in Seq(Row) /\ seen \in Seq(Row) /\ rest \in Seq(Row)
    <3>1. /\ Seen(job, table) \ X \in SUBSET Row /\ Seen(job', table) \ X \in SUBSET Row
          /\ (Shown(job', table) \ Seen(job', table)) \ X \in SUBSET Row
      BY <2>2
    <3>2. QED
      BY <3>1, InOrder
  <2>4. Seen(job', table) = Shown(job', table) => seen = all
    OBVIOUS
  <2> HIDE DEF old, seen, all, rest
  <2>5. SizeOf(old) = job.used /\ SizeOf(old) <= job.budget
    BY <1>2, <1>3, <2>1
  <2>6. \A s \in Seq(Row) : Fitting(old \o s, job.budget) = old \o Fitting(s, left)
    <3>1. left = job.budget - SizeOf(old)
      BY <2>5 DEF left
    <3>2. \A s \in Seq(Row) : Fitting(old \o s, job.budget) =
                                 old \o Fitting(s, job.budget - SizeOf(old))
      BY <1>2, <2>3, <2>5, FittingConcat
    <3>3. QED
      BY <3>1, <3>2
  <2>7. ASSUME pc' = "load" PROVE results = seen
    BY <1>1, <2>1, <2>2, <2>7 DEF results
  <2>8. ASSUME pc' = "loaded" PROVE results = Fitting(all, job.budget)
    <3>1. old \o shown \in Seq(Row) /\ shown \o rest \in Seq(Row)
          /\ (old \o shown) \o rest = old \o (shown \o rest)
      BY <1>5, <2>3
    <3>2. CASE fitting # shown
      <4>1. Fitting(shown \o rest, left) = fitting
        BY <1>5, <2>3, <3>2, FittingConcat DEF fitting
      <4>2. Fitting(old \o (shown \o rest), job.budget) = old \o fitting
        BY <2>6, <3>1, <4>1
      <4>3. QED
        BY <2>1, <2>2, <3>1, <4>2 DEF results
    <3>3. CASE ~More(job, Batch(job))
      <4>1. seen = all
        BY <1>1, <1>3, <1>13, <2>4, <3>3, SeenAll
      <4>2. Fitting(old \o shown, job.budget) = old \o fitting
        BY <1>5, <2>6 DEF fitting
      <4>3. QED
        BY <2>1, <2>2, <4>1, <4>2 DEF results
    <3>4. QED
      BY <1>1, <2>8, <3>2, <3>3
  <2>9. QED
    BY <2>1, <2>7, <2>8
<1>20. ExactAnswer' /\ SeedShown'
  BY <1>1 DEF ExactAnswer, SeedShown
<1>21. QED
  BY <1>14, <1>15, <1>16, <1>17, <1>18, <1>19, <1>20 DEF PageInv


\* A read that begins has seen nothing.
LEMMA NothingSeen ==
    ASSUME ReadPageAssumption, NEW S \in SUBSET Row, NEW k \in Job, k.raw = 0
    PROVE  /\ Seen(k, S) = {} /\ Newest({}) = << >>
           /\ \A x \in S : ~(Rank(S, x) <= k.raw)
<1>1. S \in SUBSET Int /\ IsFiniteSet(S) /\ Cardinality(S) \in Nat
  BY InOrder
<1>2. \A x \in S : Rank(S, x) \in Nat /\ 1 <= Rank(S, x)
  BY <1>1, RankFalls
<1>3. \A x \in S : ~(Rank(S, x) <= 0)
  BY <1>2
<1>4. Query(S, 0, 0) = {}
  BY <1>2 DEF Query
<1>5. Seen(k, S) = {}
  BY <1>4 DEF Seen
<1>6. Newest({}) = << >>
  <2>1. {} \in SUBSET Row /\ Cardinality({}) = 0
    BY FS_EmptySet
  <2>2. Newest({}) \in Seq(Row) /\ Len(Newest({})) = 0
    BY <2>1, InOrder
  <2>3. QED
    BY <2>2
<1>7. QED
  BY <1>3, <1>5, <1>6

\* A read as Start begins it.
Begun(k) ==
    /\ k \in Job /\ k.raw = 0 /\ k.skipped = 0 /\ k.used = 0 /\ k.body = 0
    /\ k.results = << >>
    /\ k.kind = "page" => ~k.alone
    /\ k.kind # "page" => k.offset = 0 /\ k.seed \in Visible
    /\ k.kind # "context" => k.limit >= 1 /\ k.limit + k.offset <= maxReadWindow

LEMMA StartBegins ==
    ASSUME ReadPageAssumption, PageInv, Start
    PROVE  /\ Begun(job') /\ pc = "idle" /\ pc' = "load" /\ before' = table
           /\ table' = table /\ changes' = changes
<1>1. /\ pc = "idle" /\ pc' = "load" /\ before' = table /\ table' = table
      /\ changes' = changes
  BY DEF Start
<1>2. table \in SUBSET Row
  BY DEF PageInv, StateOK
<1>9. PICK any \in Row : job = NewJob("page", 0, 0, 0, any, FALSE)
  <2>1. job \in Job /\ job = NewJob("page", 0, 0, 0, job.seed, FALSE)
    BY <1>1 DEF PageInv, StateOK, ReadInv
  <2>2. job.seed \in Row
    BY <2>1 DEF Job
  <2>3. QED
    BY <2>1, <2>2
<1>3. maxReadWindow \in Nat /\ Budget \subseteq Nat
  BY DEF ReadPageAssumption
<1>4. ASSUME NEW limit \in 1..maxReadWindow, NEW offset \in 0..maxReadWindow,
             limit + offset <= maxReadWindow,
             job' = [job EXCEPT !.kind = "page", !.limit = limit, !.offset = offset]
      PROVE  Begun(job')
  <2>1. limit \in Nat /\ offset \in Nat /\ limit >= 1
    BY <1>3
  <2>2. job' = NewJob("page", limit, offset, 0, any, FALSE)
    BY <1>4, <1>9 DEF NewJob
  <2>3. "page" \in Kind /\ FALSE \in BOOLEAN /\ 0 \in Nat
    BY DEF Kind
  <2> DEFINE k == NewJob("page", limit, offset, 0, any, FALSE)
  <2>4. /\ k \in Job /\ k.raw = 0 /\ k.skipped = 0 /\ k.used = 0 /\ k.body = 0
        /\ k.results = << >> /\ k.kind = "page" /\ k.limit = limit
        /\ k.offset = offset /\ k.alone = FALSE
    <3>1. << >> \in Seq(Row)
      OBVIOUS
    <3>2. k \in Job
      BY <2>1, <2>3, <3>1 DEF NewJob, Job
    <3>3. QED
      BY <3>2 DEF NewJob
  <2> HIDE DEF k
  <2>5. Begun(k)
    BY <1>4, <2>1, <2>4 DEF Begun
  <2>6. QED
    BY <2>2, <2>5 DEF k
<1>5. ASSUME NEW seed \in table \cap Visible, NEW alone \in BOOLEAN,
             NEW limit \in 1..maxReadWindow,
             job' = NewJob("thread", limit, 0, 0, seed, alone)
      PROVE  Begun(job')
  <2>1. limit \in Nat /\ limit >= 1 /\ limit + 0 <= maxReadWindow
    BY <1>3
  <2>2. QED
    <3>1. "thread" \in Kind /\ 0 \in Nat /\ limit \in Nat /\ seed \in Row
      BY <1>2, <2>1 DEF Kind
    <3> DEFINE k == NewJob("thread", limit, 0, 0, seed, alone)
    <3>2. /\ k \in Job /\ k.raw = 0 /\ k.skipped = 0 /\ k.used = 0 /\ k.body = 0
          /\ k.results = << >> /\ k.kind = "thread" /\ k.offset = 0 /\ k.seed = seed
          /\ k.limit = limit
      <4>1. << >> \in Seq(Row)
        OBVIOUS
      <4>2. k \in Job
        BY <3>1, <4>1 DEF NewJob, Job
      <4>3. QED
        BY <4>2 DEF NewJob
    <3> HIDE DEF k
    <3>3. Begun(k)
      BY <2>1, <3>2 DEF Begun
    <3>4. QED
      BY <1>5, <3>3 DEF k
<1>6. ASSUME NEW seed \in table \cap Visible, NEW alone \in BOOLEAN,
             NEW budget \in Budget,
             job' = NewJob("context", 0, 0, budget, seed, alone)
      PROVE  Begun(job')
  <2>1. "context" \in Kind /\ 0 \in Nat /\ budget \in Nat /\ seed \in Row
    BY <1>2, <1>3 DEF Kind
  <2> DEFINE k == NewJob("context", 0, 0, budget, seed, alone)
  <2>2. /\ k \in Job /\ k.raw = 0 /\ k.skipped = 0 /\ k.used = 0 /\ k.body = 0
        /\ k.results = << >> /\ k.kind = "context" /\ k.offset = 0 /\ k.seed = seed
    <3>1. << >> \in Seq(Row)
      OBVIOUS
    <3>2. k \in Job
      BY <2>1, <3>1 DEF NewJob, Job
    <3>3. QED
      BY <3>2 DEF NewJob
  <2> HIDE DEF k
  <2>3. Begun(k)
    BY <2>2 DEF Begun
  <2>4. QED
    BY <1>6, <2>3 DEF k
<1>7. Begun(job')
  BY <1>4, <1>5, <1>6 DEF Start
<1>8. QED
  BY <1>1, <1>7

LEMMA SliceOfNothing ==
    ASSUME NEW n \in Nat, NEW k \in Nat
    PROVE  Slice(<< >>, n, k) = << >>
<1> DEFINE r == Slice(<< >>, n, k)
<1>1. << >> \in Seq(Row) /\ Len(<< >>) = 0
  OBVIOUS
<1>2. /\ r \in Seq(Row)
      /\ Len(r) = IF k >= Len(<< >>) THEN 0 ELSE Least(n, Len(<< >>) - k)
  BY ONLY <1>1, n \in Nat, k \in Nat, SliceIs
<1> HIDE DEF r
<1>3. Len(r) = 0
  BY <1>1, <1>2
<1>4. QED
  BY <1>2, <1>3 DEF r

LEMMA StartStep ==
    ASSUME ReadPageAssumption, PageInv, Start
    PROVE  PageInv'
<1>1. /\ Begun(job') /\ pc = "idle" /\ pc' = "load" /\ before' = table
      /\ table' = table /\ changes' = changes
  BY StartBegins
<1>2. /\ table \in SUBSET Row /\ changes \in [inserted: Nat, deleted: Nat]
  BY DEF PageInv, StateOK
<1>3. job' \in Job /\ job'.raw = 0 /\ job'.results = << >> /\ Len(job'.results) = 0
  BY <1>1 DEF Begun
<1>4. /\ Seen(job', table) = {} /\ Newest({}) = << >>
      /\ \A x \in table : ~(Rank(table, x) <= job'.raw)
  BY <1>2, <1>3, NothingSeen
<1>5. StateOK'
  BY <1>1, <1>2, <1>3 DEF StateOK
<1>6. ReadInv'
  <2>1. job'.limit \in Nat /\ maxReadWindow \in Nat /\ job'.offset \in Nat
    BY <1>3 DEF Job, ReadPageAssumption
  <2>2. QED
    BY <1>1, <1>3, <2>1 DEF Begun, ReadInv, Allowed
<1>7. SpentInv'
  <2>1. SizeOf(<< >>) = 0
    <3>1. << >> \in Seq(Row) /\ << >> \o << >> = << >>
      OBVIOUS
    <3>2. SizeOf(<< >> \o << >>) = SizeOf(<< >>) + SizeOf(<< >>) /\ SizeOf(<< >>) \in Nat
      BY <3>1, SizeOfConcat
    <3>3. QED
      BY <3>1, <3>2
  <2>2. job'.used = 0 /\ job'.body = 0 /\ job'.budget \in Nat
    BY <1>1, <1>3 DEF Begun, Job
  <2>3. job'.used = SizeOf(job'.results) /\ job'.used + job'.body <= job'.budget
    BY <1>3, <2>1, <2>2
  <2>4. QED
    BY <2>2, <2>3 DEF SpentInv
<1>8. RepeatInv'
  <2>1. IsInjective(job'.results)
    BY <1>3 DEF IsInjective
  <2>2. \A i \in 1..Len(job'.results) : FALSE
    BY <1>3
  <2>3. QED
    BY <2>1, <2>2 DEF RepeatInv
<1>9. OverlookInv'
  BY <1>1, <1>4 DEF OverlookInv, Begun
<1>10. ExactInv'
  <2>1. Seen(job', table) \ {job'.seed} = {}
    BY <1>4
  <2>2. job'.offset \in Nat /\ job'.limit \in Nat /\ job'.skipped = 0
    BY <1>1, <1>3 DEF Begun, Job
  <2>3. Least(job'.offset, Len(<< >>)) = 0
    BY <2>2 DEF Least
  <2>4. Slice(<< >>, job'.limit, job'.offset) = << >>
    BY <2>2, SliceOfNothing
  <2>5. Newest(Seen(job', table) \ {job'.seed}) = << >> /\ Newest(Seen(job', table)) = << >>
    BY <1>4, <2>1
  <2>6. QED
    BY <1>1, <1>3, <2>2, <2>3, <2>4, <2>5 DEF ExactInv
<1>11. ExactAnswer' /\ SeedShown'
  BY <1>1 DEF ExactAnswer, SeedShown
<1>12. QED
  BY <1>5, <1>6, <1>7, <1>8, <1>9, <1>10, <1>11 DEF PageInv

-----------------------------------------------------------------------------
(* The seed of a thread *)

\* The front of the front of a sequence.
LEMMA SliceSlice ==
    ASSUME NEW R, NEW s \in Seq(R), NEW m \in Nat, NEW n \in Nat, n <= m
    PROVE  Slice(Slice(s, m, 0), n, 0) = Slice(s, n, 0)
<1> DEFINE a == Slice(s, m, 0)
           b == Slice(a, n, 0)
           c == Slice(s, n, 0)
<1>1. 0 \in Nat /\ Len(s) \in Nat
  OBVIOUS
<1>2. /\ a \in Seq(R) /\ Len(a) = IF 0 >= Len(s) THEN 0 ELSE Least(m, Len(s) - 0)
      /\ \A i \in 1..Len(a) : 0 + i \in 1..Len(s) /\ a[i] = s[0 + i]
  BY <1>1, SliceIs
<1>3. /\ c \in Seq(R) /\ Len(c) = IF 0 >= Len(s) THEN 0 ELSE Least(n, Len(s) - 0)
      /\ \A i \in 1..Len(c) : 0 + i \in 1..Len(s) /\ c[i] = s[0 + i]
  BY <1>1, SliceIs
<1> HIDE DEF a
<1>4. /\ b \in Seq(R) /\ Len(b) = IF 0 >= Len(a) THEN 0 ELSE Least(n, Len(a) - 0)
      /\ \A i \in 1..Len(b) : 0 + i \in 1..Len(a) /\ b[i] = a[0 + i]
  <2>1. a \in Seq(R)
    BY <1>2
  <2>2. QED
    BY ONLY <1>1, <2>1, n \in Nat, SliceIs
<1> HIDE DEF b, c
<1>5. Len(a) \in Nat /\ Len(b) \in Nat /\ Len(c) \in Nat
  BY <1>2, <1>3, <1>4
<1>6. Len(b) = Len(c)
  BY <1>1, <1>2, <1>3, <1>4, <1>5 DEF Least
<1>7. \A i \in 1..Len(b) : b[i] = s[i]
  BY <1>2, <1>4, <1>5
<1>8. \A i \in 1..Len(c) : c[i] = s[i]
  BY <1>3, <1>5
<1>9. b = c
  BY <1>3, <1>4, <1>6, <1>7, <1>8
<1>10. QED
  BY <1>9 DEF a, b, c

\* What IncludeSeed leaves alone, and its two cases.
Kept(k) ==
    /\ k \in Job /\ k.kind = job.kind /\ k.limit = job.limit /\ k.offset = job.offset
    /\ k.seed = job.seed /\ k.alone = job.alone /\ k.raw = job.raw
    /\ k.skipped = job.skipped /\ k.used = job.used /\ k.budget = job.budget

LEMMA IncludeSeedIs ==
    ASSUME ReadPageAssumption, StateOK, ReadInv, IncludeSeed
    PROVE  /\ pc = "loaded" /\ pc' = "done" /\ job.kind # "context"
           /\ table' = table /\ before' = before /\ changes' = changes
           /\ Kept(job')
           /\ \/ job' = job /\ (job.kind = "page" \/ Contains(job.results, job.seed))
              \/ /\ job.kind = "thread" /\ ~Contains(job.results, job.seed)
                 /\ job'.results = <<job.seed>> \o Slice(job.results, job.limit - 1, 0)
<1> DEFINE s == job.results
           r == <<job.seed>> \o Slice(s, job.limit - 1, 0)
<1>1. /\ pc = "loaded" /\ pc' = "done" /\ job.kind # "context"
      /\ table' = table /\ before' = before /\ changes' = changes
      /\ job' = [job EXCEPT !.results =
                   IF job.kind = "page" \/ Contains(s, job.seed) THEN s ELSE r]
  BY DEF IncludeSeed
<1>2. job \in Job /\ s \in Seq(Row) /\ job.seed \in Row /\ job.limit \in Nat /\ job.kind \in Kind
  BY DEF StateOK, Job
<1>3. job.limit - 1 \in Nat
  BY <1>1, <1>2 DEF ReadInv
<1>4. r \in Seq(Row)
  <2>1. Slice(s, job.limit - 1, 0) \in Seq(Row)
    BY <1>2, <1>3, SliceIs
  <2> DEFINE t == Slice(s, job.limit - 1, 0)
  <2> HIDE DEF t
  <2>2. <<job.seed>> \in Seq(Row) /\ t \in Seq(Row)
    BY <1>2, <2>1 DEF t
  <2>3. <<job.seed>> \o t \in Seq(Row)
    BY <2>2
  <2>4. QED
    BY <2>3 DEF t
<1>5. CASE job.kind = "page" \/ Contains(s, job.seed)
  <2>1. job' = [job EXCEPT !.results = s]
    BY <1>1, <1>5
  <2>2. job' = job
    BY <1>2, <2>1 DEF Job
  <2>3. QED
    BY <1>1, <1>2, <1>5, <2>2 DEF Kept
<1>6. CASE ~(job.kind = "page" \/ Contains(s, job.seed))
  <2> HIDE DEF r
  <2>1. job' = [job EXCEPT !.results = r]
    BY <1>1, <1>6
  <2>2. Kept(job') /\ job'.results = r
    BY <1>2, <1>4, <2>1 DEF Kept, Job
  <2>3. job.kind = "thread"
    BY <1>1, <1>2, <1>6 DEF Kind
  <2>4. QED
    BY <1>1, <1>6, <2>2, <2>3 DEF r
<1>7. QED
  BY <1>5, <1>6

\* A sequence with one more element in front.
LEMMA InFront ==
    ASSUME NEW x \in Row, NEW t \in Seq(Row)
    PROVE  /\ <<x>> \o t \in Seq(Row) /\ Len(<<x>> \o t) = 1 + Len(t)
           /\ Contains(<<x>> \o t, x)
           /\ IsInjective(t) /\ (\A i \in 1..Len(t) : t[i] # x) => IsInjective(<<x>> \o t)
<1>1. /\ <<x>> \in Seq(Row) /\ Len(<<x>>) = 1 /\ Len(t) \in Nat /\ <<x>>[1] = x
      /\ <<x>> \o t \in Seq(Row) /\ Len(<<x>> \o t) = 1 + Len(t)
      /\ DOMAIN <<x>> = 1..1
  OBVIOUS
<1>2. Contains(<<x>>, x)
  BY <1>1 DEF Contains
<1>3. Contains(<<x>> \o t, x)
  BY <1>1, <1>2, ConcatContains
<1>4. ASSUME IsInjective(t), \A i \in 1..Len(t) : t[i] # x
      PROVE  IsInjective(<<x>> \o t)
  <2>1. IsInjective(<<x>>)
    BY <1>1 DEF IsInjective
  <2>2. \A i \in 1..Len(<<x>>), k \in 1..Len(t) : <<x>>[i] # t[k]
    BY <1>1, <1>4
  <2>3. QED
    BY <1>1, <1>4, <2>1, <2>2, ConcatInjective
<1>5. QED
  BY <1>1, <1>3, <1>4

\* The front of a sequence without x, x before it.
LEMMA SeedInFront ==
    ASSUME NEW x \in Row, NEW s \in Seq(Row), NEW n \in Nat, ~Contains(s, x)
    PROVE  LET r == <<x>> \o Slice(s, n, 0)
           IN /\ r \in Seq(Row) /\ Len(r) <= n + 1 /\ Contains(r, x)
              /\ IsInjective(s) => IsInjective(r)
<1> DEFINE t == Slice(s, n, 0)
           r == <<x>> \o t
<1>1. Len(s) \in Nat /\ DOMAIN s = 1..Len(s) /\ \A i \in 1..Len(s) : s[i] # x
  BY DEF Contains
<1>2. /\ t \in Seq(Row) /\ Len(t) <= n
      /\ \A i \in 1..Len(t) : 0 + i \in 1..Len(s) /\ t[i] = s[0 + i]
  BY SliceIs
<1> HIDE DEF t
<1>3. Len(t) \in Nat /\ DOMAIN t = 1..Len(t)
  BY <1>2
<1>4. \A i \in 1..Len(t) : i \in 1..Len(s) /\ t[i] = s[i]
  BY <1>2, <1>3
<1>5. \A i \in 1..Len(t) : t[i] # x
  BY <1>1, <1>4
<1>6. ASSUME IsInjective(s) PROVE IsInjective(t)
  BY <1>1, <1>3, <1>4, <1>6 DEF IsInjective
<1>7. /\ r \in Seq(Row) /\ Len(r) = 1 + Len(t) /\ Contains(r, x)
      /\ IsInjective(t) => IsInjective(r)
  BY <1>2, <1>5, InFront
<1> HIDE DEF r
<1>8. Len(r) <= n + 1
  BY <1>2, <1>3, <1>7
<1>9. QED
  BY <1>6, <1>7, <1>8 DEF r, t


LEMMA IncludeSeedExact ==
    ASSUME ReadPageAssumption, StateOK, ReadInv, ExactInv, IncludeSeed, Undisturbed
    PROVE  LET newest == Newest(Shown(job, before))
               first  == Slice(newest, job.limit, 0)
           IN job'.results =
                CASE job.kind = "page" -> Slice(newest, job.limit, job.offset)
                  [] job.kind = "thread" ->
                       IF Contains(first, job.seed) THEN first
                       ELSE <<job.seed>> \o Slice(newest, job.limit - 1, 0)
                  [] job.kind = "context" ->
                       Fitting(Newest(Shown(job, before) \ {job.seed}), job.budget)
<1> DEFINE newest == Newest(Shown(job, before))
           s == job.results
<1>1. /\ pc = "loaded" /\ job.kind # "context"
      /\ \/ job' = job /\ (job.kind = "page" \/ Contains(s, job.seed))
         \/ /\ job.kind = "thread" /\ ~Contains(s, job.seed)
            /\ job'.results = <<job.seed>> \o Slice(s, job.limit - 1, 0)
  BY IncludeSeedIs
<1>2. s = Slice(newest, job.limit, job.offset)
  BY <1>1 DEF ExactInv
<1>3. newest \in Seq(Row)
  <2>1. Shown(job, before) \in SUBSET Row
    BY DEF Shown, Query, Job, StateOK
  <2>2. QED
    BY <2>1, InOrder
<1>4. job.limit \in Nat /\ job.limit - 1 \in Nat /\ job.limit - 1 <= job.limit
  BY <1>1 DEF StateOK, Job, ReadInv
<1> HIDE DEF newest
<1>5. CASE job.kind = "page"
  <2>1. job' = job
    BY <1>1, <1>5
  <2>2. QED
    BY <1>2, <1>5, <2>1 DEF newest
<1>6. CASE job.kind = "thread"
  <2>1. job.offset = 0
    BY <1>6 DEF ReadInv
  <2>2. s = Slice(newest, job.limit, 0)
    BY <1>2, <2>1
  <2>3. Slice(s, job.limit - 1, 0) = Slice(newest, job.limit - 1, 0)
    BY <1>3, <1>4, <2>2, SliceSlice
  <2>4. job'.results = IF Contains(s, job.seed) THEN s
                       ELSE <<job.seed>> \o Slice(newest, job.limit - 1, 0)
    BY <1>1, <1>6, <2>3
  <2>5. job.kind # "page"
    BY <1>6
  <2>6. QED
    BY <1>6, <2>2, <2>4, <2>5 DEF newest
<1>7. job.kind \in {"page", "thread"}
  BY <1>1 DEF StateOK, Job, Kind
<1>8. QED
  BY <1>5, <1>6, <1>7

LEMMA IncludeSeedStep ==
    ASSUME ReadPageAssumption, PageInv, IncludeSeed
    PROVE  PageInv'
<1>1. StateOK /\ ReadInv /\ RepeatInv /\ OverlookInv /\ ExactInv
  BY DEF PageInv
<1>2. /\ pc = "loaded" /\ pc' = "done" /\ job.kind # "context"
      /\ table' = table /\ before' = before /\ changes' = changes
      /\ Kept(job')
      /\ \/ job' = job /\ (job.kind = "page" \/ Contains(job.results, job.seed))
         \/ /\ job.kind = "thread" /\ ~Contains(job.results, job.seed)
            /\ job'.results = <<job.seed>> \o Slice(job.results, job.limit - 1, 0)
  BY <1>1, IncludeSeedIs
<1>3. /\ job'.results \in Seq(Row) /\ Len(job'.results) <= job.limit
      /\ IsInjective(job.results) => IsInjective(job'.results)
      /\ job.kind = "page" \/ Contains(job'.results, job.seed)
  <2>1. /\ job.results \in Seq(Row) /\ job.seed \in Row /\ job.limit \in Nat
        /\ job.limit >= 1 /\ Len(job.results) <= job.limit
    BY <1>1, <1>2 DEF StateOK, Job, ReadInv
  <2>2. CASE job' = job /\ (job.kind = "page" \/ Contains(job.results, job.seed))
    BY <2>1, <2>2
  <2>3. CASE /\ job.kind = "thread" /\ ~Contains(job.results, job.seed)
             /\ job'.results = <<job.seed>> \o Slice(job.results, job.limit - 1, 0)
    <3>1. job.limit - 1 \in Nat /\ (job.limit - 1) + 1 = job.limit
      BY <2>1
    <3> DEFINE n == job.limit - 1
    <3> HIDE DEF n
    <3>2. LET r == <<job.seed>> \o Slice(job.results, n, 0)
          IN /\ r \in Seq(Row) /\ Len(r) <= n + 1 /\ Contains(r, job.seed)
             /\ IsInjective(job.results) => IsInjective(r)
      BY <2>1, <2>3, <3>1, SeedInFront DEF n
    <3>3. QED
      BY <2>3, <3>1, <3>2 DEF n
  <2>4. QED
    BY <1>2, <2>2, <2>3
<1>4. StateOK'
  BY <1>1, <1>2 DEF StateOK, Kept
<1>5. ReadInv'
  <2>1. job.limit >= 1 /\ job.limit + job.offset <= maxReadWindow
    BY <1>1, <1>2 DEF ReadInv
  <2>2. job.skipped <= job.offset /\ (IF job.alone THEN job.raw <= 1 ELSE job.raw <= maxReadWindow)
    BY <1>1 DEF ReadInv
  <2>3. /\ job.kind = "page" => ~job.alone
        /\ job.kind # "page" => job.offset = 0 /\ Allowed(job.seed)
    BY <1>1 DEF ReadInv
  <2>4. QED
    BY <1>2, <1>3, <2>1, <2>2, <2>3 DEF ReadInv, Kept, Allowed
<1>6. SpentInv'
  BY <1>2 DEF SpentInv, Kept
<1>7. RepeatInv'
  BY <1>1, <1>2, <1>3 DEF RepeatInv
<1>8. OverlookInv'
  <2>1. CASE job.kind = "page"
    <3>1. job' = job
      BY <1>2, <2>1
    <3>2. QED
      BY <1>1, <1>2, <3>1 DEF OverlookInv
  <2>2. CASE job.kind # "page"
    BY <1>2, <2>2 DEF OverlookInv, Kept
  <2>3. QED
    BY <2>1, <2>2
<1>9. ExactInv'
  BY <1>1, <1>2 DEF ExactInv, Undisturbed
<1>10. ExactAnswer'
  <2> SUFFICES ASSUME Undisturbed' PROVE ExactAnswer'
    BY DEF ExactAnswer
  <2>1. Undisturbed
    BY <1>2 DEF Undisturbed
  <2>2. Shown(job', before') = Shown(job, before)
    BY <1>2 DEF Shown, Kept, Query, Rank, Allowed
  <2>3. QED
    BY <1>1, <1>2, <2>1, <2>2, IncludeSeedExact DEF ExactAnswer, Kept
<1>11. SeedShown'
  BY <1>2, <1>3 DEF SeedShown, Kept
<1>12. QED
  BY <1>4, <1>5, <1>6, <1>7, <1>8, <1>9, <1>10, <1>11 DEF PageInv


-----------------------------------------------------------------------------
(* The other steps *)

LEMMA TruncateBodyStep ==
    ASSUME ReadPageAssumption, PageInv, TruncateBody
    PROVE  PageInv'
<1> DEFINE left == job.budget - job.used
           body == Least(BodySize[job.seed], Least(contextMax, left))
<1>1. /\ pc = "loaded" /\ pc' = "done" /\ job.kind = "context"
      /\ table' = table /\ before' = before /\ changes' = changes
      /\ job' = [job EXCEPT !.body = body]
  BY DEF TruncateBody
<1>2. StateOK /\ ReadInv /\ SpentInv /\ RepeatInv /\ ExactInv
  BY DEF PageInv
<1>3. /\ job \in Job /\ job.seed \in Row /\ job.budget \in Nat /\ job.used \in Nat
      /\ job.body \in Nat
  BY <1>2 DEF StateOK, Job
<1>4. BodySize[job.seed] \in Nat /\ contextMax \in Nat
  BY <1>3 DEF ReadPageAssumption
<1>5. left \in Nat
  <2>1. job.used + job.body <= job.budget
    BY <1>1, <1>2 DEF SpentInv
  <2>2. QED
    BY <1>3, <2>1
<1>6. body \in Nat /\ body <= left
  BY <1>4, <1>5 DEF Least
<1> HIDE DEF body
<1>7. Kept(job') /\ job'.results = job.results /\ job'.body = body
  BY <1>1, <1>3, <1>6 DEF Kept, Job
<1>8. StateOK'
  BY <1>1, <1>2, <1>7 DEF StateOK, Kept
<1>9. ReadInv'
  <2>1. job.skipped <= job.offset /\ (IF job.alone THEN job.raw <= 1 ELSE job.raw <= maxReadWindow)
    BY <1>2 DEF ReadInv
  <2>2. job.offset = 0 /\ Allowed(job.seed)
    BY <1>1, <1>2 DEF ReadInv
  <2>3. QED
    BY <1>1, <1>7, <2>1, <2>2 DEF ReadInv, Kept, Allowed
<1>10. SpentInv'
  <2>1. job.used = SizeOf(job.results)
    BY <1>1, <1>2 DEF SpentInv
  <2>2. job.used + body <= job.budget
    BY <1>3, <1>6
  <2>3. SizeOf(job'.results) = SizeOf(job.results)
    BY <1>7
  <2>4. QED
    BY <1>1, <1>7, <2>1, <2>2, <2>3 DEF SpentInv, Kept
<1>11. RepeatInv'
  BY <1>1, <1>2, <1>7 DEF RepeatInv
<1>12. OverlookInv'
  BY <1>1, <1>7 DEF OverlookInv, Kept
<1>13. ExactInv'
  BY <1>1, <1>2 DEF ExactInv, Undisturbed
<1>14. ExactAnswer'
  <2> SUFFICES ASSUME Undisturbed' PROVE ExactAnswer'
    BY DEF ExactAnswer
  <2>1. Undisturbed
    BY <1>1 DEF Undisturbed
  <2>2. job.results = Fitting(Newest(Shown(job, before) \ {job.seed}), job.budget)
    BY <1>1, <1>2, <2>1 DEF ExactInv
  <2>3. Shown(job', before') = Shown(job, before)
    BY <1>1, <1>7 DEF Shown, Kept, Query, Rank, Allowed
  <2>4. QED
    BY <1>1, <1>7, <2>2, <2>3 DEF ExactAnswer, Kept
<1>15. SeedShown'
  BY <1>1, <1>7 DEF SeedShown, Kept
<1>16. QED
  BY <1>8, <1>9, <1>10, <1>11, <1>12, <1>13, <1>14, <1>15 DEF PageInv

LEMMA LoadFailsStep ==
    ASSUME ReadPageAssumption, PageInv, LoadFails
    PROVE  PageInv'
<1>1. /\ pc = "load" /\ pc' = "failed" /\ job' = job
      /\ table' = table /\ before' = before /\ changes' = changes
  BY DEF LoadFails
<1>2. StateOK /\ ReadInv /\ SpentInv /\ RepeatInv /\ OverlookInv /\ ExactInv
  BY DEF PageInv
<1>3. StateOK'
  BY <1>1, <1>2 DEF StateOK
<1>4. ReadInv'
  BY <1>1, <1>2 DEF ReadInv
<1>5. SpentInv'
  BY <1>1, <1>2 DEF SpentInv
<1>6. RepeatInv'
  BY <1>1, <1>2 DEF RepeatInv
<1>7. OverlookInv'
  BY <1>1, <1>2 DEF OverlookInv
<1>8. ExactInv'
  BY <1>1, <1>2 DEF ExactInv, Undisturbed
<1>9. ExactAnswer' /\ SeedShown'
  BY <1>1 DEF ExactAnswer, SeedShown
<1>10. QED
  BY <1>3, <1>4, <1>5, <1>6, <1>7, <1>8, <1>9 DEF PageInv

\* A row is no further down in a part of the table.
LEMMA RankOfPart ==
    ASSUME ReadPageAssumption, NEW T \in SUBSET Row, NEW S \in SUBSET T, NEW x
    PROVE  Rank(S, x) \in Nat /\ Rank(T, x) \in Nat /\ Rank(S, x) <= Rank(T, x)
<1> DEFINE A == {y \in S : y >= x}
           B == {y \in T : y >= x}
<1>1. A \subseteq B /\ B \in SUBSET Row
  OBVIOUS
<1>2. IsFiniteSet(B)
  BY <1>1, InOrder
<1>3. IsFiniteSet(A) /\ Cardinality(A) <= Cardinality(B)
  BY <1>1, <1>2, FS_Subset
<1>4. Cardinality(A) \in Nat /\ Cardinality(B) \in Nat
  BY <1>2, <1>3, FS_CardinalityType
<1>5. QED
  BY <1>3, <1>4 DEF Rank

LEMMA OthersStep ==
    ASSUME ReadPageAssumption, PageInv, Others
    PROVE  PageInv'
<1>1. /\ pc = "load" /\ pc' = pc /\ job' = job /\ before' = before
      /\ \E x \in Row : Insert(x) \/ Delete(x)
  BY DEF Others
<1>2. StateOK /\ ReadInv /\ SpentInv /\ RepeatInv /\ OverlookInv
  BY DEF PageInv
<1>3. table \in SUBSET Row /\ changes \in [inserted: Nat, deleted: Nat] /\ job.raw \in Nat
  BY <1>2 DEF StateOK, Job
<1>4. \/ /\ table' \in SUBSET Row /\ table \subseteq table'
         /\ changes'.inserted # 0 /\ changes'.deleted = changes.deleted
         /\ changes' \in [inserted: Nat, deleted: Nat]
      \/ /\ table' \subseteq table
         /\ changes'.deleted # 0 /\ changes'.inserted = changes.inserted
         /\ changes' \in [inserted: Nat, deleted: Nat]
  BY <1>1, <1>3 DEF Insert, Delete
<1>5. StateOK'
  BY <1>1, <1>2, <1>3, <1>4 DEF StateOK
<1>6. ReadInv'
  BY <1>1, <1>2 DEF ReadInv
<1>7. SpentInv'
  BY <1>1, <1>2 DEF SpentInv
<1>8. RepeatInv'
  <2> SUFFICES ASSUME changes'.inserted = 0 PROVE RepeatInv'
    BY DEF RepeatInv
  <2>1. table' \subseteq table /\ changes.inserted = 0
    BY <1>4
  <2>2. /\ IsInjective(job.results)
        /\ ~job.alone => \A i \in 1..Len(job.results) :
              job.results[i] \in table => Rank(table, job.results[i]) <= job.raw
    BY <1>1, <1>2, <2>1 DEF RepeatInv
  <2>3. ASSUME ~job.alone, NEW i \in 1..Len(job.results), job.results[i] \in table'
        PROVE  Rank(table', job.results[i]) <= job.raw
    <3>1. Rank(table, job.results[i]) <= job.raw
      BY <2>1, <2>2, <2>3
    <3>2. /\ Rank(table', job.results[i]) \in Nat /\ Rank(table, job.results[i]) \in Nat
          /\ Rank(table', job.results[i]) <= Rank(table, job.results[i])
      BY <1>3, <2>1, RankOfPart
    <3>3. QED
      BY <1>3, <3>1, <3>2
  <2>4. QED
    BY <1>1, <2>2, <2>3 DEF RepeatInv
<1>9. OverlookInv'
  <2> SUFFICES ASSUME job.kind = "page", job.offset = 0, changes'.deleted = 0
               PROVE  OverlookInv'
    BY <1>1 DEF OverlookInv
  <2>1. table' \in SUBSET Row /\ table \subseteq table' /\ changes.deleted = 0
    BY <1>4
  <2>2. /\ before \subseteq table /\ job.skipped = 0
        /\ \A x \in before : Allowed(x) /\ Rank(table, x) <= job.raw =>
              Contains(job.results, x)
    BY <1>1, <1>2, <2>1 DEF OverlookInv
  <2>3. ASSUME NEW x \in before, Allowed(x), Rank(table', x) <= job.raw
        PROVE  Contains(job.results, x)
    <3>1. /\ Rank(table, x) \in Nat /\ Rank(table', x) \in Nat
          /\ Rank(table, x) <= Rank(table', x)
      BY <2>1, RankOfPart
    <3>2. Rank(table, x) <= job.raw
      BY <1>3, <2>3, <3>1
    <3>3. QED
      BY <2>2, <2>3, <3>2
  <2>4. before \subseteq table'
    BY <2>1, <2>2
  <2>5. QED
    BY <1>1, <2>2, <2>3, <2>4 DEF OverlookInv, Allowed
<1>10. ExactInv'
  BY <1>4 DEF ExactInv, Undisturbed
<1>11. ExactAnswer' /\ SeedShown'
  BY <1>1 DEF ExactAnswer, SeedShown
<1>12. QED
  BY <1>5, <1>6, <1>7, <1>8, <1>9, <1>10, <1>11 DEF PageInv

LEMMA InitPage ==
    ASSUME ReadPageAssumption, Init
    PROVE  PageInv
<1>1. /\ table \in SUBSET Row /\ table # {} /\ pc = "idle" /\ before = table
      /\ changes = [inserted |-> 0, deleted |-> 0]
  BY DEF Init
<1>2. PICK any \in Row : job = NewJob("page", 0, 0, 0, any, FALSE)
  <2>1. (CHOOSE x \in Row : TRUE) \in Row
    BY <1>1
  <2>2. QED
    BY <2>1 DEF Init
<1>3. /\ job \in Job /\ job.kind = "page" /\ job.alone = FALSE /\ job.raw = 0
      /\ job.skipped = 0 /\ job.offset = 0 /\ job.results = << >> /\ job.seed = any
  <2>1. "page" \in Kind /\ 0 \in Nat /\ FALSE \in BOOLEAN /\ << >> \in Seq(Row)
    BY DEF Kind
  <2> DEFINE k == NewJob("page", 0, 0, 0, any, FALSE)
  <2>2. k \in Job
    BY <2>1 DEF NewJob, Job
  <2>3. /\ k.kind = "page" /\ k.alone = FALSE /\ k.raw = 0 /\ k.skipped = 0
        /\ k.offset = 0 /\ k.results = << >> /\ k.seed = any
    BY DEF NewJob
  <2> HIDE DEF k
  <2>4. job = k
    BY <1>2 DEF k
  <2>5. QED
    BY <2>2, <2>3, <2>4
<1>4. Undisturbed
  BY <1>1 DEF Undisturbed
<1>5. StateOK
  BY <1>1, <1>3 DEF StateOK
<1>6. ReadInv
  <2>1. job = NewJob("page", 0, 0, 0, job.seed, FALSE)
    BY <1>2, <1>3
  <2>2. maxReadWindow \in Nat
    BY DEF ReadPageAssumption
  <2>3. pc = "idle" => /\ job = NewJob("page", 0, 0, 0, job.seed, FALSE)
                       /\ before = table /\ Undisturbed
    BY <1>1, <1>4, <2>1
  <2>4. /\ job.kind = "page" => ~job.alone
        /\ job.kind # "page" => job.offset = 0 /\ Allowed(job.seed)
        /\ pc = "load" /\ job.raw = 0 => job.results = << >>
    BY <1>3
  <2>5. /\ IF job.alone THEN job.raw <= 1 ELSE job.raw <= maxReadWindow
        /\ job.skipped <= job.offset
    BY <1>3, <2>2
  <2>6. QED
    BY <1>1, <2>3, <2>4, <2>5, Zenon DEF ReadInv
<1>7. SpentInv
  BY <1>3 DEF SpentInv
<1>8. RepeatInv
  <2>1. IsInjective(job.results)
    BY <1>3 DEF IsInjective
  <2>2. QED
    BY <1>1, <2>1 DEF RepeatInv
<1>9. OverlookInv /\ ExactInv /\ ExactAnswer /\ SeedShown
  BY <1>1 DEF OverlookInv, ExactInv, ExactAnswer, SeedShown
<1>10. QED
  BY <1>5, <1>6, <1>7, <1>8, <1>9 DEF PageInv

LEMMA StutterStep ==
    ASSUME PageInv, UNCHANGED vars
    PROVE  PageInv'
<1>1. /\ table' = table /\ pc' = pc /\ job' = job /\ before' = before
      /\ changes' = changes
  BY DEF vars
<1>2. StateOK' /\ SpentInv' /\ RepeatInv' /\ OverlookInv' /\ SeedShown'
  BY <1>1 DEF PageInv, StateOK, SpentInv, RepeatInv, OverlookInv, SeedShown
<1>3. ReadInv'
  BY <1>1 DEF PageInv, ReadInv, Undisturbed
<1>4. ExactInv'
  BY <1>1 DEF PageInv, ExactInv, Undisturbed
<1>5. ExactAnswer'
  BY <1>1 DEF PageInv, ExactAnswer, Undisturbed
<1>6. QED
  BY <1>2, <1>3, <1>4, <1>5 DEF PageInv

-----------------------------------------------------------------------------
(* The theorems *)

LEMMA PageInvariant == Spec => []PageInv
<1>1. Init => PageInv
  BY ReadPageAssumption, InitPage
<1>2. PageInv /\ [Next]_vars => PageInv'
  <2> SUFFICES ASSUME PageInv, [Next]_vars PROVE PageInv'
    OBVIOUS
  <2>1. CASE Others
    BY <2>1, ReadPageAssumption, OthersStep
  <2>2. CASE Start
    BY <2>2, ReadPageAssumption, StartStep
  <2>3. CASE LoadPage
    BY <2>3, ReadPageAssumption, LoadPageStep
  <2>4. CASE LoadContext
    BY <2>4, ReadPageAssumption, LoadContextStep
  <2>5. CASE LoadFails
    BY <2>5, ReadPageAssumption, LoadFailsStep
  <2>6. CASE IncludeSeed
    BY <2>6, ReadPageAssumption, IncludeSeedStep
  <2>7. CASE TruncateBody
    BY <2>7, ReadPageAssumption, TruncateBodyStep
  <2>8. CASE Done
    BY <2>8, StutterStep DEF Done
  <2>9. CASE UNCHANGED vars
    BY <2>9, StutterStep
  <2>10. QED
    BY <2>1, <2>2, <2>3, <2>4, <2>5, <2>6, <2>7, <2>8, <2>9 DEF Next
<1>3. QED
  BY <1>1, <1>2, PTL DEF Spec

\* A read that nobody disturbs answers as if it had been one query over all that
\* is in reach, whatever its batches, offset and limit: a page from its offset
\* on, a thread with its seed, a context with what fits (daemon.go:584-718).
THEOREM AnswersAreExact == Spec => []ExactAnswer
<1>1. PageInv => ExactAnswer
  BY DEF PageInv
<1>2. QED
  BY <1>1, PageInvariant, PTL

\* A page, thread or context never shows a message twice while no row arrives,
\* whatever rows vanish between its batches (the OFFSET of daemon.go:604).
THEOREM NothingIsRepeated == Spec => []NoRepeat
<1>1. PageInv => NoRepeat
  BY DEF PageInv, RepeatInv, NoRepeat
<1>2. QED
  BY <1>1, PageInvariant, PTL

\* A page from the top that is not full overlooks no visible row that was there
\* when it began, however many arrive between its batches (daemon.go:622).
THEOREM NothingIsOverlooked == Spec => []NoneOverlooked
<1>1. PageInv => NoneOverlooked
  BY DEF PageInv, OverlookInv, NoneOverlooked
<1>2. QED
  BY <1>1, PageInvariant, PTL

\* A thread is never longer than its limit and always has the message it was
\* asked for, even one that was deleted meanwhile (includeSeedMessage,
\* daemon.go:663).
THEOREM ThreadsHaveTheirSeed == Spec => []SeedShown
<1>1. PageInv => SeedShown
  BY DEF PageInv
<1>2. QED
  BY <1>1, PageInvariant, PTL

\* What a context charges to its budget - the snippets of its timeline and the text
\* of its seed - never exceeds it together, over any number of batches
\* (daemon.go:683-718 and 536-552).  The seed's own snippet is not charged.
THEOREM BudgetsAreKept == Spec => []BudgetKept
<1>1. PageInv => BudgetKept
  BY DEF PageInv, SpentInv, BudgetKept
<1>2. QED
  BY <1>1, PageInvariant, PTL


=============================================================================
