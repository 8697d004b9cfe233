-------------------------------- MODULE Counting -------------------------------
(***************************************************************************)
(* Facts about numbers, finite sets and their orders that the proofs of    *)
(* several modules share.                                                  *)
(***************************************************************************)
EXTENDS Integers, Sequences, FiniteSets, FiniteSetsExt, FiniteSetTheorems,
        FunctionTheorems, WellFoundedInduction, TLAPS

\* A set of natural numbers that is not empty has a least element.
LEMMA LeastNat ==
    ASSUME NEW T \in SUBSET Nat, T # {}
    PROVE  \E m \in T : \A k \in T : m <= k
<1> DEFINE R == OpToRel(<, Nat)
<1>1. IsWellFoundedOn(R, Nat)
  BY NatLessThanWellFounded
<1> HIDE DEF R
<1>2. PICK x \in T : \A y \in T : ~(<<y, x>> \in R)
  BY <1>1, WFMin
<1>3. \A y \in T : ~(y < x)
  BY <1>2 DEF R, OpToRel
<1> QED
  BY <1>2, <1>3

\* A set of numbers up to n that is not empty has a least member, before which there
\* is none.
LEMMA FirstOf ==
    ASSUME NEW n \in Nat, NEW T \in SUBSET (1..n), T # {}
    PROVE  \E m \in 1..n : m \in T /\ \A k \in 1..(m - 1) : k \notin T
<1>1. T \in SUBSET Nat
  OBVIOUS
<1>2. PICK m \in T : \A k \in T : m <= k
  BY <1>1, LeastNat
<1> QED
  BY <1>2

\* R orders the members of S.
Orders(R, S) ==
    /\ \A a \in S : <<a, a>> \notin R
    /\ \A a, b, c \in S : <<a, b>> \in R /\ <<b, c>> \in R => <<a, c>> \in R
    /\ \A a, b \in S : a = b \/ <<a, b>> \in R \/ <<b, a>> \in R

\* How many members of S come before t.
Rank(R, S, t) == Cardinality({o \in S : <<o, t>> \in R})

LEMMA RankGrows ==
    ASSUME NEW S, NEW R, IsFiniteSet(S), Orders(R, S)
    PROVE  /\ \A t \in S : Rank(R, S, t) \in 0..(Cardinality(S) - 1)
           /\ \A t, u \in S : <<t, u>> \in R <=> Rank(R, S, t) < Rank(R, S, u)
<1> DEFINE B(t) == {o \in S : <<o, t>> \in R}
<1>1. Cardinality(S) \in Nat
  BY FS_CardinalityType
<1>2. \A t \in S : IsFiniteSet(B(t)) /\ Cardinality(B(t)) \in Nat
  <2> TAKE t \in S
  <2>1. B(t) \in SUBSET S
    OBVIOUS
  <2> QED
    BY <2>1, FS_Subset, FS_CardinalityType
<1>3. ASSUME NEW t \in S PROVE Cardinality(B(t)) < Cardinality(S)
  <2>1. B(t) \in SUBSET S /\ t \in S /\ t \notin B(t)
    BY DEF Orders
  <2>2. Cardinality(B(t)) <= Cardinality(S) /\ Cardinality(B(t)) # Cardinality(S)
    BY <2>1, FS_Subset
  <2> QED
    BY <1>1, <1>2, <2>2
<1>4. ASSUME NEW t \in S, NEW u \in S, <<t, u>> \in R PROVE Cardinality(B(t)) < Cardinality(B(u))
  <2>1. B(t) \in SUBSET B(u)
    BY <1>4 DEF Orders
  <2>2. t \in B(u) /\ t \notin B(t)
    BY <1>4 DEF Orders
  <2>3. Cardinality(B(t)) <= Cardinality(B(u)) /\ Cardinality(B(t)) # Cardinality(B(u))
    BY <1>2, <2>1, <2>2, FS_Subset
  <2> QED
    BY <1>2, <2>3
<1> HIDE DEF B
<1>5. \A t \in S : Rank(R, S, t) = Cardinality(B(t))
  BY DEF Rank, B
<1>6. ASSUME NEW t \in S, NEW u \in S PROVE <<t, u>> \in R <=> Cardinality(B(t)) < Cardinality(B(u))
  <2>1. t = u \/ <<t, u>> \in R \/ <<u, t>> \in R
    BY DEF Orders
  <2>2. <<t, t>> \notin R
    BY DEF Orders
  <2> QED
    BY <1>2, <1>4, <2>1, <2>2
<1> QED
  BY <1>1, <1>2, <1>3, <1>5, <1>6

\* Every place of the order is taken.
LEMMA RankTaken ==
    ASSUME NEW S, NEW R, IsFiniteSet(S), Orders(R, S),
           NEW k \in 0..(Cardinality(S) - 1)
    PROVE  \E t \in S : Rank(R, S, t) = k
<1> DEFINE f == [t \in S |-> Rank(R, S, t)]
           T == 0..(Cardinality(S) - 1)
<1>1. Cardinality(S) \in Nat
  BY FS_CardinalityType
<1>2. f \in [S -> T]
  BY RankGrows
<1>3. \A t, u \in S : f[t] = f[u] => t = u
  <2> SUFFICES ASSUME NEW t \in S, NEW u \in S, f[t] = f[u] PROVE t = u
    OBVIOUS
  <2>1. f[t] \in Int
    BY <1>1, <1>2
  <2>2. ~(<<t, u>> \in R) /\ ~(<<u, t>> \in R)
    BY <2>1, RankGrows
  <2> QED
    BY <2>2 DEF Orders
<1>4. IsFiniteSet(T) /\ Cardinality(T) = Cardinality(S)
  BY <1>1, FS_Interval
<1> HIDE DEF T
<1>5. f \in Injection(S, T)
  BY <1>2, <1>3 DEF Injection, IsInjective
<1>6. f \in Surjection(S, T)
  BY <1>4, <1>5, FS_Injection
<1>7. k \in T
  BY DEF T
<1>8. PICK t \in S : f[t] = k
  BY <1>6, <1>7 DEF Surjection
<1> QED
  BY <1>8

\* The values of a function on a finite set.
LEMMA FiniteValues ==
    ASSUME NEW S, IsFiniteSet(S), NEW f
    PROVE  IsFiniteSet({f[x] : x \in S})
<1> DEFINE T == {f[x] : x \in S}
           g == [x \in S |-> f[x]]
<1>1. g \in [S -> T] /\ \A t \in T : \E x \in S : g[x] = t
  OBVIOUS
<1>2. g \in Surjection(S, T)
  BY <1>1 DEF Surjection
<1> QED
  BY <1>2, FS_Surjection

\* The least of a set of natural numbers, and the greatest of a finite one.
LEMMA MinIs ==
    ASSUME NEW T \in SUBSET Nat, T # {}
    PROVE  Min(T) \in T /\ \A k \in T : Min(T) <= k
<1>1. PICK m \in T : \A k \in T : m <= k
  BY LeastNat
<1>2. \E l \in T : \A k \in T : l <= k
  BY <1>1
<1> QED
  BY <1>2 DEF Min

LEMMA MaxIs ==
    ASSUME NEW T \in SUBSET Nat, T # {}, IsFiniteSet(T)
    PROVE  Max(T) \in T /\ \A k \in T : Max(T) >= k
<1> DEFINE R == {p \in T \X T : p[1] < p[2]}
           N == Cardinality(T)
<1>1. N \in Nat \ {0}
  BY FS_CardinalityType, FS_EmptySet
<1>2. Orders(R, T) /\ \A a, b \in T : <<a, b>> \in R <=> a < b
  BY DEF Orders
<1> HIDE DEF R, N
<1>3. PICK t \in T : Rank(R, T, t) = N - 1
  <2>1. N - 1 \in 0..(N - 1)
    BY <1>1
  <2> QED
    BY <1>2, <2>1, RankTaken DEF N
<1>4. ASSUME NEW k \in T PROVE t >= k
  <2>1. Rank(R, T, k) \in 0..(N - 1)
    BY <1>2, RankGrows DEF N
  <2>2. ~(<<t, k>> \in R)
    BY <1>1, <1>2, <1>3, <2>1, RankGrows
  <2> QED
    BY <1>2, <2>2
<1> QED
  BY <1>4 DEF Max

\* The sequence s has the members of S in the order R.
Sorts(s, R, S) ==
    /\ s \in Seq(S) /\ Len(s) = Cardinality(S)
    /\ \A i, j \in 1..Len(s) : i < j => <<s[i], s[j]>> \in R
    /\ \A x \in S : \E n \in 1..Len(s) : s[n] = x

\* A sequence in which every member has the place of its rank.
LEMMA RanksSort ==
    ASSUME NEW S, NEW R, IsFiniteSet(S), Orders(R, S),
           NEW s \in [1..Cardinality(S) -> S],
           \A n \in 1..Cardinality(S) : Rank(R, S, s[n]) = n - 1
    PROVE  Sorts(s, R, S)
<1> DEFINE N == Cardinality(S)
<1>1. N \in Nat
  BY FS_CardinalityType
<1> HIDE DEF N
<1>2. s \in [1..N -> S] /\ \A n \in 1..N : Rank(R, S, s[n]) = n - 1
  BY DEF N
<1>3. s \in Seq(S) /\ Len(s) = N
  BY <1>1, <1>2
<1>4. ASSUME NEW i \in 1..N, NEW j \in 1..N, i < j PROVE <<s[i], s[j]>> \in R
  <2>1. Rank(R, S, s[i]) < Rank(R, S, s[j])
    BY <1>1, <1>2, <1>4
  <2> QED
    BY <1>2, <2>1, RankGrows
<1>5. ASSUME NEW x \in S PROVE \E n \in 1..N : s[n] = x
  <2>1. Rank(R, S, x) \in 0..(N - 1)
    BY RankGrows DEF N
  <2> DEFINE r == Rank(R, S, x)
  <2> HIDE DEF r
  <2>2. r + 1 \in 1..N /\ (r + 1) - 1 = r
    BY <1>1, <2>1 DEF r
  <2>3. PICK n \in 1..N : n - 1 = Rank(R, S, x)
    BY <2>2 DEF r
  <2>4. Rank(R, S, s[n]) = Rank(R, S, x) /\ s[n] \in S
    BY <1>2, <2>3
  <2>5. <<s[n], x>> \notin R /\ <<x, s[n]>> \notin R
    BY <2>1, <2>4, RankGrows
  <2> QED
    BY <2>4, <2>5 DEF Orders
<1>6. s \in Seq(S) /\ Len(s) = N /\ N = Cardinality(S)
  BY <1>3 DEF N
<1>7. \A i, j \in 1..Len(s) : i < j => <<s[i], s[j]>> \in R
  BY <1>4, <1>6
<1>8. \A x \in S : \E n \in 1..Len(s) : s[n] = x
  BY <1>5, <1>6
<1> QED
  BY <1>6, <1>7, <1>8 DEF Sorts

\* No member is at two places.
LEMMA SortsOnce ==
    ASSUME NEW S, NEW R, Orders(R, S), NEW s, Sorts(s, R, S),
           NEW i \in 1..Len(s), NEW j \in 1..Len(s), s[i] = s[j]
    PROVE  i = j
<1>1. s[i] \in S /\ <<s[i], s[i]>> \notin R
  BY DEF Sorts, Orders
<1>2. i \in Int /\ j \in Int
  OBVIOUS
<1> QED
  BY <1>1, <1>2 DEF Sorts

\* There is one way to sort a set.
LEMMA SortsAlike ==
    ASSUME NEW S, IsFiniteSet(S), NEW R, Orders(R, S), NEW s, Sorts(s, R, S), NEW t, Sorts(t, R, S)
    PROVE  s = t
<1> DEFINE N == Cardinality(S)
           T == {i \in 1..N : s[i] # t[i]}
<1>1. N \in Nat /\ s \in Seq(S) /\ t \in Seq(S) /\ Len(s) = N /\ Len(t) = N
  BY FS_CardinalityType DEF Sorts
<1>2. /\ \A i, j \in 1..N : i < j => <<s[i], s[j]>> \in R
      /\ \A i, j \in 1..N : i < j => <<t[i], t[j]>> \in R
      /\ \A x \in S : \E n \in 1..N : s[n] = x
      /\ \A x \in S : \E n \in 1..N : t[n] = x
  BY <1>1 DEF Sorts
<1> HIDE DEF N
<1>3. \A i \in 1..N : s[i] \in S /\ t[i] \in S
  BY <1>1
<1>4. ASSUME NEW q \in 1..N, q \in T, \A k \in 1..(q - 1) : k \notin T PROVE FALSE
  <2>1. PICK i \in 1..N : t[i] = s[q]
    BY <1>2, <1>3
  <2>2. PICK j \in 1..N : s[j] = t[q]
    BY <1>2, <1>3
  <2>3. \A k \in 1..(q - 1) : s[k] = t[k] /\ <<s[k], s[q]>> \in R /\ <<t[k], t[q]>> \in R
    <3>1. ASSUME NEW k \in 1..(q - 1) PROVE k \in 1..N /\ k < q
      BY <1>1
    <3> QED
      BY <1>2, <1>4, <3>1
  <2>4. \A a \in S : <<a, a>> \notin R
    BY DEF Orders
  <2>5. i \notin 1..(q - 1) /\ j \notin 1..(q - 1)
    BY <1>3, <2>1, <2>2, <2>3, <2>4
  <2>6. q < i /\ q < j
    <3>1. i # q /\ j # q
      BY <1>4, <2>1, <2>2
    <3> QED
      BY <1>1, <2>5, <3>1
  <2>7. <<t[q], s[q]>> \in R /\ <<s[q], t[q]>> \in R
    BY <1>2, <2>1, <2>2, <2>6
  <2> QED
    BY <1>3, <2>4, <2>7 DEF Orders
<1>5. T \in SUBSET (1..N)
  OBVIOUS
<1> HIDE DEF T
<1>6. T = {}
  BY <1>1, <1>4, <1>5, FirstOf
<1>7. \A i \in 1..N : s[i] = t[i]
  BY <1>6 DEF T
<1>8. s = [i \in 1..N |-> s[i]] /\ t = [i \in 1..N |-> t[i]]
  BY <1>1
<1>9. [i \in 1..N |-> s[i]] = [i \in 1..N |-> t[i]]
  BY <1>7
<1> QED
  BY <1>8, <1>9
================================================================================
