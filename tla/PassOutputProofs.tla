---------------------------- MODULE PassOutputProofs ---------------------------
(***************************************************************************)
(* Theorems about what a pass publishes, for any recorded chunks and       *)
(* whatever the vendors hear in them.                                      *)
(***************************************************************************)
EXTENDS PassOutput, Counting

--------------------------------------------------------------------------------
\* The order of the chunks.

ChunkOrder(S) == {p \in S \X S : Before(p[1], p[2])}

LEMMA BeforeIs ==
    ASSUME NEW c, NEW d
    PROVE  Before(c, d) <=>
             \/ c.start < d.start
             \/ c.start = d.start /\ c.end < d.end
             \/ c.start = d.start /\ c.end = d.end /\ c.source < d.source
             \/ c.start = d.start /\ c.end = d.end /\ c.source = d.source /\ c.id < d.id
<1> DEFINE k == SortKey(c)
           l == SortKey(d)
<1>1. /\ k[1] = c.start /\ k[2] = c.end /\ k[3] = c.source /\ k[4] = c.id
      /\ l[1] = d.start /\ l[2] = d.end /\ l[3] = d.source /\ l[4] = d.id
  BY DEF SortKey
<1> HIDE DEF k, l
<1>2. Before(c, d) <=> \E i \in 1..4 : k[i] < l[i] /\ \A j \in 1..(i - 1) : k[j] = l[j]
  BY DEF Before, k, l
<1>3. Before(c, d) <=> \/ k[1] < l[1] /\ \A j \in 1..0 : k[j] = l[j]
                       \/ k[2] < l[2] /\ \A j \in 1..1 : k[j] = l[j]
                       \/ k[3] < l[3] /\ \A j \in 1..2 : k[j] = l[j]
                       \/ k[4] < l[4] /\ \A j \in 1..3 : k[j] = l[j]
  <2>1. 1..4 = {1, 2, 3, 4} /\ 1 - 1 = 0 /\ 2 - 1 = 1 /\ 3 - 1 = 2 /\ 4 - 1 = 3
    OBVIOUS
  <2> QED
    BY <1>2, <2>1
<1>4. 1..0 = {} /\ 1..1 = {1} /\ 1..2 = {1, 2} /\ 1..3 = {1, 2, 3}
  OBVIOUS
<1> QED
  BY <1>1, <1>3, <1>4

LEMMA ChunkOrderIs ==
    ASSUME NEW S \in SUBSET OrdinaryChunk
    PROVE  IsFiniteSet(S) /\ Orders(ChunkOrder(S), S)
<1>1. /\ \A c \in S : c.start \in Nat /\ c.end \in Nat /\ c.source \in Nat /\ c.id \in Nat
      /\ \A c, d \in S : c.id = d.id => c = d
  BY WindowAssumption DEF WindowAssumption
<1>2. IsFiniteSet(S)
  BY WindowAssumption, FS_Subset DEF WindowAssumption
<1>3. \A a, b \in S : <<a, b>> \in ChunkOrder(S) <=> Before(a, b)
  BY DEF ChunkOrder
<1>4. \A a \in S : ~Before(a, a)
  BY <1>1, BeforeIs
<1>5. \A a, b, c \in S : Before(a, b) /\ Before(b, c) => Before(a, c)
  BY <1>1, BeforeIs
<1>6. \A a, b \in S : a = b \/ Before(a, b) \/ Before(b, a)
  BY <1>1, BeforeIs
<1> QED
  BY <1>2, <1>3, <1>4, <1>5, <1>6 DEF Orders

\* Ordered puts the chunks of S in order.
LEMMA OrderedSorts ==
    ASSUME NEW S \in SUBSET OrdinaryChunk
    PROVE  Sorts(Ordered(S), ChunkOrder(S), S)
<1> DEFINE N == Cardinality(S)
           at(n) == CHOOSE c \in S : Cardinality({d \in S : Before(d, c)}) = n - 1
<1>1. N \in Nat /\ IsFiniteSet(S) /\ Orders(ChunkOrder(S), S)
  BY ChunkOrderIs, FS_CardinalityType
<1>2. ASSUME NEW c \in S PROVE Rank(ChunkOrder(S), S, c) = Cardinality({d \in S : Before(d, c)})
  <2>1. {d \in S : <<d, c>> \in ChunkOrder(S)} = {d \in S : Before(d, c)}
    BY DEF ChunkOrder
  <2> QED
    BY <2>1 DEF Rank
<1>3. ASSUME NEW n \in 1..N PROVE at(n) \in S /\ Rank(ChunkOrder(S), S, at(n)) = n - 1
  <2>1. n - 1 \in 0..(N - 1)
    BY <1>1
  <2>2. \E c \in S : Rank(ChunkOrder(S), S, c) = n - 1
    BY <1>1, <2>1, RankTaken
  <2>3. \E c \in S : Cardinality({d \in S : Before(d, c)}) = n - 1
    BY <1>2, <2>2
  <2>4. at(n) \in S /\ Cardinality({d \in S : Before(d, at(n))}) = n - 1
    BY <2>3
  <2> QED
    BY <1>2, <2>4
<1>4. Ordered(S) = [n \in 1..N |-> at(n)]
  BY DEF Ordered, InOrder
<1> HIDE DEF at
<1> DEFINE s == Ordered(S)
<1>5. s \in [1..N -> S] /\ \A n \in 1..N : Rank(ChunkOrder(S), S, s[n]) = n - 1
  BY <1>1, <1>3, <1>4
<1> HIDE DEF s
<1>6. Sorts(s, ChunkOrder(S), S)
  BY <1>1, <1>5, RanksSort
<1> QED
  BY <1>6 DEF s

--------------------------------------------------------------------------------
\* The order of the candidates.

\* Candidates as merge_transcript_candidates gets them.
CandidateSet(C) ==
    /\ IsFiniteSet(C)
    /\ \A c \in C : /\ c.start \in Nat /\ c.end \in Nat /\ c.source \in Nat
                    /\ c.id[1] \in Nat /\ c.id[2] \in Nat
                    /\ c.confidence \in Int /\ c.sure \in Int
    /\ \A c, d \in C : c.id[1] = d.id[1] /\ c.id[2] = d.id[2] => c = d

KeyOrder(C) == {p \in C \X C : KeyBefore(CandidateKey(p[1]), CandidateKey(p[2]))}

LEMMA KeyBeforeIs ==
    ASSUME NEW c, NEW d
    PROVE  KeyBefore(CandidateKey(c), CandidateKey(d)) <=>
             \/ c.start < d.start
             \/ c.start = d.start /\ c.end < d.end
             \/ c.start = d.start /\ c.end = d.end /\ c.source < d.source
             \/ /\ c.start = d.start /\ c.end = d.end /\ c.source = d.source
                /\ c.id[1] < d.id[1]
             \/ /\ c.start = d.start /\ c.end = d.end /\ c.source = d.source
                /\ c.id[1] = d.id[1] /\ c.id[2] < d.id[2]
<1> DEFINE k == CandidateKey(c)
           l == CandidateKey(d)
<1>1. /\ k[1] = c.start /\ k[2] = c.end /\ k[3] = c.source /\ k[4] = c.id[1] /\ k[5] = c.id[2]
      /\ l[1] = d.start /\ l[2] = d.end /\ l[3] = d.source /\ l[4] = d.id[1] /\ l[5] = d.id[2]
      /\ DOMAIN k = 1..5
  BY DEF CandidateKey
<1> HIDE DEF k, l
<1>2. KeyBefore(k, l) <=> \E i \in 1..5 : k[i] < l[i] /\ \A j \in 1..(i - 1) : k[j] = l[j]
  BY <1>1 DEF KeyBefore
<1>3. KeyBefore(k, l) <=> \/ k[1] < l[1] /\ \A j \in 1..0 : k[j] = l[j]
                          \/ k[2] < l[2] /\ \A j \in 1..1 : k[j] = l[j]
                          \/ k[3] < l[3] /\ \A j \in 1..2 : k[j] = l[j]
                          \/ k[4] < l[4] /\ \A j \in 1..3 : k[j] = l[j]
                          \/ k[5] < l[5] /\ \A j \in 1..4 : k[j] = l[j]
  <2>1. /\ 1..5 = {1, 2, 3, 4, 5}
        /\ 1 - 1 = 0 /\ 2 - 1 = 1 /\ 3 - 1 = 2 /\ 4 - 1 = 3 /\ 5 - 1 = 4
    OBVIOUS
  <2> QED
    BY <1>2, <2>1
<1>4. 1..0 = {} /\ 1..1 = {1} /\ 1..2 = {1, 2} /\ 1..3 = {1, 2, 3} /\ 1..4 = {1, 2, 3, 4}
  OBVIOUS
<1>5. KeyBefore(k, l) <=> \/ k[1] < l[1]
                          \/ k[1] = l[1] /\ k[2] < l[2]
                          \/ k[1] = l[1] /\ k[2] = l[2] /\ k[3] < l[3]
                          \/ k[1] = l[1] /\ k[2] = l[2] /\ k[3] = l[3] /\ k[4] < l[4]
                          \/ k[1] = l[1] /\ k[2] = l[2] /\ k[3] = l[3] /\ k[4] = l[4] /\ k[5] < l[5]
  BY <1>3, <1>4
<1>6. KeyBefore(k, l) <=> KeyBefore(CandidateKey(c), CandidateKey(d))
  BY DEF k, l
<1> QED
  BY <1>1, <1>5, <1>6

\* The key orders any candidates.
LEMMA KeyOrders ==
    ASSUME NEW C, CandidateSet(C)
    PROVE  /\ Orders(KeyOrder(C), C)
           /\ \A a, b \in C : <<a, b>> \in KeyOrder(C) <=> KeyBefore(CandidateKey(a), CandidateKey(b))
<1>1. \A c \in C : /\ c.start \in Nat /\ c.end \in Nat /\ c.source \in Nat
                   /\ c.id[1] \in Nat /\ c.id[2] \in Nat
  BY DEF CandidateSet
<1>2. \A c, d \in C : c.id[1] = d.id[1] /\ c.id[2] = d.id[2] => c = d
  BY DEF CandidateSet
<1> DEFINE Less(a, b) == KeyBefore(CandidateKey(a), CandidateKey(b))
<1>3. \A a, b \in C : <<a, b>> \in KeyOrder(C) <=> Less(a, b)
  BY DEF KeyOrder
<1>4. \A a \in C : ~Less(a, a)
  BY <1>1, KeyBeforeIs
<1>5. ASSUME NEW a \in C, NEW b \in C, NEW c \in C, Less(a, b), Less(b, c) PROVE Less(a, c)
  BY <1>1, <1>5, KeyBeforeIs
<1>6. ASSUME NEW a \in C, NEW b \in C PROVE a = b \/ Less(a, b) \/ Less(b, a)
  BY <1>1, <1>2, KeyBeforeIs
<1> HIDE DEF Less
<1>7. Orders(KeyOrder(C), C)
  BY <1>3, <1>4, <1>5, <1>6 DEF Orders
<1> QED
  BY <1>3, <1>7 DEF Less

\* InKeyOrder puts candidates in order.
LEMMA InKeyOrderSorts ==
    ASSUME NEW C, CandidateSet(C)
    PROVE  Sorts(InKeyOrder(C), KeyOrder(C), C)
<1> DEFINE N == Cardinality(C)
           Less(a, b) == KeyBefore(CandidateKey(a), CandidateKey(b))
           at(n) == CHOOSE c \in C : Cardinality({d \in C : Less(d, c)}) = n - 1
<1>1. N \in Nat /\ IsFiniteSet(C) /\ Orders(KeyOrder(C), C)
  BY KeyOrders, FS_CardinalityType DEF CandidateSet
<1>2. ASSUME NEW c \in C PROVE Rank(KeyOrder(C), C, c) = Cardinality({d \in C : Less(d, c)})
  <2>1. {d \in C : <<d, c>> \in KeyOrder(C)} = {d \in C : Less(d, c)}
    BY DEF KeyOrder
  <2> QED
    BY <2>1 DEF Rank
<1>3. InKeyOrder(C) = [n \in 1..N |-> at(n)]
  BY DEF InKeyOrder
<1> HIDE DEF Less
<1>4. ASSUME NEW n \in 1..N PROVE at(n) \in C /\ Rank(KeyOrder(C), C, at(n)) = n - 1
  <2>1. n - 1 \in 0..(N - 1)
    BY <1>1
  <2>2. \E c \in C : Rank(KeyOrder(C), C, c) = n - 1
    BY <1>1, <2>1, RankTaken
  <2>3. \E c \in C : Cardinality({d \in C : Less(d, c)}) = n - 1
    BY <1>2, <2>2
  <2>4. at(n) \in C /\ Cardinality({d \in C : Less(d, at(n))}) = n - 1
    BY <2>3
  <2> QED
    BY <1>2, <2>4
<1> HIDE DEF at
<1> DEFINE s == InKeyOrder(C)
<1>5. s \in [1..N -> C] /\ \A n \in 1..N : Rank(KeyOrder(C), C, s[n]) = n - 1
  BY <1>1, <1>3, <1>4
<1> HIDE DEF s
<1>6. Sorts(s, KeyOrder(C), C)
  BY <1>1, <1>5, RanksSort
<1> QED
  BY <1>6 DEF s

\* What is preferred in a group is one of its members.
LEMMA RepresentativeIn ==
    ASSUME NEW g, CandidateSet(ToSet(g)), ToSet(g) # {}
    PROVE  Representative(g) \in ToSet(g)
<1> DEFINE C == ToSet(g)
           R == {p \in C \X C : Preferred(p[1], p[2])}
<1>1. \A c \in C : Score(c) \in Int
  BY DEF CandidateSet, Score
<1>2. Orders(KeyOrder(C), C)
  BY KeyOrders
<1> HIDE DEF C
<1>3. \A a, b \in C : <<a, b>> \in R <=>
          Score(a) > Score(b) \/ (Score(a) = Score(b) /\ <<a, b>> \in KeyOrder(C))
  BY KeyOrders DEF C, Preferred
<1> HIDE DEF R
<1>4. Orders(R, C)
  BY <1>1, <1>2, <1>3 DEF Orders
<1>5. IsFiniteSet(C) /\ 0 \in 0..(Cardinality(C) - 1)
  BY FS_CardinalityType, FS_EmptySet DEF CandidateSet, C
<1>6. PICK c \in C : Rank(R, C, c) = 0
  BY <1>4, <1>5, RankTaken
<1>7. ASSUME NEW d \in C \ {c} PROVE <<c, d>> \in R
  <2>1. Rank(R, C, d) \in 0..(Cardinality(C) - 1)
    BY <1>4, <1>5, RankGrows
  <2>2. <<d, c>> \notin R
    BY <1>4, <1>5, <1>6, <2>1, RankGrows
  <2> QED
    BY <1>4, <2>2 DEF Orders
<1>8. \E x \in C : \A d \in C \ {x} : Preferred(x, d)
  BY <1>7 DEF R
<1> QED
  BY <1>8 DEF Representative, C

--------------------------------------------------------------------------------
\* The recursive functions.

\* WindowsUpTo is the function that its definition describes.
LEMMA WindowsUpToIs ==
    ASSUME NEW s, Len(s) \in Nat
    PROVE  /\ WindowsUpTo(s)[0] = <<>>
           /\ \A n \in 1..Len(s) : WindowsUpTo(s)[n] = Extend(WindowsUpTo(s)[n - 1], s[n])
<1> DEFINE N == Len(s)
           At(f, i) == IF i = 0 THEN <<>> ELSE Extend(f[i - 1], s[i])
           Steps(k) == \E f : \A i \in 0..k : f[i] = At(f, i)
<1>1. \A f, g, i : (i = 0 \/ f[i - 1] = g[i - 1]) => At(f, i) = At(g, i)
  OBVIOUS
<1>2. WindowsUpTo(s) = CHOOSE f : f = [i \in 0..N |-> At(f, i)]
  BY DEF WindowsUpTo
<1>3. \A f : At(f, 0) = <<>> /\ \A i \in 1..N : At(f, i) = Extend(f[i - 1], s[i])
  OBVIOUS
<1>4. N \in Nat
  OBVIOUS
<1> HIDE DEF At, N
<1>5. Steps(N)
  <2> DEFINE None == {k \in 0..N : ~Steps(k)}
  <2> HIDE DEF Steps
  <2> SUFFICES ASSUME None # {} PROVE FALSE
    BY <1>4
  <2>1. None \in SUBSET Nat
    BY <1>4
  <2>2. PICK k \in None : \A j \in None : k <= j
    BY <2>1, LeastNat
  <2>3. CASE k = 0
    <3> DEFINE f == [i \in {0} |-> <<>>]
    <3>1. \A i \in 0..0 : f[i] = At(f, i)
      BY <1>3
    <3> HIDE DEF f
    <3>2. Steps(0)
      BY <3>1 DEF Steps
    <3> QED
      BY <2>2, <2>3, <3>2
  <2>4. CASE k # 0
    <3>1. k \in 1..N /\ k - 1 \in 0..N /\ k - 1 \notin None
      BY <1>4, <2>2, <2>4
    <3>2. PICK f : \A i \in 0..(k - 1) : f[i] = At(f, i)
      BY <3>1 DEF Steps
    <3> DEFINE g == [i \in 0..k |-> IF i = k THEN At(f, k) ELSE f[i]]
    <3>3. g[k] = At(f, k) /\ \A i \in 0..(k - 1) : g[i] = f[i]
      BY <3>1
    <3> HIDE DEF g
    <3>4. ASSUME NEW i \in 0..k PROVE g[i] = At(g, i)
      <4>1. i = 0 \/ i - 1 \in 0..(k - 1)
        BY <3>1
      <4>2. At(f, i) = At(g, i)
        BY <1>1, <3>3, <4>1
      <4>3. i = k \/ i \in 0..(k - 1)
        BY <3>1
      <4> QED
        BY <3>2, <3>3, <4>2, <4>3
    <3>5. Steps(k)
      BY <3>4 DEF Steps
    <3> QED
      BY <2>2, <3>5
  <2> QED
    BY <2>3, <2>4
<1>6. PICK f : \A i \in 0..N : f[i] = At(f, i)
  BY <1>5
<1> DEFINE h == [i \in 0..N |-> At(f, i)]
<1>7. \A i \in 0..N : h[i] = f[i]
  BY <1>6
<1> HIDE DEF h
<1>8. \A i \in 0..N : At(h, i) = At(f, i)
  <2> TAKE i \in 0..N
  <2>1. i = 0 \/ i - 1 \in 0..N
    BY <1>4
  <2> QED
    BY <1>1, <1>7, <2>1
<1>9. h = [i \in 0..N |-> At(h, i)]
  <2>1. h = [i \in 0..N |-> At(f, i)]
    BY DEF h
  <2> QED
    BY <1>8, <2>1
<1>10. WindowsUpTo(s) = [i \in 0..N |-> At(WindowsUpTo(s), i)]
  BY <1>2, <1>9
<1> DEFINE u == WindowsUpTo(s)
<1> HIDE DEF u
<1>11. \A i \in 0..N : u[i] = At(u, i)
  BY <1>10 DEF u
<1>12. 0 \in 0..N /\ \A i \in 1..N : i \in 0..N
  BY <1>4
<1>13. u[0] = <<>> /\ \A i \in 1..N : u[i] = Extend(u[i - 1], s[i])
  BY <1>3, <1>11, <1>12
<1> QED
  BY <1>13 DEF u, N

\* GroupsUpTo is the function that its definition describes.
LEMMA GroupsUpToIs ==
    ASSUME NEW s, Len(s) \in Nat
    PROVE  /\ GroupsUpTo(s)[0] = <<>>
           /\ \A n \in 1..Len(s) : GroupsUpTo(s)[n] = Join(GroupsUpTo(s)[n - 1], s[n])
<1> DEFINE N == Len(s)
           At(f, i) == IF i = 0 THEN <<>> ELSE Join(f[i - 1], s[i])
           Steps(k) == \E f : \A i \in 0..k : f[i] = At(f, i)
<1>1. \A f, g, i : (i = 0 \/ f[i - 1] = g[i - 1]) => At(f, i) = At(g, i)
  OBVIOUS
<1>2. GroupsUpTo(s) = CHOOSE f : f = [i \in 0..N |-> At(f, i)]
  BY DEF GroupsUpTo
<1>3. \A f : At(f, 0) = <<>> /\ \A i \in 1..N : At(f, i) = Join(f[i - 1], s[i])
  OBVIOUS
<1>4. N \in Nat
  OBVIOUS
<1> HIDE DEF At, N
<1>5. Steps(N)
  <2> DEFINE None == {k \in 0..N : ~Steps(k)}
  <2> HIDE DEF Steps
  <2> SUFFICES ASSUME None # {} PROVE FALSE
    BY <1>4
  <2>1. None \in SUBSET Nat
    BY <1>4
  <2>2. PICK k \in None : \A j \in None : k <= j
    BY <2>1, LeastNat
  <2>3. CASE k = 0
    <3> DEFINE f == [i \in {0} |-> <<>>]
    <3>1. \A i \in 0..0 : f[i] = At(f, i)
      BY <1>3
    <3> HIDE DEF f
    <3>2. Steps(0)
      BY <3>1 DEF Steps
    <3> QED
      BY <2>2, <2>3, <3>2
  <2>4. CASE k # 0
    <3>1. k \in 1..N /\ k - 1 \in 0..N /\ k - 1 \notin None
      BY <1>4, <2>2, <2>4
    <3>2. PICK f : \A i \in 0..(k - 1) : f[i] = At(f, i)
      BY <3>1 DEF Steps
    <3> DEFINE g == [i \in 0..k |-> IF i = k THEN At(f, k) ELSE f[i]]
    <3>3. g[k] = At(f, k) /\ \A i \in 0..(k - 1) : g[i] = f[i]
      BY <3>1
    <3> HIDE DEF g
    <3>4. ASSUME NEW i \in 0..k PROVE g[i] = At(g, i)
      <4>1. i = 0 \/ i - 1 \in 0..(k - 1)
        BY <3>1
      <4>2. At(f, i) = At(g, i)
        BY <1>1, <3>3, <4>1
      <4>3. i = k \/ i \in 0..(k - 1)
        BY <3>1
      <4> QED
        BY <3>2, <3>3, <4>2, <4>3
    <3>5. Steps(k)
      BY <3>4 DEF Steps
    <3> QED
      BY <2>2, <3>5
  <2> QED
    BY <2>3, <2>4
<1>6. PICK f : \A i \in 0..N : f[i] = At(f, i)
  BY <1>5
<1> DEFINE h == [i \in 0..N |-> At(f, i)]
<1>7. \A i \in 0..N : h[i] = f[i]
  BY <1>6
<1> HIDE DEF h
<1>8. \A i \in 0..N : At(h, i) = At(f, i)
  <2> TAKE i \in 0..N
  <2>1. i = 0 \/ i - 1 \in 0..N
    BY <1>4
  <2> QED
    BY <1>1, <1>7, <2>1
<1>9. h = [i \in 0..N |-> At(h, i)]
  <2>1. h = [i \in 0..N |-> At(f, i)]
    BY DEF h
  <2> QED
    BY <1>8, <2>1
<1>10. GroupsUpTo(s) = [i \in 0..N |-> At(GroupsUpTo(s), i)]
  BY <1>2, <1>9
<1> DEFINE u == GroupsUpTo(s)
<1> HIDE DEF u
<1>11. \A i \in 0..N : u[i] = At(u, i)
  BY <1>10 DEF u
<1>12. 0 \in 0..N /\ \A i \in 1..N : i \in 0..N
  BY <1>4
<1>13. u[0] = <<>> /\ \A i \in 1..N : u[i] = Join(u[i - 1], s[i])
  BY <1>3, <1>11, <1>12
<1> QED
  BY <1>13 DEF u, N

--------------------------------------------------------------------------------
\* The windows of a sequence of chunks.

ChunkWindow == [chunks : Seq(OrdinaryChunk), start : Nat, end : Nat]

\* w has the chunks of s after position lo, up to hi.
Piece(w, s, lo, hi) ==
    /\ w \in ChunkWindow
    /\ lo < hi
    /\ Len(w.chunks) = hi - lo
    /\ \A i \in 1..(hi - lo) : w.chunks[i] = s[lo + i]
    /\ w.start = s[lo + 1].start
    /\ \A i \in (lo + 1)..hi : s[i].end <= w.end
    /\ \E i \in (lo + 1)..hi : s[i].end = w.end

\* The windows W have the first n chunks of s, one window after the other from each
\* position of b to the next, and no window could have had the chunk after it.
CutAt(W, b, s, n) ==
    /\ W \in Seq(ChunkWindow)
    /\ b \in [0..Len(W) -> 0..n] /\ b[0] = 0 /\ b[Len(W)] = n
    /\ \A k \in 1..Len(W) : Piece(W[k], s, b[k - 1], b[k])
    /\ \A k \in 1..(Len(W) - 1) : ~CanMerge(W[k], s[b[k] + 1])

LEMMA ChunkFields ==
    ASSUME NEW s \in Seq(OrdinaryChunk), NEW i \in 1..Len(s)
    PROVE  s[i] \in OrdinaryChunk /\ s[i].start \in Nat /\ s[i].end \in Nat
BY WindowAssumption DEF WindowAssumption

LEMMA LaterEnd ==
    ASSUME NEW a \in Nat, NEW b \in Nat
    PROVE  Max({a, b}) \in Nat /\ a <= Max({a, b}) /\ b <= Max({a, b}) /\ Max({a, b}) \in {a, b}
<1>1. {a, b} \in SUBSET Nat /\ {a, b} # {} /\ IsFiniteSet({a, b})
  <2>1. IsFiniteSet({a} \cup {b})
    BY FS_Singleton, FS_Union
  <2>2. {a} \cup {b} = {a, b}
    OBVIOUS
  <2> QED
    BY <2>1, <2>2
<1>2. Max({a, b}) \in {a, b} /\ \A k \in {a, b} : Max({a, b}) >= k
  BY <1>1, MaxIs
<1> QED
  BY <1>2

LEMMA PieceGrows ==
    ASSUME NEW s \in Seq(OrdinaryChunk), NEW n \in 1..(Len(s) - 1), NEW lo \in 0..n, NEW w,
           Piece(w, s, lo, n)
    PROVE  Piece(Window(Append(w.chunks, s[n + 1]), w.start, JointEnd(w, s[n + 1])), s, lo, n + 1)
<1> DEFINE c == s[n + 1]
           end == JointEnd(w, c)
           t == w.chunks
           x == Window(Append(t, c), w.start, end)
<1>1. n + 1 \in 1..Len(s) /\ c \in OrdinaryChunk /\ c.end \in Nat
  BY ChunkFields
<1>2. w \in ChunkWindow /\ w.end \in Nat /\ w.start \in Nat /\ t \in Seq(OrdinaryChunk)
  BY DEF Piece, ChunkWindow
<1>3. end \in Nat /\ w.end <= end /\ c.end <= end /\ end \in {w.end, c.end}
  BY <1>1, <1>2, LaterEnd DEF JointEnd
<1> HIDE DEF end
<1>4. /\ Append(t, c) \in Seq(OrdinaryChunk) /\ Len(Append(t, c)) = Len(t) + 1
      /\ \A i \in 1..Len(t) : Append(t, c)[i] = t[i]
      /\ Append(t, c)[Len(t) + 1] = c
  BY <1>1, <1>2
<1>5. x.chunks = Append(t, c) /\ x.start = w.start /\ x.end = end /\ x \in ChunkWindow
  BY <1>2, <1>3, <1>4 DEF Window, ChunkWindow
<1>6. Len(t) = n - lo /\ (\A i \in 1..(n - lo) : t[i] = s[lo + i]) /\ lo < n
  BY DEF Piece
<1>7. Len(x.chunks) = n + 1 - lo
  BY <1>4, <1>5, <1>6
<1>8. \A i \in 1..(n + 1 - lo) : x.chunks[i] = s[lo + i]
  <2> TAKE i \in 1..(n + 1 - lo)
  <2>1. i \in 1..(n - lo) \/ (i = n - lo + 1 /\ lo + i = n + 1)
    OBVIOUS
  <2> QED
    BY <1>4, <1>5, <1>6, <2>1
<1>9. \A i \in (lo + 1)..(n + 1) : s[i].end <= end
  <2> TAKE i \in (lo + 1)..(n + 1)
  <2>1. i \in (lo + 1)..n \/ i = n + 1
    OBVIOUS
  <2>2. i \in 1..Len(s) /\ s[i].end \in Nat
    BY ChunkFields
  <2> QED
    BY <1>2, <1>3, <2>1, <2>2 DEF Piece
<1>10. \E i \in (lo + 1)..(n + 1) : s[i].end = end
  <2>1. PICK i \in (lo + 1)..n : s[i].end = w.end
    BY DEF Piece
  <2>2. i \in (lo + 1)..(n + 1) /\ n + 1 \in (lo + 1)..(n + 1)
    BY <1>6
  <2> QED
    BY <1>3, <2>1, <2>2
<1>11. x.start = s[lo + 1].start
  BY <1>5 DEF Piece
<1> HIDE DEF x, c
<1>12. /\ \A i \in (lo + 1)..(n + 1) : s[i].end <= x.end
       /\ \E i \in (lo + 1)..(n + 1) : s[i].end = x.end
  BY <1>5, <1>9, <1>10
<1>13. x \in ChunkWindow /\ lo < n + 1
  BY <1>5, <1>6
<1>14. Piece(x, s, lo, n + 1)
  BY <1>7, <1>8, <1>11, <1>12, <1>13 DEF Piece
<1> QED
  BY <1>14 DEF x, end, c

LEMMA PieceOpens ==
    ASSUME NEW s \in Seq(OrdinaryChunk), NEW n \in 0..(Len(s) - 1)
    PROVE  Piece(Window(<<s[n + 1]>>, s[n + 1].start, s[n + 1].end), s, n, n + 1)
<1> DEFINE c == s[n + 1]
           x == Window(<<c>>, c.start, c.end)
<1>1. n + 1 \in 1..Len(s) /\ c \in OrdinaryChunk /\ c.start \in Nat /\ c.end \in Nat
  BY ChunkFields
<1> HIDE DEF c
<1>2. <<c>> \in Seq(OrdinaryChunk) /\ Len(<<c>>) = 1 /\ <<c>>[1] = c
  BY <1>1
<1>3. x.chunks = <<c>> /\ x.start = c.start /\ x.end = c.end /\ x \in ChunkWindow
  BY <1>1, <1>2 DEF Window, ChunkWindow
<1> HIDE DEF x
<1>4. n + 1 - n = 1 /\ \A i : i \in (n + 1)..(n + 1) <=> i = n + 1
  OBVIOUS
<1>5. \A i \in 1..1 : x.chunks[i] = s[n + i]
  BY <1>2, <1>3 DEF c
<1>6. (\A i \in (n + 1)..(n + 1) : s[i].end <= x.end) /\ \E i \in (n + 1)..(n + 1) : s[i].end = x.end
  BY <1>1, <1>3, <1>4 DEF c
<1>7. x.start = s[n + 1].start
  BY <1>3 DEF c
<1>8. Piece(x, s, n, n + 1)
  BY <1>2, <1>3, <1>4, <1>5, <1>6, <1>7 DEF Piece
<1> QED
  BY <1>8 DEF x, c

LEMMA FrontIs ==
    ASSUME NEW T, NEW q \in Seq(T), Len(q) # 0
    PROVE  /\ Front(q) \in Seq(T) /\ Len(Front(q)) = Len(q) - 1
           /\ \A k \in 1..(Len(q) - 1) : Front(q)[k] = q[k]
<1> DEFINE n == Len(q) - 1
<1>1. n \in 0..Len(q) /\ \A k \in 1..n : k \in 1..Len(q) /\ 1 + k - 1 = k
  OBVIOUS
<1>2. Front(q) = [k \in 1..n |-> q[k]]
  <2>1. SubSeq(q, 1, n) = [k \in 1..n |-> q[k]]
    BY <1>1
  <2> QED
    BY <2>1 DEF Front
<1> HIDE DEF n
<1>3. Front(q) \in [1..n -> T]
  BY <1>1, <1>2
<1> QED
  BY <1>1, <1>2, <1>3 DEF n

LEMMA ExtendCuts ==
    ASSUME NEW s \in Seq(OrdinaryChunk), NEW n \in 0..(Len(s) - 1), NEW W, NEW b, CutAt(W, b, s, n)
    PROVE  \E e : CutAt(Extend(W, s[n + 1]), e, s, n + 1)
<1> DEFINE c == s[n + 1]
           L == Len(W)
<1>1. /\ W \in Seq(ChunkWindow)
      /\ b \in [0..L -> 0..n] /\ b[0] = 0 /\ b[L] = n
      /\ \A k \in 1..L : Piece(W[k], s, b[k - 1], b[k])
      /\ \A k \in 1..(L - 1) : ~CanMerge(W[k], s[b[k] + 1])
  BY DEF CutAt
<1>2. L \in Nat /\ (W # <<>> <=> L # 0)
  BY <1>1
<1> HIDE DEF L
<1>3. CASE W # <<>> /\ CanMerge(Last(W), c)
  <2> DEFINE w == W[L]
             x == Window(Append(w.chunks, c), w.start, JointEnd(w, c))
             V == Append(Front(W), x)
             e == [k \in 0..L |-> IF k = L THEN n + 1 ELSE b[k]]
  <2>1. L \in 1..L /\ L - 1 \in 0..L /\ L \in 0..L /\ 0 \in 0..L /\ 0 # L
    BY <1>2, <1>3
  <2>2. Extend(W, c) = V
    BY <1>1, <1>3 DEF Extend, Last, L
  <2>3. Piece(w, s, b[L - 1], n) /\ b[L - 1] \in 0..n
    BY <1>1, <2>1
  <2>4. n \in 1..(Len(s) - 1)
    BY <2>3 DEF Piece
  <2>5. Piece(x, s, b[L - 1], n + 1)
    BY <2>3, <2>4, PieceGrows
  <2>6. x \in ChunkWindow
    BY <2>5 DEF Piece
  <2> HIDE DEF x
  <2>7. V \in Seq(ChunkWindow) /\ Len(V) = L /\ V[L] = x /\ \A k \in 1..(L - 1) : V[k] = W[k]
    <3> DEFINE F == Front(W)
    <3>1. F \in Seq(ChunkWindow) /\ Len(F) = L - 1 /\ \A k \in 1..(L - 1) : F[k] = W[k]
      BY <1>1, <1>2, <2>1, FrontIs DEF L
    <3> HIDE DEF F
    <3>2. V = Append(F, x)
      BY DEF F
    <3> HIDE DEF V
    <3> QED
      BY <1>2, <2>1, <2>6, <3>1, <3>2
  <2> HIDE DEF V
  <2>8. e \in [0..L -> 0..(n + 1)] /\ e[0] = 0 /\ e[L] = n + 1 /\ \A k \in 0..(L - 1) : e[k] = b[k]
    BY <1>1, <1>2, <2>1
  <2> HIDE DEF e
  <2>9. ASSUME NEW k \in 1..L PROVE Piece(V[k], s, e[k - 1], e[k])
    <3>1. k - 1 \in 0..(L - 1) /\ (k = L \/ k \in 1..(L - 1))
      BY <1>2
    <3>2. CASE k = L
      BY <2>5, <2>7, <2>8, <3>1, <3>2
    <3>3. CASE k \in 1..(L - 1)
      <4>1. k \in 0..(L - 1)
        BY <3>3
      <4> QED
        BY <1>1, <2>7, <2>8, <3>1, <3>3, <4>1
    <3> QED
      BY <3>1, <3>2, <3>3
  <2>10. ASSUME NEW k \in 1..(L - 1) PROVE ~CanMerge(V[k], s[e[k] + 1])
    <3>1. k \in 0..(L - 1)
      OBVIOUS
    <3> QED
      BY <1>1, <2>7, <2>8, <3>1
  <2>11. CutAt(V, e, s, n + 1)
    BY <2>7, <2>8, <2>9, <2>10 DEF CutAt
  <2> QED
    BY <2>2, <2>11
<1>4. CASE ~(W # <<>> /\ CanMerge(Last(W), c))
  <2> DEFINE x == Window(<<c>>, c.start, c.end)
             V == Append(W, x)
             e == [k \in 0..(L + 1) |-> IF k = L + 1 THEN n + 1 ELSE b[k]]
  <2>1. Extend(W, c) = V
    BY <1>1, <1>4 DEF Extend
  <2>2. Piece(x, s, n, n + 1)
    BY PieceOpens
  <2>3. x \in ChunkWindow
    BY <2>2 DEF Piece
  <2> HIDE DEF x
  <2>4. V \in Seq(ChunkWindow) /\ Len(V) = L + 1 /\ V[L + 1] = x /\ \A k \in 1..L : V[k] = W[k]
    BY <1>1, <2>3 DEF L
  <2> HIDE DEF V
  <2>5. e \in [0..(L + 1) -> 0..(n + 1)] /\ e[L + 1] = n + 1 /\ \A k \in 0..L : e[k] = b[k]
    BY <1>1, <1>2
  <2> HIDE DEF e
  <2>6. ASSUME NEW k \in 1..(L + 1) PROVE Piece(V[k], s, e[k - 1], e[k])
    <3>1. k - 1 \in 0..L /\ (k = L + 1 \/ k \in 1..L)
      BY <1>2
    <3>2. CASE k = L + 1
      <4>1. k - 1 = L
        BY <1>2, <3>2
      <4> QED
        BY <1>1, <2>2, <2>4, <2>5, <3>1, <3>2, <4>1
    <3>3. CASE k \in 1..L
      <4>1. k \in 0..L
        BY <3>3
      <4> QED
        BY <1>1, <2>4, <2>5, <3>1, <3>3, <4>1
    <3> QED
      BY <3>1, <3>2, <3>3
  <2>7. ASSUME NEW k \in 1..L PROVE ~CanMerge(V[k], s[e[k] + 1])
    <3>1. k \in 0..L /\ (k = L \/ k \in 1..(L - 1)) /\ W # <<>>
      BY <1>2
    <3>2. V[k] = W[k] /\ e[k] = b[k]
      BY <2>4, <2>5, <3>1
    <3>3. CASE k = L
      <4>1. Last(W) = W[k]
        BY <3>3 DEF Last, L
      <4> QED
        BY <1>1, <1>4, <3>1, <3>2, <3>3, <4>1
    <3>4. CASE k \in 1..(L - 1)
      BY <1>1, <3>2, <3>4
    <3> QED
      BY <3>1, <3>3, <3>4
  <2>8. e[0] = 0
    BY <1>1, <1>2, <2>5
  <2>9. CutAt(V, e, s, n + 1)
    <3>1. V \in Seq(ChunkWindow) /\ Len(V) = L + 1
      BY <2>4
    <3>2. e \in [0..Len(V) -> 0..(n + 1)] /\ e[0] = 0 /\ e[Len(V)] = n + 1
      BY <2>5, <2>8, <3>1
    <3>3. \A k \in 1..Len(V) : Piece(V[k], s, e[k - 1], e[k])
      BY <2>6, <3>1
    <3>4. \A k \in 1..(Len(V) - 1) : ~CanMerge(V[k], s[e[k] + 1])
      BY <1>2, <2>7, <3>1
    <3> QED
      BY <3>1, <3>2, <3>3, <3>4 DEF CutAt
  <2> QED
    BY <2>1, <2>9
<1> QED
  BY <1>3, <1>4

\* The windows are parts of s, one after the other.
LEMMA WindowsCutUp ==
    ASSUME NEW s \in Seq(OrdinaryChunk), NEW n \in 0..Len(s)
    PROVE  \E b : CutAt(WindowsUpTo(s)[n], b, s, n)
<1> DEFINE Is(k) == \E b : CutAt(WindowsUpTo(s)[k], b, s, k)
           None == {k \in 0..Len(s) : ~Is(k)}
<1>1. Len(s) \in Nat
  OBVIOUS
<1>2. Is(0)
  <2> DEFINE b == [k \in 0..0 |-> 0]
             W == WindowsUpTo(s)[0]
  <2>1. W = <<>>
    BY <1>1, WindowsUpToIs
  <2> HIDE DEF W
  <2>2. W \in Seq(ChunkWindow) /\ Len(W) = 0
    BY <2>1
  <2>3. b \in [0..0 -> 0..0] /\ b[0] = 0 /\ (\A k : k \notin 1..0) /\ \A k : k \notin 1..(0 - 1)
    OBVIOUS
  <2> HIDE DEF b
  <2>4. CutAt(W, b, s, 0)
    BY <2>2, <2>3 DEF CutAt
  <2> QED
    BY <2>4 DEF W
<1>3. ASSUME NEW k \in 1..Len(s), Is(k - 1) PROVE Is(k)
  <2>1. PICK b : CutAt(WindowsUpTo(s)[k - 1], b, s, k - 1)
    BY <1>3
  <2>2. k - 1 \in 0..(Len(s) - 1) /\ (k - 1) + 1 = k
    OBVIOUS
  <2>3. \E e : CutAt(Extend(WindowsUpTo(s)[k - 1], s[(k - 1) + 1]), e, s, (k - 1) + 1)
    BY <2>1, <2>2, ExtendCuts
  <2>4. WindowsUpTo(s)[k] = Extend(WindowsUpTo(s)[k - 1], s[k])
    BY <1>1, WindowsUpToIs
  <2> QED
    BY <2>2, <2>3, <2>4
<1> HIDE DEF Is
<1>4. ASSUME None # {} PROVE FALSE
  <2>1. None \in SUBSET Nat
    OBVIOUS
  <2>2. PICK k \in None : \A j \in None : k <= j
    BY <1>4, <2>1, LeastNat
  <2>3. k \in 1..Len(s) /\ k - 1 \in 0..Len(s) /\ k - 1 \notin None
    BY <1>2, <2>2
  <2> QED
    BY <1>3, <2>2, <2>3
<1>5. Is(n)
  BY <1>4
<1> QED
  BY <1>5 DEF Is

\* The members of s after position lo, up to hi.
Between(s, lo, hi) == {s[p] : p \in (lo + 1)..hi}

\* The chunks of a piece.
LEMMA MembersIs ==
    ASSUME NEW w, NEW s, NEW lo \in Nat, NEW hi \in Nat, Piece(w, s, lo, hi)
    PROVE  Members(w) = Between(s, lo, hi)
<1> DEFINE t == w.chunks
<1>1. t \in Seq(OrdinaryChunk) /\ Len(t) = hi - lo /\ \A i \in 1..(hi - lo) : t[i] = s[lo + i]
  BY DEF Piece, ChunkWindow
<1>2. Members(w) = {t[i] : i \in 1..(hi - lo)}
  <2>1. DOMAIN t = 1..(hi - lo)
    BY <1>1
  <2> QED
    BY <2>1 DEF Members, ToSet
<1> HIDE DEF t
<1>3. ASSUME NEW c \in Members(w) PROVE c \in Between(s, lo, hi)
  <2>1. PICK i \in 1..(hi - lo) : c = t[i]
    BY <1>2
  <2>2. c = s[lo + i] /\ lo + i \in (lo + 1)..hi
    BY <1>1, <2>1
  <2> QED
    BY <2>2 DEF Between
<1>4. ASSUME NEW p \in (lo + 1)..hi PROVE s[p] \in Members(w)
  <2>1. PICK i \in 1..(hi - lo) : lo + i = p
    <3>1. p - lo \in 1..(hi - lo) /\ lo + (p - lo) = p
      OBVIOUS
    <3> QED
      BY <3>1
  <2> QED
    BY <1>1, <1>2, <2>1
<1> QED
  BY <1>3, <1>4 DEF Between

\* Where the windows begin only grows.
LEMMA CutsGrow ==
    ASSUME NEW s, NEW n \in Nat, NEW W, NEW b, CutAt(W, b, s, n),
           NEW m \in 0..Len(W), NEW k \in 0..m
    PROVE  b[k] <= b[m]
<1> DEFINE Early == {l \in k..m : b[l] < b[k]}
<1>1. Len(W) \in Nat
  BY DEF CutAt
<1>2. \A l \in 0..Len(W) : b[l] \in Nat
  BY DEF CutAt
<1>3. \A l \in 1..Len(W) : b[l - 1] < b[l]
  BY DEF CutAt, Piece
<1>4. ASSUME Early # {} PROVE FALSE
  <2>1. Early \in SUBSET Nat
    BY <1>1
  <2>2. PICK l \in Early : \A j \in Early : l <= j
    BY <1>4, <2>1, LeastNat
  <2>3. l # k /\ l \in k..m /\ b[l] < b[k]
    BY <1>1, <1>2, <2>2
  <2>4. l - 1 \in k..m /\ l - 1 \in 0..Len(W) /\ l \in 1..Len(W) /\ l - 1 \notin Early
    BY <1>1, <2>2, <2>3
  <2>5. k \in 0..Len(W)
    BY <1>1
  <2> QED
    BY <1>2, <1>3, <2>3, <2>4, <2>5
<1>5. m \in k..m /\ m \in 0..Len(W) /\ k \in 0..Len(W)
  BY <1>1
<1> QED
  BY <1>2, <1>4, <1>5

\* Every position is in a window, and in one only.
LEMMA CutFinds ==
    ASSUME NEW s, NEW n \in Nat, NEW W, NEW b, CutAt(W, b, s, n), NEW p \in 1..n
    PROVE  /\ \E k \in 1..Len(W) : p \in (b[k - 1] + 1)..b[k]
           /\ \A k, m \in 1..Len(W) :
                 p \in (b[k - 1] + 1)..b[k] /\ p \in (b[m - 1] + 1)..b[m] => k = m
<1> DEFINE Reach == {k \in 0..Len(W) : p <= b[k]}
<1>1. Len(W) \in Nat /\ b[0] = 0 /\ b[Len(W)] = n /\ \A l \in 0..Len(W) : b[l] \in Nat
  <2>1. Len(W) \in Nat /\ b[0] = 0 /\ b[Len(W)] = n
    BY DEF CutAt
  <2>2. \A l \in 0..Len(W) : b[l] \in Nat
    BY DEF CutAt
  <2> QED
    BY <2>1, <2>2
<1>2. Len(W) \in Reach /\ Reach \in SUBSET Nat
  BY <1>1
<1>3. PICK k \in Reach : \A j \in Reach : k <= j
  BY <1>2, LeastNat
<1>4. k # 0 /\ k \in 1..Len(W)
  BY <1>1, <1>3
<1>5. k - 1 \in 0..Len(W) /\ k - 1 \notin Reach
  BY <1>1, <1>3, <1>4
<1>6. p \in (b[k - 1] + 1)..b[k]
  BY <1>1, <1>3, <1>4, <1>5
<1>7. ASSUME NEW j \in 1..Len(W), NEW m \in 1..Len(W), j < m,
             p \in (b[j - 1] + 1)..b[j], p \in (b[m - 1] + 1)..b[m]
      PROVE  FALSE
  <2>1. m - 1 \in 0..Len(W) /\ j \in 0..(m - 1) /\ j \in 0..Len(W)
    BY <1>1, <1>7
  <2> DEFINE reached == b[j]
             passed == b[m - 1]
  <2>2. reached <= passed
    BY <2>1, CutsGrow
  <2>3. reached \in Nat /\ passed \in Nat /\ b[j - 1] \in Nat /\ b[m] \in Nat
    <3>1. j - 1 \in 0..Len(W) /\ m \in 0..Len(W)
      BY <1>1
    <3> QED
      BY <1>1, <2>1, <3>1
  <2>4. p <= reached /\ passed + 1 <= p
    BY <1>7, <2>3
  <2> HIDE DEF reached, passed
  <2> QED
    BY <2>2, <2>3, <2>4
<1>8. ASSUME NEW j \in 1..Len(W), NEW m \in 1..Len(W),
             p \in (b[j - 1] + 1)..b[j], p \in (b[m - 1] + 1)..b[m]
      PROVE  j = m
  <2>1. j < m \/ m < j \/ j = m
    BY <1>1
  <2> QED
    BY <1>7, <1>8, <2>1
<1> QED
  BY <1>4, <1>6, <1>8

\* Position p is in window k.
In(b, k, p) == p \in (b[k - 1] + 1)..b[k]

LEMMA CutHas ==
    ASSUME NEW s, NEW n \in Nat, NEW W, NEW b, CutAt(W, b, s, n), NEW p \in 1..n
    PROVE  \E k \in 1..Len(W) : In(b, k, p)
BY CutFinds DEF In

LEMMA CutHasOnce ==
    ASSUME NEW s, NEW n \in Nat, NEW W, NEW b, CutAt(W, b, s, n), NEW p \in 1..n,
           NEW k \in 1..Len(W), NEW m \in 1..Len(W), In(b, k, p), In(b, m, p)
    PROVE  k = m
BY CutFinds DEF In

\* Every chunk of S is in one of the windows W, and in one only.
Splits(W, S) ==
    /\ W \in Seq(ChunkWindow)
    /\ \A k \in 1..Len(W) : Members(W[k]) \in SUBSET S
    /\ \A c \in S : \E k \in 1..Len(W) : c \in Members(W[k])
    /\ \A k, m \in 1..Len(W) : Members(W[k]) \cap Members(W[m]) # {} => k = m

\* The windows of S are cut from the chunks of S in order.
LEMMA WindowsAre ==
    ASSUME NEW S \in SUBSET OrdinaryChunk
    PROVE  /\ Ordered(S) \in Seq(OrdinaryChunk) /\ Len(Ordered(S)) \in Nat
           /\ \E b : CutAt(Windows(S), b, Ordered(S), Len(Ordered(S)))
<1> DEFINE s == Ordered(S)
<1>1. s \in Seq(S) /\ Len(s) = Cardinality(S)
  BY OrderedSorts DEF Sorts
<1> HIDE DEF s
<1>2. s \in Seq(OrdinaryChunk) /\ Len(s) \in Nat
  BY <1>1
<1>3. Len(s) \in 0..Len(s)
  BY <1>2
<1>4. \E b : CutAt(WindowsUpTo(s)[Len(s)], b, s, Len(s))
  BY <1>2, <1>3, WindowsCutUp
<1>5. Windows(S) = WindowsUpTo(s)[Len(s)]
  BY <1>1 DEF Windows, GroupWindows, s
<1> QED
  BY <1>2, <1>4, <1>5 DEF s

LEMMA WindowsSplit ==
    ASSUME NEW S \in SUBSET OrdinaryChunk
    PROVE  Splits(Windows(S), S)
<1> DEFINE s == Ordered(S)
           W == Windows(S)
           n == Len(s)
           R == ChunkOrder(S)
<1>1. Sorts(s, R, S) /\ Orders(R, S) /\ n \in Nat
  BY OrderedSorts, ChunkOrderIs, WindowsAre
<1>2. PICK b : CutAt(W, b, s, n)
  BY WindowsAre
<1> HIDE DEF s, W, R
<1>3. s \in Seq(S) /\ \A c \in S : \E p \in 1..n : s[p] = c
  BY <1>1 DEF Sorts
<1> HIDE DEF n
<1>4. /\ W \in Seq(ChunkWindow) /\ b \in [0..Len(W) -> 0..n]
      /\ \A k \in 1..Len(W) : Piece(W[k], s, b[k - 1], b[k])
  BY <1>2 DEF CutAt
<1>5. Len(W) \in Nat
  BY <1>4
<1>6. ASSUME NEW k \in 1..Len(W)
      PROVE  b[k - 1] \in 0..n /\ b[k] \in 0..n /\ Members(W[k]) = Between(s, b[k - 1], b[k])
  <2>1. k - 1 \in 0..Len(W) /\ k \in 0..Len(W)
    BY <1>5
  <2>2. b[k - 1] \in 0..n /\ b[k] \in 0..n /\ b[k - 1] \in Nat /\ b[k] \in Nat
    BY <1>1, <1>4, <2>1
  <2> QED
    BY <1>4, <2>2, MembersIs
<1>7. ASSUME NEW k \in 1..Len(W) PROVE Members(W[k]) \in SUBSET S
  <2>1. \A p \in (b[k - 1] + 1)..b[k] : p \in 1..n
    BY <1>1, <1>6
  <2>2. \A p \in 1..n : s[p] \in S
    BY <1>3 DEF n
  <2>3. ASSUME NEW c \in Members(W[k]) PROVE c \in S
    <3>1. c \in Between(s, b[k - 1], b[k])
      BY <1>6
    <3> QED
      BY <2>1, <2>2, <3>1 DEF Between
  <2> QED
    BY <2>3
<1>8. ASSUME NEW c \in S PROVE \E k \in 1..Len(W) : c \in Members(W[k])
  <2>1. PICK p \in 1..n : s[p] = c
    BY <1>3
  <2>2. PICK k \in 1..Len(W) : In(b, k, p)
    BY <1>1, <1>2, CutHas
  <2> QED
    BY <1>6, <2>1, <2>2 DEF Between, In
<1>9. ASSUME NEW k \in 1..Len(W), NEW m \in 1..Len(W), Members(W[k]) \cap Members(W[m]) # {}
      PROVE  k = m
  <2>1. PICK c : c \in Members(W[k]) /\ c \in Members(W[m])
    BY <1>9
  <2>2. c \in Between(s, b[k - 1], b[k]) /\ c \in Between(s, b[m - 1], b[m])
    BY <1>6, <2>1
  <2>3. PICK p \in (b[k - 1] + 1)..b[k] : s[p] = c
    BY <2>2 DEF Between
  <2>4. PICK q \in (b[m - 1] + 1)..b[m] : s[q] = c
    BY <2>2 DEF Between
  <2>5. p \in 1..n /\ q \in 1..n
    <3>1. b[k - 1] \in 0..n /\ b[k] \in 0..n /\ b[m - 1] \in 0..n /\ b[m] \in 0..n
      BY <1>6
    <3>2. p \in 1..n
      BY <1>1, <2>3, <3>1
    <3>3. q \in 1..n
      BY <1>1, <2>4, <3>1
    <3> QED
      BY <3>2, <3>3
  <2>6. p = q
    BY <1>1, <2>3, <2>4, <2>5, SortsOnce DEF n
  <2>7. In(b, k, p) /\ In(b, m, p)
    BY <2>3, <2>4, <2>6 DEF In
  <2>8. n \in Nat /\ CutAt(W, b, s, n) /\ p \in 1..n
    BY <1>1, <1>2, <2>5
  <2> QED
    BY <2>7, <2>8, CutHasOnce
<1>10. Splits(W, S)
  BY <1>4, <1>7, <1>8, <1>9 DEF Splits
<1> QED
  BY <1>10 DEF W

\* In whatever order a pass works on its windows, they are the same windows.
LEMMA NewestFirstSplits ==
    ASSUME NEW S, NEW W, Splits(W, S)
    PROVE  Splits(NewestFirst(W), S)
<1> DEFINE D == DOMAIN W
           Later(i, j) == \/ W[i].start > W[j].start
                          \/ W[i].start = W[j].start /\ W[i].end > W[j].end
                          \/ W[i].start = W[j].start /\ W[i].end = W[j].end /\ i < j
           R == {p \in D \X D : Later(p[1], p[2])}
           at(n) == CHOOSE x \in D : Cardinality({y \in D : Later(y, x)}) = n - 1
           order == [n \in 1..Cardinality(D) |-> at(n)]
           V == [n \in D |-> W[order[n]]]
<1>1. NewestFirst(W) = V
  BY DEF NewestFirst, InOrder
<1>2. W \in Seq(ChunkWindow) /\ Len(W) \in Nat /\ D = 1..Len(W)
  <2>1. W \in Seq(ChunkWindow)
    BY DEF Splits
  <2> QED
    BY <2>1
<1>3. \A k \in D : W[k].start \in Nat /\ W[k].end \in Nat /\ k \in Nat
  <2> TAKE k \in D
  <2>1. k \in 1..Len(W) /\ W[k] \in ChunkWindow
    BY <1>2
  <2> QED
    BY <1>2, <2>1 DEF ChunkWindow
<1>4. IsFiniteSet(D) /\ Cardinality(D) = Len(W)
  BY <1>2, FS_Interval
<1>5. \A i, j \in D : <<i, j>> \in R <=> Later(i, j)
  OBVIOUS
<1>6. Orders(R, D)
  <2> HIDE DEF D, R
  <2>1. \A i \in D : ~Later(i, i)
    BY <1>3
  <2>2. \A i, j, k \in D : Later(i, j) /\ Later(j, k) => Later(i, k)
    BY <1>3
  <2>3. \A i, j \in D : i = j \/ Later(i, j) \/ Later(j, i)
    BY <1>3
  <2> QED
    BY <1>5, <2>1, <2>2, <2>3 DEF Orders
<1> HIDE DEF Later
<1>7. ASSUME NEW x \in D PROVE Rank(R, D, x) = Cardinality({y \in D : Later(y, x)})
  <2>1. {y \in D : <<y, x>> \in R} = {y \in D : Later(y, x)}
    OBVIOUS
  <2> QED
    BY <2>1 DEF Rank
<1>8. ASSUME NEW n \in 1..Cardinality(D) PROVE at(n) \in D /\ Rank(R, D, at(n)) = n - 1
  <2> HIDE DEF D, R
  <2>1. n - 1 \in 0..(Cardinality(D) - 1)
    BY <1>2, <1>4
  <2>2. \E x \in D : Rank(R, D, x) = n - 1
    BY <1>4, <1>6, <2>1, RankTaken
  <2>3. \E x \in D : Cardinality({y \in D : Later(y, x)}) = n - 1
    BY <1>7, <2>2
  <2>4. at(n) \in D /\ Cardinality({y \in D : Later(y, at(n))}) = n - 1
    BY <2>3
  <2> QED
    BY <1>7, <2>4
<1> HIDE DEF D, R, at
<1>9. order \in [1..Cardinality(D) -> D] /\ \A n \in 1..Cardinality(D) : Rank(R, D, order[n]) = n - 1
  BY <1>8
<1> HIDE DEF order
<1>10. Sorts(order, R, D)
  BY <1>4, <1>6, <1>9, RanksSort
<1>11. /\ \A n \in D : order[n] \in D
       /\ \A k \in D : \E n \in D : order[n] = k
       /\ \A n, m \in D : order[n] = order[m] => n = m
  <2>1. Len(order) = Len(W)
    BY <1>4, <1>10 DEF Sorts
  <2>2. (\A n \in D : order[n] \in D) /\ \A k \in D : \E n \in D : order[n] = k
    BY <1>2, <1>4, <1>9, <1>10, <2>1 DEF Sorts
  <2>3. \A n, m \in D : order[n] = order[m] => n = m
    BY <1>2, <1>6, <1>10, <2>1, SortsOnce
  <2> QED
    BY <2>2, <2>3
<1>12. V \in Seq(ChunkWindow) /\ Len(V) = Len(W) /\ \A n \in D : V[n] = W[order[n]]
  <2>1. \A n \in D : W[order[n]] \in ChunkWindow
    BY <1>2, <1>11
  <2>2. V \in [1..Len(W) -> ChunkWindow]
    BY <1>2, <2>1
  <2> QED
    BY <1>2, <2>2
<1> HIDE DEF V
<1>13. /\ \A k \in D : Members(W[k]) \in SUBSET S
       /\ \A c \in S : \E k \in D : c \in Members(W[k])
       /\ \A k, m \in D : Members(W[k]) \cap Members(W[m]) # {} => k = m
  BY <1>2 DEF Splits
<1>14. \A n \in D : Members(V[n]) \in SUBSET S
  BY <1>11, <1>12, <1>13
<1>15. ASSUME NEW c \in S PROVE \E n \in D : c \in Members(V[n])
  <2>1. PICK k \in D : c \in Members(W[k])
    BY <1>13
  <2>2. PICK n \in D : order[n] = k
    BY <1>11
  <2> QED
    BY <1>12, <2>1, <2>2
<1>16. ASSUME NEW n \in D, NEW m \in D, Members(V[n]) \cap Members(V[m]) # {} PROVE n = m
  <2>1. order[n] \in D /\ order[m] \in D
    BY <1>11
  <2>2. Members(W[order[n]]) \cap Members(W[order[m]]) # {}
    BY <1>12, <1>16
  <2>3. order[n] = order[m]
    BY <1>13, <2>1, <2>2
  <2> QED
    BY <1>11, <2>3
<1>17. Splits(V, S)
  <2>1. V \in Seq(ChunkWindow) /\ 1..Len(V) = D
    BY <1>2, <1>12
  <2> QED
    BY <1>14, <1>15, <1>16, <2>1 DEF Splits
<1> QED
  BY <1>1, <1>17

--------------------------------------------------------------------------------
\* The groups of a sequence of candidates.

LEMMA AtMostOne ==
    ASSUME NEW X, IsFiniteSet(X), Cardinality(X) <= 1, NEW x \in X, NEW y \in X
    PROVE  x = y
<1>1. IsFiniteSet(X \ {x}) /\ Cardinality(X \ {x}) = Cardinality(X) - 1
  BY FS_RemoveElement
<1>2. Cardinality(X) \in Nat /\ Cardinality(X \ {x}) \in Nat
  BY <1>1, FS_CardinalityType
<1>3. X \ {x} = {}
  <2>1. Cardinality(X \ {x}) = 0
    BY <1>1, <1>2
  <2> QED
    BY <1>1, <2>1, FS_EmptySet
<1> QED
  BY <1>3

\* There is something left of the name.
Clear(c) == Named(c) /\ PlainName(c.name) # EmptyName

LEMMA NamesHave ==
    ASSUME NEW g
    PROVE  /\ \A k \in DOMAIN g : Clear(g[k]) => PlainName(g[k].name) \in NamesIn(g)
           /\ \A x \in NamesIn(g) : \E k \in DOMAIN g : Clear(g[k]) /\ x = PlainName(g[k].name)
<1>1. ToSet(g) = {g[k] : k \in DOMAIN g}
  BY DEF ToSet
<1>2. NamesIn(g) = {PlainName(m.name) : m \in {m \in ToSet(g) : Named(m)}} \ {EmptyName}
  BY DEF NamesIn
<1> QED
  BY <1>1, <1>2 DEF Clear

LEMMA NamesFinite ==
    ASSUME NEW C, NEW g \in Seq(C)
    PROVE  IsFiniteSet(NamesIn(g))
<1> DEFINE name == [k \in 1..Len(g) |-> PlainName(g[k].name)]
<1>1. IsFiniteSet({name[k] : k \in 1..Len(g)})
  <2>1. Len(g) \in Nat
    OBVIOUS
  <2>2. IsFiniteSet(1..Len(g))
    BY <2>1, FS_Interval
  <2> HIDE DEF name
  <2> QED
    BY <2>2, FiniteValues
<1>2. NamesIn(g) \in SUBSET {name[k] : k \in 1..Len(g)}
  <2>1. DOMAIN g = 1..Len(g)
    OBVIOUS
  <2> QED
    BY <2>1, NamesHave
<1> QED
  BY <1>1, <1>2, FS_Subset

\* What the members of a group have in common, and who starts it.
Alike(g) ==
    /\ \A j, k \in 1..Len(g) :
          Clear(g[j]) /\ Clear(g[k]) => PlainName(g[j].name) = PlainName(g[k].name)
    /\ \A j, k \in 1..Len(g) : Tokens(g[j]) \cap Negation = Tokens(g[k]) \cap Negation
    /\ Len(g) > 1 => g[1].source # g[2].source

LEMMA AloneAlike ==
    ASSUME NEW c
    PROVE  Alike(<<c>>)
<1>1. Len(<<c>>) = 1 /\ <<c>>[1] = c /\ \A j \in 1..1 : j = 1
  OBVIOUS
<1> QED
  BY <1>1 DEF Alike

\* What is left of the names of compatible speakers is one name.
LEMMA CompatibleNames ==
    ASSUME NEW C, NEW g \in Seq(C), NEW c \in C, Compatible(c, g)
    PROVE  \A k \in 1..Len(g) :
               Clear(c) /\ Clear(g[k]) => PlainName(c.name) = PlainName(g[k].name)
<1> DEFINE h == Append(g, c)
           X == NamesIn(h)
<1>1. /\ Len(g) \in Nat /\ h \in Seq(C) /\ Len(h) = Len(g) + 1 /\ h[Len(g) + 1] = c
      /\ \A k \in 1..Len(g) : h[k] = g[k]
  OBVIOUS
<1>2. Cardinality(X) <= 1
  BY DEF Compatible
<1> HIDE DEF h
<1>3. IsFiniteSet(X)
  BY <1>1, NamesFinite
<1>4. \A k \in 1..Len(h) : Clear(h[k]) => PlainName(h[k].name) \in X
  <2>1. DOMAIN h = 1..Len(h)
    BY <1>1
  <2> QED
    BY <2>1, NamesHave
<1> HIDE DEF X
<1> QED
  BY <1>1, <1>2, <1>3, <1>4, AtMostOne

LEMMA SameNegations ==
    ASSUME NEW c, NEW d, c.words = d.words \/ ~UnsharedNegation(c, d)
    PROVE  Tokens(c) \cap Negation = Tokens(d) \cap Negation
<1>1. CASE c.words = d.words
  BY <1>1 DEF Tokens
<1>2. CASE ~UnsharedNegation(c, d)
  <2>1. SymDiff(Tokens(c), Tokens(d)) \cap Negation = {}
    BY <1>2 DEF UnsharedNegation
  <2> QED
    BY <2>1 DEF SymDiff
<1> QED
  BY <1>1, <1>2

LEMMA JoinedAlike ==
    ASSUME NEW C, NEW g \in Seq(C), Len(g) # 0, Alike(g), NEW c \in C, MatchesGroup(c, g)
    PROVE  Alike(Append(g, c))
<1> DEFINE h == Append(g, c)
           n == Len(g)
<1>1. PICK i \in 1..n : /\ c.words = g[i].words => ExactMatch(c, g[i])
                        /\ c.words # g[i].words => FuzzyMatch(c, g[i])
  BY DEF MatchesGroup
<1>2. c.source # g[i].source /\ (c.words = g[i].words \/ ~UnsharedNegation(c, g[i]))
  BY <1>1 DEF ExactMatch, FuzzyMatch
<1>3. Tokens(c) \cap Negation = Tokens(g[i]) \cap Negation
  BY <1>2, SameNegations
<1>4. \A k \in 1..n : Clear(c) /\ Clear(g[k]) => PlainName(c.name) = PlainName(g[k].name)
  BY CompatibleNames DEF MatchesGroup
<1>5. n \in Nat \ {0} /\ Len(h) = n + 1 /\ h[n + 1] = c /\ \A k \in 1..n : h[k] = g[k]
  OBVIOUS
<1>6. /\ \A j, k \in 1..n :
            Clear(g[j]) /\ Clear(g[k]) => PlainName(g[j].name) = PlainName(g[k].name)
      /\ \A j, k \in 1..n : Tokens(g[j]) \cap Negation = Tokens(g[k]) \cap Negation
      /\ n > 1 => g[1].source # g[2].source
  BY DEF Alike
<1> HIDE DEF h, n
<1>7. \A j \in 1..(n + 1) : j \in 1..n \/ j = n + 1
  BY <1>5
<1>8. ASSUME NEW j \in 1..(n + 1), NEW k \in 1..(n + 1), Clear(h[j]), Clear(h[k])
      PROVE  PlainName(h[j].name) = PlainName(h[k].name)
  BY <1>4, <1>5, <1>6, <1>7, <1>8
<1>9. ASSUME NEW j \in 1..(n + 1)
      PROVE  Tokens(h[j]) \cap Negation = Tokens(g[i]) \cap Negation
  BY <1>3, <1>5, <1>6, <1>7
<1>10. h[1].source # h[2].source
  <2>1. CASE n = 1
    <3>1. i = 1 /\ h[1] = g[i] /\ h[2] = c
      BY <1>5, <2>1
    <3> QED
      BY <1>2, <3>1
  <2>2. CASE n > 1
    <3>1. h[1] = g[1] /\ h[2] = g[2]
      BY <1>5, <2>2
    <3> QED
      BY <1>6, <2>2, <3>1
  <2> QED
    BY <1>5, <2>1, <2>2
<1>11. Alike(h)
  BY <1>5, <1>8, <1>9, <1>10 DEF Alike
<1> QED
  BY <1>11 DEF h

\* The groups G have each candidate of T at one place.
Spread(G, C, T) ==
    /\ G \in Seq(Seq(C))
    /\ \A i \in 1..Len(G) : Len(G[i]) # 0 /\ Alike(G[i]) /\ \A j \in 1..Len(G[i]) : G[i][j] \in T
    /\ \A c \in T : \E i \in 1..Len(G) : \E j \in 1..Len(G[i]) : G[i][j] = c
    /\ \A i, k \in 1..Len(G) : \A j \in 1..Len(G[i]), l \in 1..Len(G[k]) :
          G[i][j] = G[k][l] => i = k /\ j = l

LEMMA OpenSpreads ==
    ASSUME NEW C, NEW T \in SUBSET C, NEW c \in C, c \notin T, NEW G, Spread(G, C, T)
    PROVE  Spread(Append(G, <<c>>), C, T \cup {c})
<1> DEFINE H == Append(G, <<c>>)
           L == Len(G)
           U == T \cup {c}
<1>1. G \in Seq(Seq(C)) /\ L \in Nat
  BY DEF Spread
<1>2. /\ \A i \in 1..L : Len(G[i]) # 0 /\ Alike(G[i]) /\ \A j \in 1..Len(G[i]) : G[i][j] \in T
      /\ \A d \in T : \E i \in 1..L : \E j \in 1..Len(G[i]) : G[i][j] = d
      /\ \A i, k \in 1..L : \A j \in 1..Len(G[i]), l \in 1..Len(G[k]) :
            G[i][j] = G[k][l] => i = k /\ j = l
  BY DEF Spread
<1> DEFINE one == <<c>>
<1>3. /\ one \in Seq(C) /\ Len(one) = 1 /\ one[1] = c /\ Alike(one)
      /\ 1 \in 1..Len(one) /\ \A j \in 1..Len(one) : j = 1
  BY AloneAlike
<1> HIDE DEF one, L
<1>4. H \in Seq(Seq(C)) /\ Len(H) = L + 1 /\ H[L + 1] = one /\ \A i \in 1..L : H[i] = G[i]
  BY <1>1, <1>3 DEF one, L
<1> HIDE DEF H
<1>5. \A i \in 1..(L + 1) : i \in 1..L \/ i = L + 1
  BY <1>1
<1>6. ASSUME NEW i \in 1..(L + 1)
      PROVE  Len(H[i]) # 0 /\ Alike(H[i]) /\ \A j \in 1..Len(H[i]) : H[i][j] \in U
  <2>1. CASE i \in 1..L
    BY <1>2, <1>4, <2>1
  <2>2. CASE i = L + 1
    <3>1. H[i] = one
      BY <1>4, <2>2
    <3>2. Len(one) # 0 /\ \A j \in 1..Len(one) : one[j] \in U
      BY <1>3
    <3> QED
      BY <1>3, <3>1, <3>2
  <2> QED
    BY <1>5, <2>1, <2>2
<1>7. ASSUME NEW d \in U PROVE \E i \in 1..(L + 1) : \E j \in 1..Len(H[i]) : H[i][j] = d
  <2>1. CASE d \in T
    <3>1. PICK i \in 1..L : \E j \in 1..Len(G[i]) : G[i][j] = d
      BY <1>2, <2>1
    <3>2. i \in 1..(L + 1) /\ H[i] = G[i]
      BY <1>1, <1>4
    <3> QED
      BY <3>1, <3>2
  <2>2. CASE d = c
    <3>1. L + 1 \in 1..(L + 1)
      BY <1>1
    <3>2. 1 \in 1..Len(H[L + 1]) /\ H[L + 1][1] = d
      BY <1>3, <1>4, <2>2
    <3> QED
      BY <3>1, <3>2
  <2> QED
    BY <2>1, <2>2
<1>8. ASSUME NEW i \in 1..(L + 1), NEW k \in 1..(L + 1),
             NEW j \in 1..Len(H[i]), NEW l \in 1..Len(H[k]), H[i][j] = H[k][l]
      PROVE  i = k /\ j = l
  <2>1. \A x \in 1..L : \A y \in 1..Len(H[x]) : H[x][y] \in T
    BY <1>2, <1>4
  <2>2. \A y \in 1..Len(H[L + 1]) : y = 1 /\ H[L + 1][y] = c
    BY <1>3, <1>4
  <2>3. CASE i \in 1..L /\ k \in 1..L
    <3>1. H[i] = G[i] /\ H[k] = G[k]
      BY <1>4, <2>3
    <3>2. j \in 1..Len(G[i]) /\ l \in 1..Len(G[k]) /\ G[i][j] = G[k][l]
      BY <1>8, <3>1
    <3> QED
      BY <1>2, <2>3, <3>2
  <2>4. CASE i = L + 1 /\ k = L + 1
    BY <2>2, <2>4
  <2>5. CASE i \in 1..L /\ k = L + 1
    BY <1>8, <2>1, <2>2, <2>5
  <2>6. CASE i = L + 1 /\ k \in 1..L
    BY <1>8, <2>1, <2>2, <2>6
  <2> QED
    BY <1>5, <2>3, <2>4, <2>5, <2>6
<1> HIDE DEF U
<1>9. Spread(H, C, U)
  BY <1>4, <1>6, <1>7, <1>8 DEF Spread
<1> QED
  BY <1>9 DEF H, U, one

\* G with c in its group m.
Added(G, m, c) == [G EXCEPT ![m] = Append(@, c)]

LEMMA AddSpreads ==
    ASSUME NEW C, NEW T \in SUBSET C, NEW c \in C, c \notin T, NEW G, Spread(G, C, T),
           NEW m \in 1..Len(G), MatchesGroup(c, G[m])
    PROVE  Spread(Added(G, m, c), C, T \cup {c})
<1> DEFINE H == Added(G, m, c)
           L == Len(G)
           U == T \cup {c}
           g == G[m]
           h == Append(g, c)
<1>1. G \in Seq(Seq(C)) /\ L \in Nat
  BY DEF Spread
<1>2. /\ \A i \in 1..L : Len(G[i]) # 0 /\ Alike(G[i]) /\ \A j \in 1..Len(G[i]) : G[i][j] \in T
      /\ \A d \in T : \E i \in 1..L : \E j \in 1..Len(G[i]) : G[i][j] = d
      /\ \A i, k \in 1..L : \A j \in 1..Len(G[i]), l \in 1..Len(G[k]) :
            G[i][j] = G[k][l] => i = k /\ j = l
  BY DEF Spread
<1>3. g \in Seq(C) /\ Len(g) \in Nat /\ Len(g) # 0 /\ Alike(g)
  BY <1>1, <1>2
<1>4. Alike(h)
  BY <1>3, JoinedAlike
<1>5. h \in Seq(C) /\ Len(h) = Len(g) + 1 /\ h[Len(g) + 1] = c /\ \A j \in 1..Len(g) : h[j] = g[j]
  BY <1>3
<1> HIDE DEF h, L
<1>6. H \in Seq(Seq(C)) /\ Len(H) = L /\ H[m] = h /\ \A i \in 1..L : i # m => H[i] = G[i]
  BY <1>1, <1>5 DEF h, L, Added
<1> HIDE DEF H, g
<1>7. m \in 1..L /\ G[m] = g
  BY DEF L, g
<1>8. \A j \in 1..Len(h) : j \in 1..Len(g) \/ j = Len(g) + 1
  BY <1>3, <1>5
<1>9. ASSUME NEW i \in 1..L
      PROVE  Len(H[i]) # 0 /\ Alike(H[i]) /\ \A j \in 1..Len(H[i]) : H[i][j] \in U
  <2>1. CASE i # m
    BY <1>2, <1>6, <2>1
  <2>2. CASE i = m
    <3>1. Len(h) # 0
      BY <1>3, <1>5
    <3>2. \A j \in 1..Len(g) : g[j] \in T
      BY <1>2, <1>7
    <3>3. \A j \in 1..Len(h) : h[j] \in U
      BY <1>5, <1>8, <3>2
    <3> QED
      BY <1>4, <1>6, <2>2, <3>1, <3>3
  <2> QED
    BY <2>1, <2>2
<1>10. ASSUME NEW d \in U PROVE \E i \in 1..L : \E j \in 1..Len(H[i]) : H[i][j] = d
  <2>1. CASE d \in T
    <3>1. PICK i \in 1..L : \E j \in 1..Len(G[i]) : G[i][j] = d
      BY <1>2, <2>1
    <3>2. CASE i # m
      BY <1>6, <3>1, <3>2
    <3>3. CASE i = m
      <4>1. PICK j \in 1..Len(g) : g[j] = d
        BY <1>7, <3>1, <3>3
      <4>2. j \in 1..Len(h) /\ h[j] = d
        BY <1>3, <1>5, <4>1
      <4> QED
        BY <1>6, <1>7, <4>2
    <3> QED
      BY <3>2, <3>3
  <2>2. CASE d = c
    <3>1. Len(g) + 1 \in 1..Len(h) /\ h[Len(g) + 1] = d
      BY <1>3, <1>5, <2>2
    <3> QED
      BY <1>6, <1>7, <3>1
  <2> QED
    BY <2>1, <2>2
<1>11. ASSUME NEW i \in 1..L, NEW k \in 1..L,
              NEW j \in 1..Len(H[i]), NEW l \in 1..Len(H[k]), H[i][j] = H[k][l]
       PROVE  i = k /\ j = l
  \* The place is one of G, or the new one.
  <2> DEFINE Old(x, y) == y \in 1..Len(G[x]) /\ H[x][y] = G[x][y] /\ H[x][y] \in T
             New(x, y) == x = m /\ y = Len(g) + 1 /\ H[x][y] = c
  <2>1. ASSUME NEW x \in 1..L, NEW y \in 1..Len(H[x]) PROVE Old(x, y) \/ New(x, y)
    <3>1. CASE x # m
      BY <1>2, <1>6, <3>1
    <3>2. CASE x = m
      <4>1. H[x] = h /\ G[x] = g /\ y \in 1..Len(h)
        BY <1>6, <1>7, <3>2
      <4>2. \A z \in 1..Len(g) : g[z] \in T
        BY <1>2, <1>7
      <4>3. CASE y \in 1..Len(g)
        BY <1>5, <4>1, <4>2, <4>3
      <4>4. CASE y = Len(g) + 1
        BY <1>5, <3>2, <4>1, <4>4
      <4> QED
        BY <1>8, <4>1, <4>3, <4>4
    <3> QED
      BY <3>1, <3>2
  <2>2. Old(i, j) \/ New(i, j)
    BY <2>1
  <2>3. Old(k, l) \/ New(k, l)
    BY <2>1
  <2>4. CASE Old(i, j) /\ Old(k, l)
    <3>1. j \in 1..Len(G[i]) /\ l \in 1..Len(G[k]) /\ G[i][j] = G[k][l]
      BY <1>11, <2>4
    <3> QED
      BY <1>2, <3>1
  <2>5. CASE New(i, j) /\ New(k, l)
    BY <2>5
  <2>6. ~(Old(i, j) /\ New(k, l)) /\ ~(New(i, j) /\ Old(k, l))
    BY <1>11
  <2> HIDE DEF Old, New
  <2> QED
    BY <2>2, <2>3, <2>4, <2>5, <2>6
<1> HIDE DEF U
<1>12. Spread(H, C, U)
  BY <1>6, <1>9, <1>10, <1>11 DEF Spread
<1> QED
  BY <1>12 DEF H, U

LEMMA JoinSpreads ==
    ASSUME NEW C, NEW T \in SUBSET C, NEW c \in C, c \notin T, NEW G, Spread(G, C, T)
    PROVE  Spread(Join(G, c), C, T \cup {c})
<1> DEFINE fitting == {i \in DOMAIN G : MatchesGroup(c, G[i])}
<1>1. DOMAIN G = 1..Len(G)
  BY DEF Spread
<1>2. CASE fitting = {}
  <2>1. Join(G, c) = Append(G, <<c>>)
    BY <1>2 DEF Join
  <2> QED
    BY <2>1, OpenSpreads
<1>3. CASE fitting # {}
  <2> DEFINE m == Min(fitting)
  <2>1. Join(G, c) = Added(G, m, c)
    BY <1>3 DEF Join, Added
  <2>2. m \in fitting
    <3>1. fitting \in SUBSET Nat
      BY <1>1
    <3> QED
      BY <1>3, <3>1, MinIs
  <2> HIDE DEF m
  <2>3. m \in 1..Len(G) /\ MatchesGroup(c, G[m])
    BY <1>1, <2>2
  <2> QED
    BY <2>1, <2>3, AddSpreads
<1> QED
  BY <1>2, <1>3

\* Each candidate of C gets into one group.
LEMMA GroupsSpread ==
    ASSUME NEW C, NEW R, Orders(R, C), NEW s, Sorts(s, R, C)
    PROVE  Spread(GroupsUpTo(s)[Len(s)], C, C)
<1> DEFINE Is(n) == Spread(GroupsUpTo(s)[n], C, Between(s, 0, n))
           None == {n \in 0..Len(s) : ~Is(n)}
<1>1. s \in Seq(C) /\ Len(s) \in Nat /\ \A c \in C : \E p \in 1..Len(s) : s[p] = c
  BY DEF Sorts
<1>2. \A p \in 1..Len(s) : s[p] \in C
  BY <1>1
<1>3. Is(0)
  <2> DEFINE G == GroupsUpTo(s)[0]
  <2>1. G = <<>> /\ Between(s, 0, 0) = {}
    BY <1>1, GroupsUpToIs DEF Between
  <2> HIDE DEF G
  <2>2. G \in Seq(Seq(C)) /\ Len(G) = 0 /\ \A i : i \notin 1..0
    BY <2>1
  <2>3. Spread(G, C, {})
    BY <2>2 DEF Spread
  <2> QED
    BY <2>1, <2>3 DEF G
<1>4. ASSUME NEW n \in 1..Len(s), Is(n - 1) PROVE Is(n)
  <2> DEFINE T == Between(s, 0, n - 1)
             c == s[n]
             G == GroupsUpTo(s)[n - 1]
  <2>1. GroupsUpTo(s)[n] = Join(G, c)
    BY <1>1, GroupsUpToIs
  <2>2. T \in SUBSET C /\ c \in C
    BY <1>1, <1>2 DEF Between
  <2>3. c \notin T
    <3> SUFFICES ASSUME c \in T PROVE FALSE
      OBVIOUS
    <3>1. PICK p \in (0 + 1)..(n - 1) : s[p] = s[n]
      BY DEF Between
    <3>2. p \in 1..Len(s) /\ p # n
      BY <1>1
    <3> QED
      BY <3>1, <3>2, SortsOnce
  <2>4. Between(s, 0, n) = T \cup {c}
    <3>1. \A p : p \in (0 + 1)..n <=> p \in (0 + 1)..(n - 1) \/ p = n
      BY <1>1
    <3> QED
      BY <3>1 DEF Between
  <2>5. Spread(G, C, T)
    BY <1>4
  <2> HIDE DEF T, c, G
  <2>6. Spread(Join(G, c), C, T \cup {c})
    BY <2>2, <2>3, <2>5, JoinSpreads
  <2> QED
    BY <2>1, <2>4, <2>6
<1> HIDE DEF Is
<1>5. ASSUME None # {} PROVE FALSE
  <2>1. None \in SUBSET Nat
    BY <1>1
  <2>2. PICK n \in None : \A j \in None : n <= j
    BY <1>5, <2>1, LeastNat
  <2>3. n \in 1..Len(s) /\ n - 1 \in 0..Len(s) /\ n - 1 \notin None
    BY <1>1, <1>3, <2>2
  <2> QED
    BY <1>4, <2>2, <2>3
<1>6. Is(Len(s))
  <2>1. Len(s) \in 0..Len(s)
    BY <1>1
  <2> QED
    BY <1>5, <2>1
<1>7. Between(s, 0, Len(s)) = C
  BY <1>1, <1>2 DEF Between
<1> QED
  BY <1>6, <1>7 DEF Is

\* What is to be said of a canonical utterance and its members.
Sound(u) ==
    /\ \A j, k \in DOMAIN u.members :
          Clear(u.members[j]) /\ Clear(u.members[k]) =>
              PlainName(u.members[j].name) = PlainName(u.members[k].name)
    /\ \A j, k \in DOMAIN u.members :
          Tokens(u.members[j]) \cap Negation = Tokens(u.members[k]) \cap Negation
    /\ Len(u.members) > 1 =>
          \E j, k \in DOMAIN u.members : u.members[j].source # u.members[k].source

LEMMA SubsetOfCandidates ==
    ASSUME NEW C, CandidateSet(C), NEW B \in SUBSET C
    PROVE  CandidateSet(B)
BY FS_Subset DEF CandidateSet

\* The members of a group become those of its utterance, in order.
LEMMA UtteranceIs ==
    ASSUME NEW C, CandidateSet(C), NEW g \in Seq(C), Len(g) # 0, Alike(g)
    PROVE  /\ Sorts(Utterance(g).members, KeyOrder(ToSet(g)), ToSet(g))
           /\ Orders(KeyOrder(ToSet(g)), ToSet(g))
           /\ Sound(Utterance(g))
           /\ \E d \in ToSet(g) : Utterance(g).name = d.name /\ Utterance(g).source = d.source
<1> DEFINE B == ToSet(g)
           m == Utterance(g).members
           n == Len(g)
<1>1. n \in Nat \ {0} /\ B = {g[j] : j \in 1..n} /\ \A j \in 1..n : g[j] \in C
  BY DEF ToSet
<1>2. B \in SUBSET C /\ B # {}
  <2>1. 1 \in 1..n
    BY <1>1
  <2> QED
    BY <1>1, <2>1
<1> HIDE DEF B, n
<1>3. CandidateSet(B)
  BY <1>2, SubsetOfCandidates
<1>4. m = InKeyOrder(B)
  BY DEF Utterance, B
<1> HIDE DEF m
<1>5. Sorts(m, KeyOrder(B), B) /\ Orders(KeyOrder(B), B)
  BY <1>3, <1>4, InKeyOrderSorts, KeyOrders
<1>6. /\ m \in Seq(B) /\ Len(m) \in Nat /\ DOMAIN m = 1..Len(m)
      /\ \A j \in DOMAIN m : m[j] \in B
      /\ \A d \in B : \E j \in DOMAIN m : m[j] = d
  <2>1. m \in Seq(B) /\ \A d \in B : \E j \in 1..Len(m) : m[j] = d
    BY <1>5 DEF Sorts
  <2>2. Len(m) \in Nat /\ DOMAIN m = 1..Len(m) /\ \A j \in DOMAIN m : m[j] \in B
    BY <2>1
  <2> QED
    BY <2>1, <2>2
<1>7. \A d, e \in B : /\ Clear(d) /\ Clear(e) => PlainName(d.name) = PlainName(e.name)
                      /\ Tokens(d) \cap Negation = Tokens(e) \cap Negation
  BY <1>1 DEF Alike, n
<1>8. ASSUME Len(m) > 1 PROVE \E j, k \in DOMAIN m : m[j].source # m[k].source
  <2>1. n > 1
    <3> SUFFICES ASSUME n = 1 PROVE FALSE
      BY <1>1
    <3>1. \A d, e \in B : d = e
      BY <1>1
    <3>2. 1 \in DOMAIN m /\ 2 \in DOMAIN m /\ m[1] = m[2]
      BY <1>6, <1>8, <3>1
    <3>3. 1 = 2
      BY <1>5, <1>6, <3>2, SortsOnce
    <3> QED
      BY <3>3
  <2>2. g[1] \in B /\ g[2] \in B /\ g[1].source # g[2].source
    <3>1. 1 \in 1..n /\ 2 \in 1..n
      BY <1>1, <2>1
    <3> QED
      BY <1>1, <2>1, <3>1 DEF Alike, n
  <2> QED
    BY <1>6, <2>2
<1>9. Sound(Utterance(g))
  BY <1>6, <1>7, <1>8 DEF Sound, m
<1>10. Representative(g) \in B
  BY <1>2, <1>3, RepresentativeIn DEF B
<1>11. /\ Utterance(g).name = Representative(g).name
       /\ Utterance(g).source = Representative(g).source
  BY DEF Utterance
<1> QED
  BY <1>5, <1>9, <1>10, <1>11 DEF B, m

\* The utterances M are those of the candidates C, each a member of one, once.
Rows(M, C) ==
    /\ \A i \in DOMAIN M :
          /\ Sound(M[i])
          /\ \E d \in C : M[i].name = d.name /\ M[i].source = d.source
          /\ Len(M[i].members) \in Nat /\ DOMAIN M[i].members = 1..Len(M[i].members)
          /\ \A k \in DOMAIN M[i].members : M[i].members[k] \in C
    /\ \A c \in C : \E i \in DOMAIN M : \E k \in DOMAIN M[i].members : M[i].members[k] = c
    /\ \A i, j \in DOMAIN M : \A k \in DOMAIN M[i].members, l \in DOMAIN M[j].members :
          M[i].members[k] = M[j].members[l] => i = j /\ k = l

LEMMA MergeRows ==
    ASSUME NEW C, CandidateSet(C)
    PROVE  Rows(MergeCandidates(C), C)
<1> DEFINE s == InKeyOrder(C)
           G == GroupsUpTo(s)[Len(s)]
           M == MergeCandidates(C)
           m(i) == M[i].members
           B(i) == ToSet(G[i])
<1>1. Sorts(s, KeyOrder(C), C) /\ Orders(KeyOrder(C), C)
  BY InKeyOrderSorts, KeyOrders
<1>2. Spread(G, C, C)
  BY <1>1, GroupsSpread
<1>3. M = [i \in DOMAIN G |-> Utterance(G[i])]
  <2>1. Len(s) = Cardinality(C)
    BY <1>1 DEF Sorts
  <2> QED
    BY <2>1 DEF MergeCandidates
<1> HIDE DEF s, G, M
<1>4. G \in Seq(Seq(C)) /\ DOMAIN G = 1..Len(G)
  <2>1. G \in Seq(Seq(C))
    BY <1>2 DEF Spread
  <2> QED
    BY <2>1
<1> DEFINE D == 1..Len(G)
<1>5. DOMAIN M = D /\ \A i \in D : M[i] = Utterance(G[i])
  BY <1>3, <1>4
<1>6. ASSUME NEW i \in D PROVE G[i] \in Seq(C) /\ Len(G[i]) # 0 /\ Alike(G[i])
  BY <1>2, <1>4 DEF Spread
<1>7. ASSUME NEW i \in D
      PROVE  /\ Sorts(m(i), KeyOrder(B(i)), B(i)) /\ Orders(KeyOrder(B(i)), B(i)) /\ Sound(M[i])
             /\ \E d \in B(i) : M[i].name = d.name /\ M[i].source = d.source
  BY <1>5, <1>6, UtteranceIs
<1>8. ASSUME NEW i \in D
      PROVE  B(i) = {G[i][j] : j \in 1..Len(G[i])} /\ B(i) \in SUBSET C
  <2>1. DOMAIN G[i] = 1..Len(G[i]) /\ \A j \in 1..Len(G[i]) : G[i][j] \in C
    BY <1>6
  <2> QED
    BY <2>1 DEF ToSet
<1> HIDE DEF m, B
<1>9. ASSUME NEW i \in D
      PROVE  /\ Len(m(i)) \in Nat /\ DOMAIN m(i) = 1..Len(m(i))
             /\ \A k \in DOMAIN m(i) : m(i)[k] \in B(i)
             /\ \A d \in B(i) : \E k \in DOMAIN m(i) : m(i)[k] = d
             /\ \A k, l \in DOMAIN m(i) : m(i)[k] = m(i)[l] => k = l
  <2>1. m(i) \in Seq(B(i)) /\ \A d \in B(i) : \E k \in 1..Len(m(i)) : m(i)[k] = d
    BY <1>7 DEF Sorts
  <2>2. Len(m(i)) \in Nat /\ DOMAIN m(i) = 1..Len(m(i)) /\ \A k \in 1..Len(m(i)) : m(i)[k] \in B(i)
    BY <2>1
  <2>3. \A k, l \in 1..Len(m(i)) : m(i)[k] = m(i)[l] => k = l
    BY <1>7, SortsOnce
  <2> QED
    BY <2>1, <2>2, <2>3
<1>10. ASSUME NEW c \in C PROVE \E i \in D : \E k \in DOMAIN m(i) : m(i)[k] = c
  <2>1. PICK i \in D : \E j \in 1..Len(G[i]) : G[i][j] = c
    BY <1>2 DEF Spread
  <2>2. c \in B(i)
    BY <1>8, <2>1
  <2> QED
    BY <1>9, <2>2
<1>11. ASSUME NEW i \in D, NEW j \in D, NEW k \in DOMAIN m(i), NEW l \in DOMAIN m(j),
              m(i)[k] = m(j)[l]
       PROVE  i = j /\ k = l
  <2>1. m(i)[k] \in B(i) /\ m(i)[k] \in B(j)
    BY <1>9, <1>11
  <2>2. PICK x \in 1..Len(G[i]) : G[i][x] = m(i)[k]
    BY <1>8, <2>1
  <2>3. PICK y \in 1..Len(G[j]) : G[j][y] = m(i)[k]
    BY <1>8, <2>1
  <2>4. i = j
    BY <1>2, <2>2, <2>3 DEF Spread
  <2> QED
    BY <1>9, <1>11, <2>4
<1>12. ASSUME NEW i \in D
       PROVE  /\ Sound(M[i]) /\ \E d \in C : M[i].name = d.name /\ M[i].source = d.source
              /\ Len(m(i)) \in Nat /\ DOMAIN m(i) = 1..Len(m(i))
              /\ \A k \in DOMAIN m(i) : m(i)[k] \in C
  BY <1>7, <1>8, <1>9
<1> HIDE DEF D
<1>13. Rows(M, C)
  BY <1>5, <1>10, <1>11, <1>12 DEF Rows, m
<1> QED
  BY <1>13 DEF M

--------------------------------------------------------------------------------
\* The candidates of chunks.

LEMMA OfTwo ==
    ASSUME NEW a \in Int, NEW b \in Int
    PROVE  Min({a, b}) \in {a, b} /\ Max({a, b}) \in {a, b}
<1>1. \E x \in {a, b} : \A y \in {a, b} : x <= y
  OBVIOUS
<1>2. \E x \in {a, b} : \A y \in {a, b} : x >= y
  OBVIOUS
<1> QED
  BY <1>1, <1>2 DEF Min, Max

LEMMA ClampIs ==
    ASSUME NEW n \in Int
    PROVE  Clamp(n) \in Int
<1> DEFINE least == Min({100, n})
           most == Max({0, least})
<1>1. least \in {100, n}
  BY OfTwo
<1> HIDE DEF least
<1>2. least \in Int
  BY <1>1
<1>3. most \in {0, least}
  BY <1>2, OfTwo
<1> HIDE DEF most
<1>4. most \in Int
  BY <1>2, <1>3
<1> QED
  BY <1>4 DEF Clamp, most, least

LEMMA MatchScoreIs ==
    ASSUME NEW c \in OrdinaryChunk, NEW m \in Matches(c)
    PROVE  MatchScore(m) \in Nat
<1> DEFINE T == {m.scores[l] : l \in DOMAIN m.scores}
<1>1. IsFiniteSet(DOMAIN m.scores) /\ \A l \in DOMAIN m.scores : m.scores[l] \in Nat
  BY PassAssumption DEF PassAssumption
<1>2. IsFiniteSet(T)
  BY <1>1, FiniteValues
<1>3. T \in SUBSET Nat
  BY <1>1
<1> HIDE DEF T
<1>4. IsFiniteSet({0} \cup T) /\ {0} \cup T \in SUBSET Nat /\ {0} \cup T # {}
  <2>1. IsFiniteSet({0})
    BY FS_Singleton
  <2>2. IsFiniteSet({0} \cup T)
    BY <1>2, <2>1, FS_Union
  <2> QED
    BY <1>3, <2>2
<1>5. Max({0} \cup T) \in Nat
  BY <1>4, MaxIs
<1> QED
  BY <1>1, <1>5 DEF MatchScore, T

\* An owned microphone names its owner or nobody.
LEMMA SpeakerIs ==
    ASSUME NEW c \in OrdinaryChunk, NEW u
    PROVE  /\ Speaker(c, u).sure \in Int
           /\ OwnerDecides(c.source) => Speaker(c, u).name \in {Nobody, OwnerOf(c.source)}
<1> DEFINE found == MatchesOf(u, Matches(c))
<1>1. found \in SUBSET Matches(c)
  BY DEF MatchesOf
<1>2. CASE found = {}
  BY <1>2 DEF Speaker
<1>3. CASE found # {}
  <2> DEFINE m == CHOOSE m \in found : TRUE
             score == MatchScore(m)
             sure == CombinedConfidence(c.source, m.match, score)
  <2>1. m \in Matches(c)
    BY <1>1, <1>3
  <2>2. /\ Speaker(c, u).sure = sure
        /\ Speaker(c, u).name = SpeakerName(c.source, m.match, sure)
    BY <1>3 DEF Speaker
  <2> HIDE DEF m, found
  <2>3. score \in Nat
    BY <2>1, MatchScoreIs
  <2> HIDE DEF score
  <2>4. sure \in Int
    <3> DEFINE plain == NormalConfidence(score)
    <3>1. plain \in Int
      BY <2>3, ClampIs DEF NormalConfidence
    <3> HIDE DEF plain
    <3>2. Clamp(plain + 10) \in Int /\ Clamp(plain - 30) \in Int
      BY <3>1, ClampIs
    <3>3. sure \in {plain, Clamp(plain + 10), Clamp(plain - 30)}
      <4>1. sure = IF ~OwnerDecides(c.source) \/ m.match = Nobody THEN plain
                   ELSE Clamp(IF m.match = OwnerOf(c.source) THEN plain + 10 ELSE plain - 30)
        BY DEF CombinedConfidence, plain
      <4> HIDE DEF sure
      <4> QED
        BY <4>1
    <3> QED
      BY <3>1, <3>2, <3>3
  <2> HIDE DEF sure
  <2>5. OwnerDecides(c.source) =>
            SpeakerName(c.source, m.match, sure) \in {Nobody, OwnerOf(c.source)}
    BY DEF SpeakerName
  <2> QED
    BY <2>2, <2>4, <2>5
<1> QED
  BY <1>2, <1>3

\* The candidates of one chunk.
LEMMA CandidatesAre ==
    ASSUME NEW c \in OrdinaryChunk
    PROVE  /\ IsFiniteSet(Candidates(c))
           /\ \A d \in Candidates(c) :
                 /\ d.start \in Nat /\ d.end \in Nat /\ d.source \in Nat
                 /\ d.id[1] = c.id /\ d.id[2] \in Nat
                 /\ d.confidence \in Int /\ d.sure \in Int
                 /\ OwnerDecides(d.source) => d.name \in {Nobody, OwnerOf(d.source)}
           /\ \A d, e \in Candidates(c) : d.id[2] = e.id[2] => d = e
<1> DEFINE I == {n \in DOMAIN Heard(c) : ~Heard(c)[n].blank}
           at == [n \in I |-> CandidateOf(c, n)]
<1>1. Heard(c) \in Seq(ToSet(Heard(c)))
  BY PassAssumption DEF PassAssumption
<1>2. Len(Heard(c)) \in Nat /\ DOMAIN Heard(c) = 1..Len(Heard(c))
  BY <1>1
<1>3. IsFiniteSet(I)
  <2>1. IsFiniteSet(1..Len(Heard(c)))
    BY <1>2, FS_Interval
  <2>2. I \in SUBSET (1..Len(Heard(c)))
    BY <1>2
  <2> QED
    BY <2>1, <2>2, FS_Subset
<1>4. Candidates(c) = {at[n] : n \in I}
  BY DEF Candidates
<1>5. ASSUME NEW n \in I
      PROVE  /\ at[n].start \in Nat /\ at[n].end \in Nat /\ at[n].source \in Nat
             /\ at[n].id[1] = c.id /\ at[n].id[2] = n /\ n \in Nat
             /\ at[n].confidence \in Int /\ at[n].sure \in Int
             /\ OwnerDecides(at[n].source) => at[n].name \in {Nobody, OwnerOf(at[n].source)}
  <2> DEFINE u == Heard(c)[n]
  <2>1. n \in DOMAIN Heard(c) /\ n \in Nat
    BY <1>2
  <2>2. u \in ToSet(Heard(c))
    BY <2>1 DEF ToSet
  <2>3. u.from \in Nat /\ u.to \in Nat /\ u.confidence \in Nat
    BY <2>2, PassAssumption DEF PassAssumption
  <2>4. c.start \in Nat /\ c.source \in Nat
    BY WindowAssumption DEF WindowAssumption
  <2>5. at[n] = CandidateOf(c, n)
    OBVIOUS
  <2> HIDE DEF u, at
  <2>6. /\ at[n].start = c.start + u.from /\ at[n].end = c.start + u.to
        /\ at[n].source = c.source /\ at[n].id = <<c.id, n>>
        /\ at[n].confidence = u.confidence
        /\ at[n].sure = Speaker(c, u).sure /\ at[n].name = Speaker(c, u).name
    BY <2>5 DEF CandidateOf, u
  <2>7. at[n].id[1] = c.id /\ at[n].id[2] = n
    BY <2>6
  <2>8. /\ at[n].sure \in Int
        /\ OwnerDecides(at[n].source) => at[n].name \in {Nobody, OwnerOf(at[n].source)}
    BY <2>6, SpeakerIs
  <2> QED
    BY <2>1, <2>3, <2>4, <2>6, <2>7, <2>8
<1> HIDE DEF I, at
<1>6. IsFiniteSet(Candidates(c))
  BY <1>3, <1>4, FiniteValues
<1> QED
  BY <1>4, <1>5, <1>6

\* What the candidates of chunks are.
LEMMA CandidatesOfAre ==
    ASSUME NEW S \in SUBSET OrdinaryChunk
    PROVE  /\ CandidateSet(CandidatesOf(S))
           /\ \A d \in CandidatesOf(S) :
                 OwnerDecides(d.source) => d.name \in {Nobody, OwnerOf(d.source)}
           /\ \A d \in CandidatesOf(S) : \E c \in S : d \in Candidates(c)
           /\ \A c \in S : Candidates(c) \in SUBSET CandidatesOf(S)
           /\ \A c, e \in S : Candidates(c) \cap Candidates(e) # {} => c = e
<1> DEFINE C == CandidatesOf(S)
           of == [c \in S |-> Candidates(c)]
<1>1. \A d : d \in C <=> \E c \in S : d \in Candidates(c)
  BY DEF CandidatesOf
<1>2. /\ \A c \in S : c \in OrdinaryChunk /\ c.id \in Nat
      /\ \A c, e \in S : c.id = e.id => c = e
  BY WindowAssumption DEF WindowAssumption
<1>3. IsFiniteSet(C)
  <2>1. IsFiniteSet(S)
    BY ChunkOrderIs
  <2>2. IsFiniteSet({of[c] : c \in S})
    BY <2>1, FiniteValues
  <2>3. \A T \in {of[c] : c \in S} : IsFiniteSet(T)
    BY <1>2, CandidatesAre
  <2>4. C = UNION {of[c] : c \in S}
    BY DEF CandidatesOf
  <2> QED
    BY <2>2, <2>3, <2>4, FS_UNION
<1> HIDE DEF C, of
<1>4. \A d \in C : /\ d.start \in Nat /\ d.end \in Nat /\ d.source \in Nat
                   /\ d.id[1] \in Nat /\ d.id[2] \in Nat
                   /\ d.confidence \in Int /\ d.sure \in Int
                   /\ OwnerDecides(d.source) => d.name \in {Nobody, OwnerOf(d.source)}
  BY <1>1, <1>2, CandidatesAre
<1>5. ASSUME NEW d \in C, NEW e \in C, d.id[1] = e.id[1], d.id[2] = e.id[2] PROVE d = e
  <2>1. PICK c \in S : d \in Candidates(c)
    BY <1>1
  <2>2. PICK f \in S : e \in Candidates(f)
    BY <1>1
  <2>3. d.id[1] = c.id /\ e.id[1] = f.id
    BY <1>2, <2>1, <2>2, CandidatesAre
  <2>4. c = f
    BY <1>2, <1>5, <2>3
  <2> QED
    BY <1>2, <1>5, <2>1, <2>2, <2>4, CandidatesAre
<1>6. ASSUME NEW c \in S, NEW e \in S, Candidates(c) \cap Candidates(e) # {} PROVE c = e
  <2>1. PICK d : d \in Candidates(c) /\ d \in Candidates(e)
    BY <1>6
  <2>2. d.id[1] = c.id /\ d.id[1] = e.id
    BY <1>2, <2>1, CandidatesAre
  <2> QED
    BY <1>2, <2>2
<1>7. CandidateSet(C)
  BY <1>3, <1>4, <1>5 DEF CandidateSet
<1> QED
  BY <1>1, <1>4, <1>6, <1>7 DEF C

--------------------------------------------------------------------------------
\* What is published.

\* The windows of a pass, each merged by itself.
LEMMA PublishedIs ==
    ASSUME NEW S \in SUBSET OrdinaryChunk
    PROVE  \E W : /\ Splits(W, S) /\ Len(W) \in Nat /\ DOMAIN Published(S) = 1..Len(W)
                  /\ \A n \in 1..Len(W) :
                        Rows(Published(S)[n], CandidatesOf(Members(W[n])))
<1> DEFINE W == NewestFirst(Windows(S))
           merged(n) == MergeCandidates(CandidatesOf(Members(W[n])))
<1>1. Splits(W, S)
  BY WindowsSplit, NewestFirstSplits
<1>2. Published(S) = [n \in DOMAIN W |-> merged(n)]
  BY DEF Published
<1> HIDE DEF W
<1>3. W \in Seq(ChunkWindow)
  BY <1>1 DEF Splits
<1>4. Len(W) \in Nat /\ DOMAIN W = 1..Len(W)
  BY <1>3
<1>5. ASSUME NEW n \in 1..Len(W) PROVE Rows(Published(S)[n], CandidatesOf(Members(W[n])))
  <2> DEFINE T == Members(W[n])
  <2>1. T \in SUBSET OrdinaryChunk
    BY <1>1 DEF Splits
  <2> HIDE DEF T
  <2>2. Rows(MergeCandidates(CandidatesOf(T)), CandidatesOf(T))
    BY <2>1, CandidatesOfAre, MergeRows
  <2>3. Published(S)[n] = merged(n)
    BY <1>2, <1>4
  <2> QED
    BY <2>2, <2>3 DEF T
<1>6. DOMAIN Published(S) = 1..Len(W)
  BY <1>2, <1>4
<1> QED
  BY <1>1, <1>4, <1>5, <1>6

\* The candidates of the chunks of some are candidates of all.
LEMMA CandidatesGrow ==
    ASSUME NEW S, NEW T \in SUBSET S
    PROVE  CandidatesOf(T) \in SUBSET CandidatesOf(S)
BY DEF CandidatesOf

LEMMA UtterancesAre ==
    ASSUME NEW S \in SUBSET OrdinaryChunk, NEW u \in Utterances(S)
    PROVE  /\ Sound(u)
           /\ \E d \in CandidatesOf(S) : u.name = d.name /\ u.source = d.source
           /\ Len(u.members) \in Nat /\ DOMAIN u.members = 1..Len(u.members)
           /\ \A k \in DOMAIN u.members : u.members[k] \in CandidatesOf(S)
<1>1. PICK W : /\ Splits(W, S) /\ DOMAIN Published(S) = 1..Len(W)
               /\ \A n \in 1..Len(W) : Rows(Published(S)[n], CandidatesOf(Members(W[n])))
  BY PublishedIs
<1>2. PICK n \in 1..Len(W) : u \in ToSet(Published(S)[n])
  BY <1>1 DEF Utterances
<1> DEFINE M == Published(S)[n]
           C == CandidatesOf(Members(W[n]))
<1>3. PICK i \in DOMAIN M : u = M[i]
  BY <1>2 DEF ToSet
<1>4. Rows(M, C)
  BY <1>1
<1>5. C \in SUBSET CandidatesOf(S)
  <2>1. Members(W[n]) \in SUBSET S
    BY <1>1 DEF Splits
  <2> QED
    BY <2>1, CandidatesGrow
<1> HIDE DEF M, C
<1> QED
  BY <1>3, <1>4, <1>5 DEF Rows

\* Every candidate has exactly one place in what is published.
LEMMA PlacedOnce ==
    ASSUME NEW S \in SUBSET OrdinaryChunk
    PROVE  /\ \A n \in DOMAIN Published(S) : \A i \in DOMAIN Published(S)[n] :
                 ToSet(Published(S)[n][i].members) \in SUBSET CandidatesOf(S)
           /\ \A c \in CandidatesOf(S) :
                 \E n \in DOMAIN Published(S) : \E i \in DOMAIN Published(S)[n] :
                     \E k \in DOMAIN Published(S)[n][i].members :
                         Published(S)[n][i].members[k] = c
           /\ \A n, m \in DOMAIN Published(S) :
                 \A i \in DOMAIN Published(S)[n], j \in DOMAIN Published(S)[m] :
                     \A k \in DOMAIN Published(S)[n][i].members,
                        l \in DOMAIN Published(S)[m][j].members :
                           Published(S)[n][i].members[k] = Published(S)[m][j].members[l] =>
                               n = m /\ i = j /\ k = l
<1> DEFINE P == Published(S)
           C == CandidatesOf(S)
           B(W, n) == CandidatesOf(Members(W[n]))
<1>1. PICK W : /\ Splits(W, S) /\ DOMAIN P = 1..Len(W)
               /\ \A n \in 1..Len(W) : Rows(P[n], CandidatesOf(Members(W[n])))
  BY PublishedIs
<1>2. \A n \in DOMAIN P : Rows(P[n], B(W, n))
  BY <1>1
<1>3. \A n \in DOMAIN P : Members(W[n]) \in SUBSET S
  BY <1>1 DEF Splits
<1>4. \A n \in DOMAIN P : B(W, n) \in SUBSET C
  BY <1>3, CandidatesGrow
<1>5. ASSUME NEW c \in C PROVE \E n \in DOMAIN P : c \in B(W, n)
  <2>1. PICK d \in S : c \in Candidates(d)
    BY DEF CandidatesOf
  <2>2. PICK n \in DOMAIN P : d \in Members(W[n])
    BY <1>1 DEF Splits
  <2> QED
    BY <2>1, <2>2 DEF CandidatesOf
<1>6. ASSUME NEW n \in DOMAIN P, NEW m \in DOMAIN P, NEW c \in B(W, n), c \in B(W, m)
      PROVE  n = m
  <2>1. PICK d \in Members(W[n]) : c \in Candidates(d)
    BY DEF CandidatesOf
  <2>2. PICK e \in Members(W[m]) : c \in Candidates(e)
    BY <1>6 DEF CandidatesOf
  <2>3. d \in S /\ e \in S
    BY <1>3
  <2>4. d = e
    BY <2>1, <2>2, <2>3, CandidatesOfAre
  <2> QED
    BY <1>1, <2>4 DEF Splits
<1> HIDE DEF P, C, B
<1>7. \A n \in DOMAIN P : \A i \in DOMAIN P[n] : \A k \in DOMAIN P[n][i].members :
          P[n][i].members[k] \in B(W, n)
  BY <1>2 DEF Rows
<1>8. ASSUME NEW n \in DOMAIN P, NEW i \in DOMAIN P[n]
      PROVE  ToSet(P[n][i].members) \in SUBSET C
  BY <1>4, <1>7 DEF ToSet
<1>9. ASSUME NEW c \in C
      PROVE  \E n \in DOMAIN P : \E i \in DOMAIN P[n] : \E k \in DOMAIN P[n][i].members :
                 P[n][i].members[k] = c
  <2>1. PICK n \in DOMAIN P : c \in B(W, n)
    BY <1>5
  <2>2. \E i \in DOMAIN P[n] : \E k \in DOMAIN P[n][i].members : P[n][i].members[k] = c
    BY <1>2, <2>1 DEF Rows
  <2> QED
    BY <2>2
<1>10. ASSUME NEW n \in DOMAIN P, NEW m \in DOMAIN P,
              NEW i \in DOMAIN P[n], NEW j \in DOMAIN P[m],
              NEW k \in DOMAIN P[n][i].members, NEW l \in DOMAIN P[m][j].members,
              P[n][i].members[k] = P[m][j].members[l]
       PROVE  n = m /\ i = j /\ k = l
  <2>1. n = m
    BY <1>6, <1>7, <1>10
  <2>2. i = j /\ k = l
    BY <1>2, <1>10, <2>1 DEF Rows
  <2> QED
    BY <2>1, <2>2
<1> QED
  BY <1>8, <1>9, <1>10 DEF P, C

--------------------------------------------------------------------------------
\* The theorems.

Pending == pending \in SUBSET OrdinaryChunk

LEMMA AlwaysPending ==
    Spec => []Pending
<1>1. Init => Pending
  BY DEF Init, Pending
<1>2. Pending /\ [Next]_pending => Pending'
  BY DEF Pending, Next, Upload
<1> QED
  BY <1>1, <1>2, PTL DEF Spec

\* What every microphone heard is published exactly once, whatever the chunks are, in
\* whatever order they came, and whatever the vendors heard in them.
THEOREM HeardOnceCorrect ==
    Spec => []HeardOnce
<1>1. ASSUME Pending PROVE HeardOnce
  <2> DEFINE P == Published(pending)
             C == CandidatesOf(pending)
  <2>1. pending \in SUBSET OrdinaryChunk
    BY <1>1 DEF Pending
  <2>2. /\ \A n \in DOMAIN P : \A i \in DOMAIN P[n] : ToSet(P[n][i].members) \in SUBSET C
        /\ \A c \in C : \E n \in DOMAIN P : \E i \in DOMAIN P[n] :
              \E k \in DOMAIN P[n][i].members : P[n][i].members[k] = c
        /\ \A n, m \in DOMAIN P : \A i \in DOMAIN P[n], j \in DOMAIN P[m] :
              \A k \in DOMAIN P[n][i].members, l \in DOMAIN P[m][j].members :
                  P[n][i].members[k] = P[m][j].members[l] => n = m /\ i = j /\ k = l
    BY <2>1, PlacedOnce
  <2> HIDE DEF P, C
  <2>3. ASSUME NEW c \in C
        PROVE  \E n \in DOMAIN P : \E i \in DOMAIN P[n] : \E k \in DOMAIN P[n][i].members :
                   \A m \in DOMAIN P : \A j \in DOMAIN P[m] :
                       \A l \in DOMAIN P[m][j].members :
                           P[m][j].members[l] = c <=> m = n /\ j = i /\ l = k
    <3>1. PICK n \in DOMAIN P : \E i \in DOMAIN P[n] :
                   \E k \in DOMAIN P[n][i].members : P[n][i].members[k] = c
      BY <2>2
    <3>2. PICK i \in DOMAIN P[n] : \E k \in DOMAIN P[n][i].members : P[n][i].members[k] = c
      BY <3>1
    <3>3. PICK k \in DOMAIN P[n][i].members : P[n][i].members[k] = c
      BY <3>2
    <3>4. ASSUME NEW m \in DOMAIN P, NEW j \in DOMAIN P[m], NEW l \in DOMAIN P[m][j].members
          PROVE  P[m][j].members[l] = c <=> m = n /\ j = i /\ l = k
      BY <2>2, <3>3
    <3> QED
      BY <3>3, <3>4
  <2> QED
    BY <2>2, <2>3 DEF HeardOnce, P, C
<1> QED
  BY <1>1, AlwaysPending, PTL

\* No chain of similar texts makes one utterance of what two recognised speakers said,
\* if something is left of both names when they are compared.
THEOREM OneSpeakerCorrect ==
    Spec => []OneSpeaker
<1>1. ASSUME Pending PROVE OneSpeaker
  <2>1. pending \in SUBSET OrdinaryChunk
    BY <1>1 DEF Pending
  <2>2. ASSUME NEW u \in Utterances(pending)
        PROVE  Cardinality(NamesIn(u.members)) <= 1
    <3> DEFINE names == NamesIn(u.members)
    <3>1. Sound(u)
      BY <2>1, <2>2, UtterancesAre
    <3>2. \A x, y \in names : x = y
      BY <3>1, NamesHave DEF Sound
    <3> HIDE DEF names
    <3>3. Cardinality(names) <= 1
      <4>1. CASE names = {}
        BY <4>1, FS_EmptySet
      <4>2. CASE names # {}
        <5>1. PICK x : names = {x}
          BY <3>2, <4>2
        <5> QED
          BY <5>1, FS_Singleton
      <4> QED
        BY <4>1, <4>2
    <3> QED
      BY <3>3 DEF names
  <2> QED
    BY <2>2 DEF OneSpeaker
<1> QED
  BY <1>1, AlwaysPending, PTL

\* What was denied on one microphone is never published as said on another.
THEOREM DenialCorrect ==
    Spec => []DenialKept
<1>1. ASSUME Pending PROVE DenialKept
  <2>1. pending \in SUBSET OrdinaryChunk
    BY <1>1 DEF Pending
  <2>2. \A u \in Utterances(pending) : Sound(u)
    BY <2>1, UtterancesAre
  <2> QED
    BY <2>2 DEF DenialKept, Sound
<1> QED
  BY <1>1, AlwaysPending, PTL

\* What is merged was heard by several microphones.
THEOREM SourcesCorrect ==
    Spec => []MergedAcrossSources
<1>1. ASSUME Pending PROVE MergedAcrossSources
  <2>1. pending \in SUBSET OrdinaryChunk
    BY <1>1 DEF Pending
  <2>2. ASSUME NEW u \in Utterances(pending), Len(u.members) > 1
        PROVE  Cardinality({u.members[i].source : i \in DOMAIN u.members}) > 1
    <3> DEFINE heard == [i \in DOMAIN u.members |-> u.members[i].source]
               sources == {heard[i] : i \in DOMAIN u.members}
    <3>1. /\ Len(u.members) \in Nat /\ DOMAIN u.members = 1..Len(u.members) /\ Sound(u)
      BY <2>1, <2>2, UtterancesAre
    <3>2. IsFiniteSet(DOMAIN u.members)
      BY <3>1, FS_Interval
    <3>3. IsFiniteSet(sources)
      BY <3>2, FiniteValues
    <3>4. PICK j \in DOMAIN u.members, k \in DOMAIN u.members :
                   u.members[j].source # u.members[k].source
      BY <2>2, <3>1 DEF Sound
    <3>5. heard[j] \in sources /\ heard[k] \in sources /\ heard[j] # heard[k]
      BY <3>4
    <3>6. sources = {u.members[i].source : i \in DOMAIN u.members}
      OBVIOUS
    <3> HIDE DEF sources, heard
    <3>7. Cardinality(sources) \in Nat
      BY <3>3, FS_CardinalityType
    <3>8. Cardinality(sources) # 0
      BY <3>3, <3>5, FS_EmptySet
    <3>9. Cardinality(sources) # 1
      <4>1. ASSUME Cardinality(sources) = 1 PROVE FALSE
        <5>1. PICK x : sources = {x}
          BY <3>3, <4>1, FS_Singleton
        <5> QED
          BY <3>5, <5>1
      <4> QED
        BY <4>1
    <3> QED
      BY <3>6, <3>7, <3>8, <3>9
  <2> QED
    BY <2>2 DEF MergedAcrossSources
<1> QED
  BY <1>1, AlwaysPending, PTL

\* A teammate's microphone publishes nobody else's name, whatever pyannote answers.
THEOREM OwnMicrophoneCorrect ==
    Spec => []OwnMicrophone
<1>1. ASSUME Pending PROVE OwnMicrophone
  <2>1. pending \in SUBSET OrdinaryChunk
    BY <1>1 DEF Pending
  <2>2. ASSUME NEW u \in Utterances(pending), OwnerDecides(u.source)
        PROVE  u.name \in {Nobody, OwnerOf(u.source)}
    <3>1. PICK d \in CandidatesOf(pending) : u.name = d.name /\ u.source = d.source
      BY <2>1, <2>2, UtterancesAre
    <3>2. OwnerDecides(d.source) => d.name \in {Nobody, OwnerOf(d.source)}
      BY <2>1, CandidatesOfAre
    <3> QED
      BY <2>2, <3>1, <3>2
  <2> QED
    BY <2>2 DEF OwnMicrophone
<1> QED
  BY <1>1, AlwaysPending, PTL

\* The recorder gives every chunk the same length: who starts later does not end earlier.
EndsInOrder == \A c, d \in OrdinaryChunk : c.start <= d.start => c.end <= d.end

\* The chunk after a window would have made it too long, if it overlaps the window.
LEMMA RefusedForLength ==
    ASSUME EndsInOrder, NEW s \in Seq(OrdinaryChunk),
           NEW w, NEW lo \in 0..Len(s), NEW hi \in 0..Len(s), Piece(w, s, lo, hi),
           NEW p \in (lo + 1)..hi, NEW q \in (hi + 1)..Len(s),
           \A i \in 1..q : s[i].start <= s[q].start,
           s[q].start < s[p].end, ~CanMerge(w, s[hi + 1])
    PROVE  s[q].end - w.start > MaxWindow
<1> DEFINE d == s[q]
           e == s[hi + 1]
           joint == JointEnd(w, e)
<1>1. Len(s) \in Nat /\ lo \in Nat /\ hi \in Nat /\ p \in Nat /\ q \in Nat
  OBVIOUS
<1>2. p \in 1..Len(s) /\ q \in 1..Len(s) /\ hi + 1 \in 1..Len(s) /\ hi + 1 \in 1..q
  BY <1>1
<1>3. /\ d \in OrdinaryChunk /\ d.start \in Nat /\ d.end \in Nat
      /\ e \in OrdinaryChunk /\ e.start \in Nat /\ e.end \in Nat
      /\ s[p].end \in Nat
  BY <1>2, ChunkFields
<1>4. /\ s[p].end <= w.end
      /\ \E i \in (lo + 1)..hi : s[i].end = w.end
      /\ w.start = s[lo + 1].start
  BY DEF Piece
<1>5. PICK i \in (lo + 1)..hi : s[i].end = w.end
  BY <1>4
<1>6. i \in 1..Len(s) /\ i \in 1..q /\ lo + 1 \in 1..Len(s)
  BY <1>1
<1>7. s[i] \in OrdinaryChunk /\ s[i].end \in Nat /\ s[lo + 1].start \in Nat
  BY <1>6, ChunkFields
<1>8. w.end \in Nat /\ w.start \in Nat
  BY <1>4, <1>5, <1>7
<1>9. s[i].start <= d.start /\ e.start <= d.start
  BY <1>2, <1>6
<1>10. w.end <= d.end /\ e.end <= d.end
  BY <1>3, <1>5, <1>7, <1>9 DEF EndsInOrder
<1>11. joint \in Nat /\ joint \in {w.end, e.end}
  BY <1>3, <1>8, LaterEnd DEF JointEnd
<1> HIDE DEF joint, e, d
<1>12. Adjacency \in Nat /\ MaxWindow \in Nat
  BY WindowAssumption DEF WindowAssumption
<1>13. e.start <= w.end + Adjacency
  <2>1. d.start < s[p].end
    BY DEF d
  <2>2. s[p].end <= w.end
    BY <1>4
  <2> DEFINE first == e.start
             next == d.start
             end == s[p].end
             last == w.end
  <2>3. /\ first \in Nat /\ next \in Nat /\ end \in Nat /\ last \in Nat
        /\ first <= next /\ next < end /\ end <= last
    BY <1>3, <1>8, <1>9, <2>1, <2>2
  <2> HIDE DEF first, next, end, last
  <2>4. first <= last + Adjacency
    BY <1>12, <2>3
  <2> QED
    BY <2>4 DEF first, last
<1>14. ~(joint - w.start <= MaxWindow)
  BY <1>13 DEF CanMerge, joint, e
<1>15. joint <= d.end
  BY <1>10, <1>11
<1>16. d.end - w.start > MaxWindow
  BY <1>3, <1>8, <1>11, <1>12, <1>14, <1>15
<1> QED
  BY <1>16 DEF d

\* The window of a chunk has the chunks that overlap it, if they fit.
LEMMA TogetherIfShort ==
    ASSUME EndsInOrder, NEW S \in SUBSET OrdinaryChunk, NEW c \in S, NEW d \in S,
           Before(c, d), d.start < c.end
    PROVE  \E k \in DOMAIN Windows(S) :
               /\ c \in Members(Windows(S)[k])
               /\ d \in Members(Windows(S)[k]) \/ d.end - Windows(S)[k].start > MaxWindow
<1> DEFINE s == Ordered(S)
           W == Windows(S)
           R == ChunkOrder(S)
           n == Len(s)
<1>1. Sorts(s, R, S) /\ Orders(R, S)
  BY OrderedSorts, ChunkOrderIs
<1>2. s \in Seq(OrdinaryChunk) /\ n \in Nat /\ \E b : CutAt(W, b, s, n)
  BY WindowsAre
<1>3. PICK b : CutAt(W, b, s, n)
  BY <1>2
<1>4. \A x, y \in S : <<x, y>> \in R <=> Before(x, y)
  BY DEF ChunkOrder
<1> HIDE DEF s, W, R, n
<1>5. /\ Len(W) \in Nat /\ DOMAIN W = 1..Len(W)
      /\ b \in [0..Len(W) -> 0..n] /\ b[Len(W)] = n
      /\ \A k \in 1..Len(W) : Piece(W[k], s, b[k - 1], b[k])
      /\ \A k \in 1..(Len(W) - 1) : ~CanMerge(W[k], s[b[k] + 1])
  <2>1. W \in Seq(ChunkWindow)
    BY <1>3 DEF CutAt
  <2>2. Len(W) \in Nat /\ DOMAIN W = 1..Len(W)
    BY <2>1
  <2> QED
    BY <1>3, <2>2 DEF CutAt
<1>6. /\ \A i \in 1..n : s[i] \in S
      /\ \A i, j \in 1..n : i < j => Before(s[i], s[j])
      /\ \A x \in S : \E i \in 1..n : s[i] = x
  <2>1. s \in Seq(S)
    BY <1>1 DEF Sorts
  <2>2. \A i \in 1..n : s[i] \in S
    BY <2>1 DEF n
  <2> QED
    BY <1>1, <1>4, <2>2 DEF Sorts, n
<1>7. \A i, j \in 1..n : i <= j => s[i].start <= s[j].start
  <2>1. ASSUME NEW i \in 1..n, NEW j \in 1..n, i <= j PROVE s[i].start <= s[j].start
    <3>1. s[i].start \in Nat /\ s[j].start \in Nat
      BY <1>2, ChunkFields DEF n
    <3>2. CASE i = j
      BY <3>1, <3>2
    <3>3. CASE i # j
      <4>1. i < j
        BY <2>1, <3>3
      <4>2. Before(s[i], s[j])
        BY <1>6, <4>1
      <4> QED
        BY <3>1, <4>2, BeforeIs
    <3> QED
      BY <3>2, <3>3
  <2> QED
    BY <2>1
<1>8. PICK p \in 1..n : s[p] = c
  BY <1>6
<1>9. PICK q \in 1..n : s[q] = d
  BY <1>6
<1>10. p < q
  <2>1. ~Before(d, c) /\ ~Before(c, c)
    BY <1>1, <1>4 DEF Orders
  <2>2. p # q
    BY <1>8, <1>9, <2>1
  <2>3. ~(q < p)
    BY <1>6, <1>8, <1>9, <2>1
  <2> QED
    BY <2>2, <2>3
<1>11. PICK k \in 1..Len(W) : In(b, k, p)
  <2>1. n \in Nat /\ CutAt(W, b, s, n) /\ p \in 1..n
    BY <1>2, <1>3
  <2> QED
    BY <2>1, CutHas
<1> DEFINE lo == b[k - 1]
           hi == b[k]
<1>12. lo \in 0..n /\ hi \in 0..n /\ Piece(W[k], s, lo, hi)
  <2>1. k \in 0..Len(W) /\ k - 1 \in 0..Len(W)
    BY <1>5
  <2> QED
    BY <1>5, <2>1
<1> HIDE DEF lo, hi
<1>13. p \in (lo + 1)..hi
  BY <1>11 DEF In, lo, hi
<1>14. lo \in Nat /\ hi \in Nat
  BY <1>12
<1>15. Members(W[k]) = Between(s, lo, hi)
  BY <1>12, <1>14, MembersIs
<1>16. c \in Members(W[k])
  BY <1>8, <1>13, <1>15 DEF Between
<1>17. CASE q <= hi
  <2>1. q \in (lo + 1)..hi
    BY <1>10, <1>13, <1>14, <1>17
  <2>2. d \in Members(W[k])
    BY <1>9, <1>15, <2>1 DEF Between
  <2> QED
    BY <1>5, <1>16, <2>2 DEF W
<1>18. CASE ~(q <= hi)
  <2>1. q \in (hi + 1)..n
    BY <1>14, <1>18
  <2>2. hi # n
    BY <1>2, <1>14, <2>1
  <2>3. k \in 1..(Len(W) - 1)
    BY <1>5, <2>2 DEF hi
  <2>4. ~CanMerge(W[k], s[hi + 1])
    BY <1>5, <2>3 DEF hi
  <2>5. \A i \in 1..q : s[i].start <= s[q].start
    BY <1>2, <1>7
  <2>6. s[q].end - W[k].start > MaxWindow
    BY <1>2, <1>8, <1>9, <1>12, <1>13, <2>1, <2>4, <2>5, RefusedForLength DEF n
  <2> QED
    BY <1>5, <1>9, <1>16, <2>6 DEF W
<1> QED
  BY <1>14, <1>17, <1>18

\* Two chunks that overlap are compared for duplicates, whatever other chunks lie
\* between them, unless the window would become too long.
THEOREM OverlapCorrect ==
    ASSUME EndsInOrder
    PROVE  Spec => []OverlapTogether
<1>1. ASSUME Pending PROVE OverlapTogether
  <2>1. pending \in SUBSET OrdinaryChunk
    BY <1>1 DEF Pending
  <2> QED
    BY <2>1, TogetherIfShort DEF OverlapTogether
<1> QED
  BY <1>1, AlwaysPending, PTL

--------------------------------------------------------------------------------
\* What a chunk later than all others changes.

\* Sequences that begin alike have the same windows there.
LEMMA WindowsAlike ==
    ASSUME NEW s, Len(s) \in Nat, NEW t, Len(t) \in Nat, NEW n \in Nat,
           n <= Len(s), n <= Len(t), \A i \in 1..n : s[i] = t[i]
    PROVE  WindowsUpTo(s)[n] = WindowsUpTo(t)[n]
<1> DEFINE T == {i \in 0..n : WindowsUpTo(s)[i] # WindowsUpTo(t)[i]}
<1>1. ASSUME NEW q \in T, \A k \in T : q <= k PROVE FALSE
  <2>1. q # 0
    BY WindowsUpToIs
  <2>2. q - 1 \in 0..n /\ q \in 1..n /\ q \in 1..Len(s) /\ q \in 1..Len(t)
    BY <2>1
  <2>3. q - 1 \notin T
    BY <1>1, <2>2
  <2>4. WindowsUpTo(s)[q - 1] = WindowsUpTo(t)[q - 1]
    BY <2>2, <2>3
  <2>5. WindowsUpTo(s)[q] = Extend(WindowsUpTo(s)[q - 1], s[q])
    BY <2>2, WindowsUpToIs
  <2>6. WindowsUpTo(t)[q] = Extend(WindowsUpTo(t)[q - 1], t[q])
    BY <2>2, WindowsUpToIs
  <2>7. s[q] = t[q]
    BY <2>2
  <2> QED
    BY <1>1, <2>4, <2>5, <2>6, <2>7
<1>2. T \in SUBSET Nat
  OBVIOUS
<1>3. T = {}
  BY <1>1, <1>2, LeastNat
<1> QED
  BY <1>3

\* It comes last.
LEMMA OrderedAppends ==
    ASSUME NEW S \in SUBSET OrdinaryChunk, NEW c \in OrdinaryChunk, c \notin S,
           \A d \in S : Before(d, c)
    PROVE  Ordered(S \cup {c}) = Append(Ordered(S), c)
<1> DEFINE T == S \cup {c}
           s == Ordered(S)
           t == Append(s, c)
           N == Cardinality(S)
<1>1. T \in SUBSET OrdinaryChunk
  OBVIOUS
<1>2. Sorts(Ordered(T), ChunkOrder(T), T) /\ Orders(ChunkOrder(T), T) /\ IsFiniteSet(T)
  BY <1>1, OrderedSorts, ChunkOrderIs
<1>3. Sorts(s, ChunkOrder(S), S) /\ IsFiniteSet(S)
  BY OrderedSorts, ChunkOrderIs
<1>4. N \in Nat /\ Cardinality(T) = N + 1
  BY <1>3, FS_CardinalityType, FS_AddElement
<1>5. s \in Seq(S) /\ Len(s) = N
  BY <1>3 DEF Sorts
<1>6. \A i, j \in 1..N : i < j => Before(s[i], s[j])
  BY <1>3, <1>5 DEF Sorts, ChunkOrder
<1>7. \A x \in S : \E n \in 1..N : s[n] = x
  BY <1>3, <1>5 DEF Sorts
<1> HIDE DEF s, N
<1>8. /\ t \in Seq(T) /\ Len(t) = N + 1 /\ t[N + 1] = c
      /\ \A i \in 1..N : t[i] = s[i] /\ s[i] \in S
  <2>1. s \in Seq(T) /\ c \in T
    BY <1>5
  <2> HIDE DEF T
  <2> QED
    BY <1>4, <1>5, <2>1
<1> HIDE DEF t
<1>9. ASSUME NEW i \in 1..(N + 1), NEW j \in 1..(N + 1), i < j
      PROVE  <<t[i], t[j]>> \in ChunkOrder(T)
  <2>1. i \in 1..N /\ (j = N + 1 \/ j \in 1..N)
    BY <1>4, <1>9
  <2>2. Before(t[i], t[j])
    BY <1>6, <1>8, <1>9, <2>1
  <2>3. t[i] \in T /\ t[j] \in T
    BY <1>8, <2>1
  <2> QED
    BY <2>2, <2>3 DEF ChunkOrder
<1>10. ASSUME NEW x \in T PROVE \E n \in 1..(N + 1) : t[n] = x
  <2>1. N + 1 \in 1..(N + 1) /\ \A n \in 1..N : n \in 1..(N + 1)
    BY <1>4
  <2>2. CASE x = c
    BY <1>8, <2>1, <2>2
  <2>3. CASE x \in S
    <3>1. PICK n \in 1..N : s[n] = x
      BY <1>7, <2>3
    <3> QED
      BY <1>8, <2>1, <3>1
  <2> QED
    BY <2>2, <2>3
<1>11. Sorts(t, ChunkOrder(T), T)
  <2> HIDE DEF T
  <2> QED
    BY <1>4, <1>8, <1>9, <1>10 DEF Sorts
<1>12. Ordered(T) = t
  BY <1>2, <1>11, SortsAlike
<1> QED
  BY <1>12 DEF t, s

\* It joins the last window or opens one.
LEMMA WindowsExtend ==
    ASSUME NEW S \in SUBSET OrdinaryChunk, NEW c \in OrdinaryChunk, c \notin S,
           \A d \in S : Before(d, c)
    PROVE  Windows(S \cup {c}) = Extend(Windows(S), c)
<1> DEFINE T == S \cup {c}
           s == Ordered(S)
           t == Ordered(T)
           N == Cardinality(S)
<1>1. IsFiniteSet(S) /\ N \in Nat /\ Cardinality(T) = N + 1
  BY ChunkOrderIs, FS_CardinalityType, FS_AddElement
<1>2. s \in Seq(S) /\ Len(s) = N
  BY OrderedSorts DEF Sorts
<1>3. t = Append(s, c)
  BY OrderedAppends
<1>4. Windows(S) = WindowsUpTo(s)[N] /\ Windows(T) = WindowsUpTo(t)[N + 1]
  BY <1>1 DEF Windows, GroupWindows
<1> HIDE DEF s, t, N
<1>5. Len(t) = N + 1 /\ t[N + 1] = c /\ \A i \in 1..N : t[i] = s[i]
  <2>1. s \in Seq(T) /\ c \in T
    BY <1>2
  <2> HIDE DEF T
  <2> QED
    BY <1>1, <1>2, <1>3, <2>1
<1>6. N + 1 \in 1..(N + 1) /\ (N + 1) - 1 = N /\ N <= N + 1 /\ N + 1 \in Nat
  BY <1>1
<1>7. WindowsUpTo(t)[N + 1] = Extend(WindowsUpTo(t)[N], c)
  BY <1>5, <1>6, WindowsUpToIs
<1>8. WindowsUpTo(s)[N] = WindowsUpTo(t)[N]
  BY <1>1, <1>2, <1>5, <1>6, WindowsAlike
<1> QED
  BY <1>4, <1>7, <1>8

\* All windows but the last stay.
LEMMA ExtendKeepsFront ==
    ASSUME NEW W \in Seq(ChunkWindow), Len(W) # 0, NEW c \in OrdinaryChunk
    PROVE  IsPrefix(Front(W), Extend(W, c))
<1> DEFINE F == Front(W)
           V == Extend(W, c)
           n == Len(W) - 1
<1>1. F \in Seq(ChunkWindow) /\ Len(F) = n /\ \A k \in 1..n : F[k] = W[k]
  BY FrontIs
<1>2. n \in Nat /\ Len(W) = n + 1
  OBVIOUS
<1>3. \A x : /\ Len(Append(F, x)) = n + 1
             /\ \A k \in 1..n : Append(F, x)[k] = F[k]
  BY <1>1, <1>2
<1>4. \A x : /\ Len(Append(W, x)) = n + 2
             /\ \A k \in 1..n : Append(W, x)[k] = F[k]
  BY <1>1, <1>2
<1>5. \/ \E x : V = Append(F, x)
      \/ \E x : V = Append(W, x)
  BY DEF Extend
<1> HIDE DEF F, V, n
<1>6. Len(V) \in Nat /\ n <= Len(V) /\ \A k \in 1..n : V[k] = F[k]
  <2>1. CASE \E x : V = Append(F, x)
    <3>1. PICK x : V = Append(F, x)
      BY <2>1
    <3>2. Len(V) = n + 1 /\ \A k \in 1..n : V[k] = F[k]
      BY <1>3, <3>1
    <3> QED
      BY <1>2, <3>2
  <2>2. CASE \E x : V = Append(W, x)
    <3>1. PICK x : V = Append(W, x)
      BY <2>2
    <3>2. Len(V) = n + 2 /\ \A k \in 1..n : V[k] = F[k]
      BY <1>4, <3>1
    <3> QED
      BY <1>2, <3>2
  <2> QED
    BY <1>5, <2>1, <2>2
<1>7. SubSeq(F, 1, n) = [k \in 1..n |-> F[k]] /\ SubSeq(V, 1, n) = [k \in 1..n |-> V[k]]
  <2>1. \A k \in 1..n : 1 + k - 1 = k
    BY <1>2
  <2> QED
    BY <1>2, <2>1
<1>8. [k \in 1..n |-> F[k]] = [k \in 1..n |-> V[k]]
  BY <1>6
<1>9. IsPrefix(F, V)
  BY <1>1, <1>6, <1>7, <1>8 DEF IsPrefix
<1> QED
  BY <1>9 DEF F, V

\* What recording goes on does not move the cuts already made.
THEOREM LastWindowGrows ==
    Spec => OnlyLastWindowGrows
<1> DEFINE Kept == \A c \in pending' \ pending :
                       (\A d \in pending : Before(d, c)) /\ pending # {} =>
                           IsPrefix(Front(Windows(pending)), Windows(pending'))
<1>1. ASSUME Pending, Next PROVE Kept
  <2>1. PICK e \in OrdinaryChunk : Upload(e)
    BY <1>1 DEF Next
  <2>2. pending \in SUBSET OrdinaryChunk /\ e \notin pending /\ pending' = pending \cup {e}
    BY <1>1, <2>1 DEF Pending, Upload
  <2>3. ASSUME \A d \in pending : Before(d, e), pending # {}
        PROVE  IsPrefix(Front(Windows(pending)), Windows(pending \cup {e}))
    <3> DEFINE W == Windows(pending)
    <3>1. Splits(W, pending)
      BY <2>2, WindowsSplit
    <3>2. Windows(pending \cup {e}) = Extend(W, e)
      BY <2>2, <2>3, WindowsExtend
    <3> HIDE DEF W
    <3>3. W \in Seq(ChunkWindow) /\ Len(W) # 0
      BY <2>3, <3>1 DEF Splits
    <3>4. IsPrefix(Front(W), Extend(W, e))
      BY <3>3, ExtendKeepsFront
    <3> QED
      BY <3>2, <3>4 DEF W
  <2>4. ASSUME NEW c \in pending' \ pending PROVE c = e
    BY <2>2, <2>4
  <2> QED
    BY <2>2, <2>3, <2>4
<1>2. Pending /\ [Next]_pending => [Kept]_pending
  BY <1>1
<1> QED
  BY <1>2, AlwaysPending, PTL DEF Spec, OnlyLastWindowGrows
================================================================================
