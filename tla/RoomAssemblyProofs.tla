--------------------------- MODULE RoomAssemblyProofs --------------------------
(***************************************************************************)
(* Theorems about RoomAssembly and the cutting of RoomWindows, for any     *)
(* chunks, any order and delay of their arrival and any passes.            *)
(***************************************************************************)
EXTENDS RoomAssembly, Counting

\* A function that is defined from the end: what it is at i depends on what it is at
\* nxt[i], further on.
DefinedBy(f, n, keep, piece, nxt) ==
    f = [i \in 1..(n + 1) |->
            IF i > n THEN <<>>
            ELSE IF keep[i] THEN <<piece[i]>> \o f[nxt[i]]
            ELSE f[nxt[i]]]

LEMMA FromTheEnd ==
    ASSUME NEW n \in Nat, NEW keep, NEW piece, NEW nxt,
           \A i \in 1..n : nxt[i] \in (i + 1)..(n + 1)
    PROVE  \E f : DefinedBy(f, n, keep, piece, nxt)
<1> DEFINE At(f, i) == IF i > n THEN <<>>
                       ELSE IF keep[i] THEN <<piece[i]>> \o f[nxt[i]]
                       ELSE f[nxt[i]]
           \* defined on the last k positions
           Steps(k) == \E f : \A i \in (n + 2 - k)..(n + 1) : f[i] = At(f, i)
<1>1. Steps(n + 1)
  <2> DEFINE None == {k \in 1..(n + 1) : ~Steps(k)}
  <2> HIDE DEF Steps
  <2> SUFFICES ASSUME None # {} PROVE FALSE
    OBVIOUS
  <2>1. PICK k \in 1..(n + 1) : k \in None /\ \A j \in 1..(k - 1) : j \notin None
    BY n + 1 \in Nat, FirstOf
  <2>2. k = 1 \/ (k - 1 \in 1..(n + 1) /\ Steps(k - 1))
    BY <2>1
  <2>3. CASE k = 1
    <3> DEFINE f == [i \in {n + 1} |-> <<>>]
    <3>1. \A i \in (n + 1)..(n + 1) : f[i] = At(f, i)
      OBVIOUS
    <3> HIDE DEF f, At
    <3>2. Steps(1)
      BY <3>1, n + 2 - 1 = n + 1 DEF Steps
    <3> QED
      BY <2>1, <2>3, <3>2
  <2>4. CASE k # 1
    <3>1. PICK f : \A i \in (n + 2 - (k - 1))..(n + 1) : f[i] = At(f, i)
      BY <2>2, <2>4 DEF Steps
    <3> DEFINE c == n + 2 - k
               g == [i \in c..(n + 1) |-> IF i = c THEN At(f, c) ELSE f[i]]
    <3>2. c \in 1..n /\ n + 2 - (k - 1) = c + 1 /\ nxt[c] \in (c + 1)..(n + 1)
      BY <2>4
    <3> HIDE DEF c
    <3>3. g[c] = At(f, c) /\ \A i \in (c + 1)..(n + 1) : g[i] = f[i]
      <4>1. c \in c..(n + 1) /\ \A i \in (c + 1)..(n + 1) : i \in c..(n + 1) /\ i # c
        BY <3>2
      <4> HIDE DEF At
      <4> QED
        BY <4>1
    <3> HIDE DEF g
    <3>4. ASSUME NEW i \in c..(n + 1) PROVE g[i] = At(g, i)
      <4>1. i \in 1..n => nxt[i] \in (c + 1)..(n + 1)
        BY <3>2
      <4>2. At(g, i) = At(f, i)
        <5>1. CASE i > n
          BY <5>1
        <5>2. CASE i \in 1..n
          BY <3>3, <4>1, <5>2
        <5> QED
          BY <3>2, <5>1, <5>2
      <4> HIDE DEF At
      <4>3. i = c \/ i \in (c + 1)..(n + 1)
        BY <3>2
      <4> QED
        BY <3>1, <3>2, <3>3, <4>2, <4>3
    <3> HIDE DEF At
    <3>5. Steps(k)
      BY <3>4 DEF Steps, c
    <3> QED
      BY <2>1, <3>5
  <2> QED
    BY <2>3, <2>4
<1>2. PICK f : \A i \in 1..(n + 1) : f[i] = At(f, i)
  BY <1>1, n + 2 - (n + 1) = 1
<1> DEFINE h == [i \in 1..(n + 1) |-> At(f, i)]
<1>3. \A i \in 1..(n + 1) : h[i] = f[i]
  <2> HIDE DEF At
  <2> QED
    BY <1>2
<1> HIDE DEF h
<1>4. ASSUME NEW i \in 1..(n + 1) PROVE At(h, i) = At(f, i)
  <2>1. CASE i > n
    BY <2>1
  <2>2. CASE i \in 1..n
    <3>1. nxt[i] \in 1..(n + 1)
      BY <2>2
    <3> QED
      BY <1>3, <2>2, <3>1
  <2> QED
    BY <2>1, <2>2
<1>5. h = [i \in 1..(n + 1) |-> At(h, i)]
  <2> HIDE DEF At
  <2> QED
    BY <1>4 DEF h
<1>6. DefinedBy(h, n, keep, piece, nxt)
  BY <1>5 DEF DefinedBy
<1> QED
  BY <1>6

--------------------------------------------------------------------------------
\* The order of the chunks.

Order(S) == {p \in S \X S : Earlier(p[1], p[2])}

LEMMA EarlierIs ==
    ASSUME NEW c, NEW d
    PROVE  Earlier(c, d) <=> \/ c.start < d.start
                             \/ c.start = d.start /\ c.end < d.end
                             \/ c.start = d.start /\ c.end = d.end /\ c.id < d.id
<1> DEFINE k == RoomKey(c)
           l == RoomKey(d)
<1>1. /\ k[1] = c.start /\ k[2] = c.end /\ k[3] = c.id
      /\ l[1] = d.start /\ l[2] = d.end /\ l[3] = d.id
  BY DEF RoomKey
<1> HIDE DEF k, l
<1>2. Earlier(c, d) <=> \E i \in 1..3 : k[i] < l[i] /\ \A j \in 1..(i - 1) : k[j] = l[j]
  BY DEF Earlier, k, l
<1>3. Earlier(c, d) <=> \/ k[1] < l[1] /\ \A j \in 1..0 : k[j] = l[j]
                        \/ k[2] < l[2] /\ \A j \in 1..1 : k[j] = l[j]
                        \/ k[3] < l[3] /\ \A j \in 1..2 : k[j] = l[j]
  <2>1. 1..3 = {1, 2, 3} /\ 1 - 1 = 0 /\ 2 - 1 = 1 /\ 3 - 1 = 2
    OBVIOUS
  <2> QED
    BY <1>2, <2>1
<1>4. 1..0 = {} /\ 1..1 = {1} /\ 1..2 = {1, 2}
  OBVIOUS
<1> QED
  BY <1>1, <1>3, <1>4

LEMMA OrderIs ==
    ASSUME NEW S \in SUBSET RoomChunk
    PROVE  IsFiniteSet(S) /\ Orders(Order(S), S)
<1>1. /\ \A c \in S : c.start \in Nat /\ c.end \in Nat /\ c.id \in Nat
      /\ \A c, d \in S : c.id = d.id => c = d
  BY RoomWindowAssumption DEF RoomWindowAssumption
<1>2. IsFiniteSet(S)
  BY RoomWindowAssumption, FS_Subset DEF RoomWindowAssumption
<1>3. \A a, b \in S : <<a, b>> \in Order(S) <=> Earlier(a, b)
  BY DEF Order
<1>4. \A a \in S : ~Earlier(a, a)
  BY <1>1, EarlierIs
<1>5. \A a, b, c \in S : Earlier(a, b) /\ Earlier(b, c) => Earlier(a, c)
  BY <1>1, EarlierIs
<1>6. \A a, b \in S : a = b \/ Earlier(a, b) \/ Earlier(b, a)
  BY <1>1, EarlierIs
<1> QED
  BY <1>2, <1>3, <1>4, <1>5, <1>6 DEF Orders

\* RoomOrder puts the chunks of S in order.
LEMMA RoomOrderIs ==
    ASSUME NEW S \in SUBSET RoomChunk
    PROVE  /\ RoomOrder(S) \in Seq(S)
           /\ \A i, j \in 1..Len(RoomOrder(S)) : i < j => Earlier(RoomOrder(S)[i], RoomOrder(S)[j])
           /\ \A c \in S : \E n \in 1..Len(RoomOrder(S)) : RoomOrder(S)[n] = c
<1> DEFINE N == Cardinality(S)
           at(n) == CHOOSE c \in S : Cardinality({d \in S : Earlier(d, c)}) = n - 1
<1>1. N \in Nat /\ IsFiniteSet(S) /\ Orders(Order(S), S)
  BY OrderIs, FS_CardinalityType
<1>2. ASSUME NEW c \in S PROVE Rank(Order(S), S, c) = Cardinality({d \in S : Earlier(d, c)})
  <2>1. {d \in S : <<d, c>> \in Order(S)} = {d \in S : Earlier(d, c)}
    BY DEF Order
  <2> QED
    BY <2>1 DEF Rank
<1>3. ASSUME NEW n \in 1..N PROVE at(n) \in S /\ Rank(Order(S), S, at(n)) = n - 1
  <2>1. n - 1 \in 0..(N - 1)
    BY <1>1
  <2>2. \E c \in S : Rank(Order(S), S, c) = n - 1
    BY <1>1, <2>1, RankTaken
  <2>3. \E c \in S : Cardinality({d \in S : Earlier(d, c)}) = n - 1
    BY <1>2, <2>2
  <2>4. at(n) \in S /\ Cardinality({d \in S : Earlier(d, at(n))}) = n - 1
    BY <2>3
  <2> QED
    BY <1>2, <2>4
<1>4. RoomOrder(S) = [n \in 1..N |-> at(n)]
  BY DEF RoomOrder
<1> HIDE DEF at, N
<1> DEFINE s == RoomOrder(S)
<1>5. s \in [1..N -> S] /\ Len(s) = N /\ \A n \in 1..N : s[n] = at(n)
  BY <1>1, <1>3, <1>4
<1> HIDE DEF s
<1>6. Sorts(s, Order(S), S)
  BY <1>1, <1>3, <1>5, RanksSort DEF N
<1> QED
  BY <1>6 DEF Sorts, Order, s

--------------------------------------------------------------------------------
\* The cutting of a sequence of chunks.

LEMMA ChunkTimes ==
    ASSUME NEW s \in Seq(RoomChunk), NEW i \in 1..Len(s)
    PROVE  s[i] \in RoomChunk /\ s[i].start \in Nat /\ s[i].end \in Nat
BY RoomWindowAssumption DEF RoomWindowAssumption

LEMMA SpanEndIs ==
    ASSUME NEW s \in Seq(RoomChunk), NEW i \in 1..Len(s)
    PROVE  SpanEnd(s, i) \in i..Len(s) /\ \A j \in i..(SpanEnd(s, i) - 1) : Contiguous(s[j], s[j + 1])
<1> DEFINE T == {j \in i..Len(s) : j = Len(s) \/ ~Contiguous(s[j], s[j + 1])}
<1>1. T \in SUBSET Nat /\ Len(s) \in T /\ Len(s) \in Nat
  OBVIOUS
<1>2. Min(T) \in T /\ \A k \in T : Min(T) <= k
  BY <1>1, MinIs
<1>3. ASSUME NEW j \in i..(Min(T) - 1) PROVE Contiguous(s[j], s[j + 1])
  <2>1. Min(T) \in i..Len(s)
    BY <1>2
  <2> HIDE DEF T
  <2>2. j \notin T /\ j \in i..Len(s)
    BY <1>1, <1>2, <2>1
  <2> QED
    BY <2>2 DEF T
<1> QED
  BY <1>2, <1>3 DEF SpanEnd

\* How long the chunks of a part are does not depend on what is around it.
LEMMA LengthIs ==
    ASSUME NEW s \in Seq(RoomChunk), NEW i \in 1..Len(s), NEW n \in i..Len(s)
    PROVE  /\ Length(s, i, n) \in Int
           /\ \A e \in n..Len(s) : Length(SubSeq(s, i, e), 1, n - i + 1) = Length(s, i, n)
<1> DEFINE ends == {s[j].end : j \in i..n}
           f == [j \in i..n |-> s[j].end]
<1>1. \A j \in i..n : s[j].end \in Nat
  BY ChunkTimes
<1>2. IsFiniteSet(ends) /\ ends \in SUBSET Nat /\ s[i].end \in ends
  <2>1. f \in Surjection(i..n, ends)
    BY DEF Surjection
  <2>2. IsFiniteSet(i..n) /\ i \in i..n
    BY FS_Interval
  <2> QED
    BY <1>1, <2>1, <2>2, FS_Surjection
<1>3. Max(ends) \in Nat
  <2> HIDE DEF ends
  <2> QED
    BY <1>2, MaxIs
<1>4. Length(s, i, n) = Max(ends) - s[i].start
  BY DEF Length
<1>5. ASSUME NEW e \in n..Len(s)
      PROVE  Length(SubSeq(s, i, e), 1, n - i + 1) = Length(s, i, n)
  <2> DEFINE b == SubSeq(s, i, e)
             others == {b[j].end : j \in 1..(n - i + 1)}
  <2>1. \A j \in 1..(n - i + 1) : b[j] = s[i + j - 1]
    OBVIOUS
  <2> HIDE DEF b
  <2>2. others = ends
    <3>1. ASSUME NEW j \in 1..(n - i + 1) PROVE b[j].end \in ends
      <4>1. i + j - 1 \in i..n
        OBVIOUS
      <4> QED
        BY <2>1, <4>1
    <3>2. ASSUME NEW j \in i..n PROVE s[j].end \in others
      <4>1. j - i + 1 \in 1..(n - i + 1) /\ i + (j - i + 1) - 1 = j
        OBVIOUS
      <4>2. b[j - i + 1] = s[j]
        BY <2>1, <4>1
      <4> QED
        BY <4>1, <4>2
    <3> QED
      BY <3>1, <3>2
  <2>3. b[1] = s[i]
    BY <2>1
  <2> HIDE DEF others, ends
  <2> QED
    BY <1>4, <2>2, <2>3 DEF Length, others, b
<1> QED
  BY <1>3, <1>4, <1>5, ChunkTimes

\* The chunks of a batch follow each other, and without the last one they do not fill
\* the window.
Fits(b) ==
    /\ \A i \in 1..(Len(b) - 1) : b[i + 1].start <= b[i].end + RoomAdjacency
    /\ Len(b) > 1 => Length(b, 1, Len(b) - 1) < RoomWindow

\* The last chunk that is cut off or left pending with chunk i.
End(s, i) ==
    LET last == SpanEnd(s, i)
        closed == ClosedBy(s, i, last)
    IN  IF closed # {} THEN Min(closed) ELSE last

LEMMA EndIs ==
    ASSUME NEW s \in Seq(RoomChunk), NEW i \in 1..Len(s)
    PROVE  /\ End(s, i) \in i..Len(s)
           /\ SubSeq(s, i, End(s, i)) \in Seq(RoomChunk)
           /\ Fits(SubSeq(s, i, End(s, i)))
<1> DEFINE last == SpanEnd(s, i)
           closed == ClosedBy(s, i, last)
           e == End(s, i)
           b == SubSeq(s, i, e)
<1>1. last \in i..Len(s) /\ \A j \in i..(last - 1) : Contiguous(s[j], s[j + 1])
  BY SpanEndIs
<1>2. e \in i..last /\ \A n \in i..(e - 1) : ~(Length(s, i, n) >= RoomWindow)
  <2>1. closed \in SUBSET Nat /\ closed \in SUBSET (i..last)
    BY <1>1 DEF ClosedBy
  <2>2. CASE closed # {}
    <3>1. Min(closed) \in closed /\ \A k \in closed : Min(closed) <= k
      BY <2>1, <2>2, MinIs
    <3>2. e = Min(closed)
      BY <2>2 DEF End
    <3>3. ASSUME NEW n \in i..(e - 1) PROVE n \notin closed /\ n \in i..last
      BY <1>1, <2>1, <3>1, <3>2
    <3> QED
      BY <2>1, <3>1, <3>2, <3>3 DEF ClosedBy
  <2>3. CASE closed = {}
    <3>1. e = last
      BY <2>3 DEF End
    <3> QED
      BY <1>1, <2>3, <3>1 DEF ClosedBy
  <2> QED
    BY <2>2, <2>3
<1> HIDE DEF last, closed, e
<1>3. /\ e \in i..Len(s) /\ b \in Seq(RoomChunk) /\ Len(b) = e - i + 1
      /\ \A j \in 1..Len(b) : b[j] = s[i + j - 1]
  BY <1>1, <1>2
<1> HIDE DEF b
<1>4. ASSUME NEW j \in 1..(Len(b) - 1) PROVE b[j + 1].start <= b[j].end + RoomAdjacency
  <2>1. i + j - 1 \in i..(last - 1) /\ i + (j + 1) - 1 = (i + j - 1) + 1
    BY <1>1, <1>2, <1>3
  <2>2. Contiguous(s[i + j - 1], s[(i + j - 1) + 1])
    BY <1>1, <2>1
  <2>3. j \in 1..Len(b) /\ j + 1 \in 1..Len(b)
    BY <1>3
  <2>4. b[j] = s[i + j - 1] /\ b[j + 1] = s[(i + j - 1) + 1]
    BY <1>3, <2>1, <2>3
  <2> QED
    BY <2>2, <2>4 DEF Contiguous
<1>5. ASSUME Len(b) > 1 PROVE Length(b, 1, Len(b) - 1) < RoomWindow
  <2>1. e - 1 \in i..(e - 1) /\ e - 1 \in i..Len(s) /\ e \in (e - 1)..Len(s) /\ Len(b) - 1 = (e - 1) - i + 1
    BY <1>3, <1>5
  <2>2. Length(s, i, e - 1) \in Int /\ Length(b, 1, (e - 1) - i + 1) = Length(s, i, e - 1)
    BY <2>1, LengthIs DEF b
  <2>3. RoomWindow \in Nat
    BY RoomWindowAssumption DEF RoomWindowAssumption
  <2> QED
    BY <1>2, <2>1, <2>2, <2>3
<1> QED
  BY <1>3, <1>4, <1>5 DEF Fits, b, e

Cuts(s, i, time) ==
    ClosedBy(s, i, SpanEnd(s, i)) # {} \/ Idle(s, i, SpanEnd(s, i), time)

\* What is cut from position i on is the batch that begins there, if it is ready, and
\* what is cut from after it on.
LEMMA BatchesFromIs ==
    ASSUME NEW s \in Seq(RoomChunk), NEW time
    PROVE  \A i \in 1..(Len(s) + 1) :
              BatchesFrom(s, time)[i] =
                 IF i > Len(s) THEN <<>>
                 ELSE IF Cuts(s, i, time)
                      THEN <<SubSeq(s, i, End(s, i))>> \o BatchesFrom(s, time)[End(s, i) + 1]
                 ELSE BatchesFrom(s, time)[End(s, i) + 1]
<1> DEFINE n == Len(s)
           keep == [i \in 1..n |-> Cuts(s, i, time)]
           piece == [i \in 1..n |-> SubSeq(s, i, End(s, i))]
           nxt == [i \in 1..n |-> End(s, i) + 1]
           Code(f, i) ==
               IF i > Len(s) THEN <<>>
               ELSE LET last == SpanEnd(s, i)
                        closed == ClosedBy(s, i, last)
                    IN  IF closed # {} THEN <<SubSeq(s, i, Min(closed))>> \o f[Min(closed) + 1]
                        ELSE IF Idle(s, i, last, time) THEN <<Rest(s, i, last)>> \o f[last + 1]
                        ELSE f[last + 1]
           At(f, i) == IF i > n THEN <<>>
                       ELSE IF keep[i] THEN <<piece[i]>> \o f[nxt[i]]
                       ELSE f[nxt[i]]
<1>1. n \in Nat /\ \A i \in 1..n : nxt[i] \in (i + 1)..(n + 1)
  BY EndIs
<1>2. ASSUME NEW f, NEW i \in 1..(n + 1) PROVE Code(f, i) = At(f, i)
  <2>1. CASE i > n
    BY <2>1
  <2>2. CASE i \in 1..n
    <3>1. keep[i] = Cuts(s, i, time) /\ piece[i] = SubSeq(s, i, End(s, i)) /\ nxt[i] = End(s, i) + 1
      BY <2>2
    <3>2. ~(i > n)
      BY <1>1, <2>2
    <3> HIDE DEF keep, piece, nxt, n
    <3>3. CASE ClosedBy(s, i, SpanEnd(s, i)) # {}
      BY <3>1, <3>2, <3>3 DEF Cuts, End, n
    <3>4. CASE ClosedBy(s, i, SpanEnd(s, i)) = {} /\ Idle(s, i, SpanEnd(s, i), time)
      BY <3>1, <3>2, <3>4 DEF Cuts, End, Rest, n
    <3>5. CASE ClosedBy(s, i, SpanEnd(s, i)) = {} /\ ~Idle(s, i, SpanEnd(s, i), time)
      BY <3>1, <3>2, <3>5 DEF Cuts, End, n
    <3> QED
      BY <3>3, <3>4, <3>5
  <2> QED
    BY <1>1, <2>1, <2>2
<1>3. \E f : f = [i \in 1..(n + 1) |-> At(f, i)]
  <2> HIDE DEF keep, piece, nxt, n
  <2>1. PICK f : DefinedBy(f, n, keep, piece, nxt)
    BY <1>1, FromTheEnd
  <2> QED
    BY <2>1 DEF DefinedBy
<1> HIDE DEF At
<1>4. \E f : f = [i \in 1..(n + 1) |-> Code(f, i)]
  <2>1. PICK f : f = [i \in 1..(n + 1) |-> At(f, i)]
    BY <1>3
  <2>2. \A i \in 1..(n + 1) : Code(f, i) = At(f, i)
    BY <1>2
  <2> HIDE DEF Code
  <2>3. [i \in 1..(n + 1) |-> Code(f, i)] = [i \in 1..(n + 1) |-> At(f, i)]
    BY <2>2
  <2> QED
    BY <2>1, <2>3
<1> DEFINE g == CHOOSE f : f = [i \in 1..(n + 1) |-> Code(f, i)]
<1>5. BatchesFrom(s, time) = g
  BY DEF BatchesFrom
<1> HIDE DEF Code
<1>6. g = [i \in 1..(n + 1) |-> Code(g, i)]
  BY <1>4
<1> HIDE DEF g
<1>7. ASSUME NEW i \in 1..(n + 1) PROVE g[i] = At(g, i)
  BY <1>2, <1>6
<1> QED
  <2> SUFFICES ASSUME NEW i \in 1..(n + 1)
               PROVE  g[i] = IF i > n THEN <<>>
                             ELSE IF Cuts(s, i, time) THEN <<SubSeq(s, i, End(s, i))>> \o g[End(s, i) + 1]
                             ELSE g[End(s, i) + 1]
    BY <1>5
  <2>1. CASE i > n
    BY <1>7, <2>1 DEF At
  <2>2. CASE i \in 1..n
    <3>1. keep[i] = Cuts(s, i, time) /\ piece[i] = SubSeq(s, i, End(s, i)) /\ nxt[i] = End(s, i) + 1
      BY <2>2
    <3> HIDE DEF keep, piece, nxt
    <3> QED
      BY <1>7, <3>1 DEF At
  <2> QED
    BY <1>1, <2>1, <2>2

\* q consists of parts of s from position i on, in order, each of which fits.
CutUp(s, i, q) ==
    /\ q \in Seq(Seq(RoomChunk))
    /\ \E lo, hi \in [1..Len(q) -> i..Len(s)] :
          /\ \A n \in 1..Len(q) :
                lo[n] <= hi[n] /\ q[n] = SubSeq(s, lo[n], hi[n]) /\ Fits(q[n])
          /\ \A n, m \in 1..Len(q) : n < m => hi[n] < lo[m]

LEMMA CutUpMore ==
    ASSUME NEW s \in Seq(RoomChunk), NEW i \in 1..Len(s), NEW e \in i..Len(s), NEW q,
           CutUp(s, e + 1, q)
    PROVE  /\ CutUp(s, i, q)
           /\ Fits(SubSeq(s, i, e)) => CutUp(s, i, <<SubSeq(s, i, e)>> \o q)
<1> DEFINE N == Len(q)
<1>1. q \in Seq(Seq(RoomChunk)) /\ N \in Nat /\ Len(s) \in Nat
  BY DEF CutUp
<1>2. PICK lo \in [1..N -> (e + 1)..Len(s)], hi \in [1..N -> (e + 1)..Len(s)] :
         /\ \A n \in 1..N : lo[n] <= hi[n] /\ q[n] = SubSeq(s, lo[n], hi[n]) /\ Fits(q[n])
         /\ \A n, m \in 1..N : n < m => hi[n] < lo[m]
  BY DEF CutUp
<1>3. CutUp(s, i, q)
  <2>1. lo \in [1..N -> i..Len(s)] /\ hi \in [1..N -> i..Len(s)]
    BY <1>2
  <2> QED
    BY <1>1, <1>2, <2>1 DEF CutUp
<1>4. ASSUME Fits(SubSeq(s, i, e)) PROVE CutUp(s, i, <<SubSeq(s, i, e)>> \o q)
  <2> DEFINE b == SubSeq(s, i, e)
             p == <<b>> \o q
             from == [n \in 1..(N + 1) |-> IF n = 1 THEN i ELSE lo[n - 1]]
             to == [n \in 1..(N + 1) |-> IF n = 1 THEN e ELSE hi[n - 1]]
  <2>0. b \in Seq(RoomChunk)
    OBVIOUS
  <2>a. Fits(b)
    BY <1>4
  <2> HIDE DEF b, N
  <2>1. /\ p \in Seq(Seq(RoomChunk)) /\ Len(p) = N + 1 /\ p[1] = b
        /\ \A n \in 2..(N + 1) : p[n] = q[n - 1]
    <3> DEFINE Parts == Seq(RoomChunk)
    <3>1. b \in Parts /\ q \in Seq(Parts)
      BY <1>1, <2>0
    <3> HIDE DEF Parts
    <3>2. /\ p \in Seq(Parts) /\ Len(p) = N + 1 /\ p[1] = b
          /\ \A n \in 2..(N + 1) : p[n] = q[n - 1]
      BY <3>1 DEF N
    <3> QED
      BY <3>2 DEF Parts
  <2>2. /\ from[1] = i /\ to[1] = e
        /\ \A n \in 2..(N + 1) : n - 1 \in 1..N /\ from[n] = lo[n - 1] /\ to[n] = hi[n - 1]
    BY <1>1
  <2>3. from \in [1..(N + 1) -> i..Len(s)] /\ to \in [1..(N + 1) -> i..Len(s)]
    BY <1>1, <1>2
  <2> HIDE DEF from, to, p
  <2>4. ASSUME NEW n \in 1..(N + 1)
        PROVE  from[n] <= to[n] /\ p[n] = SubSeq(s, from[n], to[n]) /\ Fits(p[n])
    <3>1. CASE n = 1
      <4>1. from[n] = i /\ to[n] = e /\ p[n] = b /\ i <= e
        BY <2>1, <2>2, <3>1
      <4> QED
        BY <2>a, <4>1 DEF b
    <3>2. CASE n \in 2..(N + 1)
      BY <1>2, <2>1, <2>2, <3>2
    <3> QED
      BY <1>1, <3>1, <3>2
  <2>5. ASSUME NEW n \in 1..(N + 1), NEW m \in 1..(N + 1), n < m PROVE to[n] < from[m]
    <3>1. m \in 2..(N + 1) /\ m - 1 \in 1..N /\ from[m] = lo[m - 1] /\ lo[m - 1] \in (e + 1)..Len(s)
      BY <1>1, <1>2, <2>2, <2>5
    <3>2. CASE n = 1
      BY <2>2, <3>1, <3>2
    <3>3. CASE n \in 2..(N + 1)
      BY <1>2, <2>2, <2>5, <3>1, <3>3
    <3> QED
      BY <1>1, <3>2, <3>3
  <2>6. \E l, h \in [1..Len(p) -> i..Len(s)] :
           /\ \A n \in 1..Len(p) : l[n] <= h[n] /\ p[n] = SubSeq(s, l[n], h[n]) /\ Fits(p[n])
           /\ \A n, m \in 1..Len(p) : n < m => h[n] < l[m]
    BY <2>1, <2>3, <2>4, <2>5
  <2> QED
    BY <2>1, <2>6 DEF CutUp, p, b
<1> QED
  BY <1>3, <1>4

\* What is cut off from any position of s on are parts of s, one after the other.
LEMMA BatchesCutUp ==
    ASSUME NEW s \in Seq(RoomChunk), NEW time
    PROVE  \A i \in 1..(Len(s) + 1) : CutUp(s, i, BatchesFrom(s, time)[i])
<1> DEFINE n == Len(s)
           from == BatchesFrom(s, time)
           Good(i) == CutUp(s, i, from[i])
           \* counted from the end
           Bad == {k \in 1..(n + 1) : ~Good(n + 2 - k)}
<1>1. n \in Nat
  OBVIOUS
<1>2. \A i \in 1..(n + 1) :
         from[i] = IF i > n THEN <<>>
                   ELSE IF Cuts(s, i, time) THEN <<SubSeq(s, i, End(s, i))>> \o from[End(s, i) + 1]
                   ELSE from[End(s, i) + 1]
  BY BatchesFromIs
<1> HIDE DEF from, Good
<1>3. Bad = {}
  <2> SUFFICES ASSUME Bad # {} PROVE FALSE
    OBVIOUS
  <2>1. PICK k \in 1..(n + 1) : k \in Bad /\ \A j \in 1..(k - 1) : j \notin Bad
    BY <1>1, n + 1 \in Nat, FirstOf
  <2> DEFINE i == n + 2 - k
  <2>2. i \in 1..(n + 1) /\ ~Good(i)
    BY <2>1
  <2>3. ASSUME NEW j \in (i + 1)..(n + 1) PROVE Good(j)
    <3>1. \E m \in 1..(k - 1) : n + 2 - m = j
      <4>1. n + 2 - j \in 1..(k - 1) /\ n + 2 - (n + 2 - j) = j
        BY <1>1
      <4> QED
        BY <4>1
    <3>2. PICK m \in 1..(k - 1) : n + 2 - m = j
      BY <3>1
    <3>3. m \notin Bad /\ m \in 1..(n + 1)
      <4> HIDE DEF Bad
      <4> QED
        BY <1>1, <2>1, <3>2
    <3>4. Good(n + 2 - m)
      BY <3>3
    <3> QED
      BY <3>2, <3>4
  <2> HIDE DEF i, Bad
  <2>4. CASE i > n
    <3>1. from[i] = <<>>
      <4> HIDE DEF n
      <4> QED
        BY <1>2, <2>2, <2>4
    <3> DEFINE none == [m \in {} |-> 0]
               q == from[i]
    <3>2. /\ q \in Seq(Seq(RoomChunk)) /\ 1..Len(q) = {}
          /\ none \in [1..Len(q) -> i..Len(s)]
      BY <3>1
    <3> HIDE DEF none, q
    <3>3. CutUp(s, i, q)
      BY <3>2 DEF CutUp
    <3> QED
      BY <2>2, <3>3 DEF Good, q
  <2>5. CASE i \in 1..n
    <3> DEFINE e == End(s, i)
    <3>1. e \in i..n /\ Fits(SubSeq(s, i, e)) /\ e + 1 \in (i + 1)..(n + 1)
      BY <2>5, EndIs
    <3> HIDE DEF e
    <3>2. CutUp(s, e + 1, from[e + 1])
      BY <2>3, <3>1 DEF Good
    <3>3. /\ CutUp(s, i, from[e + 1])
          /\ CutUp(s, i, <<SubSeq(s, i, e)>> \o from[e + 1])
      BY <2>5, <3>1, <3>2, CutUpMore
    <3>4. from[i] = IF Cuts(s, i, time) THEN <<SubSeq(s, i, e)>> \o from[e + 1] ELSE from[e + 1]
      BY <1>1, <1>2, <2>5 DEF e
    <3> QED
      BY <2>2, <3>3, <3>4 DEF Good
  <2> QED
    BY <1>1, <2>2, <2>4, <2>5
<1>4. ASSUME NEW i \in 1..(n + 1) PROVE Good(i)
  <2>1. n + 2 - i \in 1..(n + 1) /\ n + 2 - (n + 2 - i) = i
    BY <1>1
  <2> QED
    BY <1>3, <2>1
<1> QED
  BY <1>4 DEF Good, from

--------------------------------------------------------------------------------
\* The invariant: what waits is of the room and in no batch, and the batches have each
\* chunk once and fit.
AssemblyInv ==
    /\ waiting \subseteq RoomChunk
    /\ batches \in Seq(Seq(RoomChunk))
    /\ BatchedOnce
    /\ \A n \in 1..Len(batches) : Fits(batches[n])

LEMMA InitAssembly == Init => AssemblyInv
<1> SUFFICES ASSUME Init PROVE AssemblyInv
  OBVIOUS
<1>1. batches = <<>> /\ waiting = {}
  BY DEF Init
<1>2. DOMAIN batches = {} /\ 1..Len(batches) = {} /\ batches \in Seq(Seq(RoomChunk))
  BY <1>1
<1> QED
  BY <1>1, <1>2 DEF AssemblyInv, BatchedOnce

\* q consists of batches of chunks of S that fit, with each chunk once.
BatchesOf(q, S) ==
    /\ q \in Seq(Seq(RoomChunk))
    /\ \A n \in 1..Len(q) : Fits(q[n]) /\ \A i \in 1..Len(q[n]) : q[n][i] \in S
    /\ \A n, m \in 1..Len(q) : \A i \in 1..Len(q[n]), j \in 1..Len(q[m]) :
          q[n][i] = q[m][j] => n = m /\ i = j

LEMMA ReadyOnce ==
    ASSUME NEW S \in SUBSET RoomChunk, NEW time
    PROVE  BatchesOf(ReadyBatches(RoomOrder(S), time), S)
<1> DEFINE s == RoomOrder(S)
           ready == ReadyBatches(s, time)
           N == Len(ready)
<1>1. s \in Seq(S) /\ \A i, j \in 1..Len(s) : i < j => Earlier(s[i], s[j])
  BY RoomOrderIs
<1> HIDE DEF s, ready
<1>2. s \in Seq(RoomChunk)
  BY <1>1
<1>3. \A i, j \in 1..Len(s) : s[i] = s[j] => i = j
  <2> SUFFICES ASSUME NEW i \in 1..Len(s), NEW j \in 1..Len(s), s[i] = s[j] PROVE i = j
    OBVIOUS
  <2>1. \A a \in RoomChunk : ~Earlier(a, a)
    BY RoomWindowAssumption, EarlierIs DEF RoomWindowAssumption
  <2>2. ~(i < j) /\ ~(j < i)
    BY <1>1, <1>2, <2>1
  <2> QED
    BY <2>2
<1>4. CutUp(s, 1, ready)
  <2>1. 1 \in 1..(Len(s) + 1)
    BY <1>2
  <2> QED
    BY <1>2, <2>1, BatchesCutUp DEF ready, ReadyBatches
<1>5. ready \in Seq(Seq(RoomChunk)) /\ N \in Nat
  BY <1>4 DEF CutUp
<1>6. PICK lo \in [1..N -> 1..Len(s)], hi \in [1..N -> 1..Len(s)] :
         /\ \A n \in 1..N : lo[n] <= hi[n] /\ ready[n] = SubSeq(s, lo[n], hi[n]) /\ Fits(ready[n])
         /\ \A n, m \in 1..N : n < m => hi[n] < lo[m]
  BY <1>4 DEF CutUp
<1>7. ASSUME NEW n \in 1..N
      PROVE  \A i \in 1..Len(ready[n]) :
                \E k \in 1..Len(s) :
                   k = lo[n] + i - 1 /\ lo[n] <= k /\ k <= hi[n] /\ ready[n][i] = s[k]
  <2>1. lo[n] \in 1..Len(s) /\ hi[n] \in 1..Len(s) /\ ready[n] = SubSeq(s, lo[n], hi[n])
    BY <1>6
  <2> DEFINE a == lo[n]
             z == hi[n]
             b == ready[n]
  <2> HIDE DEF a, z, b
  <2>2. a \in 1..Len(s) /\ z \in 1..Len(s) /\ b = SubSeq(s, a, z)
    BY <2>1 DEF a, z, b
  <2>3. ASSUME NEW i \in 1..Len(b)
        PROVE  \E k \in 1..Len(s) : k = a + i - 1 /\ a <= k /\ k <= z /\ b[i] = s[k]
    <3>1. a + i - 1 \in 1..Len(s) /\ a <= a + i - 1 /\ a + i - 1 <= z /\ b[i] = s[a + i - 1]
      BY <1>2, <2>2
    <3> QED
      BY <3>1
  <2> QED
    BY <2>3 DEF a, z, b
<1> HIDE DEF N
<1>8. ASSUME NEW n \in 1..N, NEW i \in 1..Len(ready[n]) PROVE ready[n][i] \in S
  <2>1. PICK k \in 1..Len(s) : ready[n][i] = s[k]
    BY <1>7
  <2> QED
    BY <1>1, <2>1
<1>9. ASSUME NEW n \in 1..N, NEW m \in 1..N, NEW i \in 1..Len(ready[n]), NEW j \in 1..Len(ready[m]),
             ready[n][i] = ready[m][j]
      PROVE  n = m /\ i = j
  <2>1. PICK k \in 1..Len(s) :
           k = lo[n] + i - 1 /\ lo[n] <= k /\ k <= hi[n] /\ ready[n][i] = s[k]
    BY <1>7
  <2>2. PICK l \in 1..Len(s) :
           l = lo[m] + j - 1 /\ lo[m] <= l /\ l <= hi[m] /\ ready[m][j] = s[l]
    BY <1>7
  <2>3. lo[n] \in Int /\ hi[n] \in Int /\ lo[m] \in Int /\ hi[m] \in Int /\ k = l
    <3>1. lo[n] \in 1..Len(s) /\ hi[n] \in 1..Len(s) /\ lo[m] \in 1..Len(s) /\ hi[m] \in 1..Len(s)
      OBVIOUS
    <3>2. s[k] = s[l]
      BY <1>9, <2>1, <2>2
    <3>3. k = l
      BY <1>3, <3>2
    <3> QED
      BY <3>1, <3>3
  <2>4. ~(n < m) /\ ~(m < n)
    <3>1. n < m => hi[n] < lo[m]
      BY <1>6
    <3>2. m < n => hi[m] < lo[n]
      BY <1>6
    <3> QED
      BY <2>1, <2>2, <2>3, <3>1, <3>2
  <2>5. n = m
    BY <1>5, <2>4
  <2> QED
    BY <2>1, <2>2, <2>3, <2>5
<1> QED
  BY <1>5, <1>6, <1>8, <1>9 DEF N, BatchesOf, ready, s

LEMMA PassInv == AssemblyInv /\ Pass => AssemblyInv'
<1> SUFFICES ASSUME AssemblyInv, Pass PROVE AssemblyInv'
  OBVIOUS
<1>1. PICK ready : /\ ready = ReadyBatches(RoomOrder(waiting), now)
                   /\ batches' = batches \o ready
                   /\ waiting' = waiting \ UNION {ToSet(ready[n]) : n \in DOMAIN ready}
  BY DEF Pass
<1> DEFINE L == Len(batches)
           M == Len(ready)
<1>2. /\ ready \in Seq(Seq(RoomChunk))
      /\ \A n \in 1..M : Fits(ready[n]) /\ \A i \in 1..Len(ready[n]) : ready[n][i] \in waiting
      /\ \A n, m \in 1..M : \A i \in 1..Len(ready[n]), j \in 1..Len(ready[m]) :
            ready[n][i] = ready[m][j] => n = m /\ i = j
  <2>1. waiting \in SUBSET RoomChunk
    BY DEF AssemblyInv
  <2>2. BatchesOf(ready, waiting)
    BY <1>1, <2>1, ReadyOnce
  <2> QED
    BY <2>2 DEF BatchesOf
<1> DEFINE Parts == Seq(RoomChunk)
<1>3. batches \in Seq(Parts) /\ ready \in Seq(Parts)
  BY <1>2 DEF AssemblyInv
<1>4. /\ \A n \in 1..L : DOMAIN batches[n] = 1..Len(batches[n])
      /\ \A n \in 1..M : DOMAIN ready[n] = 1..Len(ready[n])
  BY <1>3
<1> HIDE DEF Parts
<1>5. /\ batches' \in Seq(Parts) /\ L \in Nat /\ M \in Nat /\ Len(batches') = L + M
      /\ DOMAIN batches = 1..L /\ DOMAIN ready = 1..M /\ DOMAIN batches' = 1..(L + M)
      /\ \A n \in 1..L : batches'[n] = batches[n]
      /\ \A n \in (L + 1)..(L + M) : n - L \in 1..M /\ batches'[n] = ready[n - L]
  BY <1>1, <1>3
<1> HIDE DEF L, M
<1>6. /\ \A n, m \in 1..L : \A i \in DOMAIN batches[n], j \in DOMAIN batches[m] :
            batches[n][i] = batches[m][j] => n = m /\ i = j
      /\ \A n \in 1..L : \A i \in DOMAIN batches[n] : batches[n][i] \notin waiting
  <2>1. \A n \in 1..L : \A i \in DOMAIN batches[n] : batches[n][i] \in Batched
    BY <1>5 DEF Batched, ToSet
  <2> QED
    BY <1>5, <2>1 DEF AssemblyInv, BatchedOnce
<1>7. ASSUME NEW n \in 1..(L + M), NEW m \in 1..(L + M),
             NEW i \in DOMAIN batches'[n], NEW j \in DOMAIN batches'[m],
             batches'[n][i] = batches'[m][j]
      PROVE  n = m /\ i = j
  <2>1. CASE n \in 1..L /\ m \in 1..L
    BY <1>5, <1>6, <1>7, <2>1
  <2>2. CASE n \in 1..L /\ m \in (L + 1)..(L + M)
    BY <1>2, <1>4, <1>5, <1>6, <1>7, <2>2
  <2>3. CASE n \in (L + 1)..(L + M) /\ m \in 1..L
    BY <1>2, <1>4, <1>5, <1>6, <1>7, <2>3
  <2>4. CASE n \in (L + 1)..(L + M) /\ m \in (L + 1)..(L + M)
    <3>1. PICK k \in 1..M : k = n - L /\ batches'[n] = ready[k]
      BY <1>5, <2>4
    <3>2. PICK l \in 1..M : l = m - L /\ batches'[m] = ready[l]
      BY <1>5, <2>4
    <3>3. i \in 1..Len(ready[k]) /\ j \in 1..Len(ready[l]) /\ ready[k][i] = ready[l][j]
      BY <1>4, <1>7, <3>1, <3>2
    <3>4. k = l /\ i = j
      BY <1>2, <3>3
    <3> QED
      BY <1>5, <3>1, <3>2, <3>4
  <2> QED
    BY <1>5, <2>1, <2>2, <2>3, <2>4
<1>8. ASSUME NEW c \in waiting', c \in Batched' PROVE FALSE
  <2>1. PICK n \in 1..(L + M) : \E i \in DOMAIN batches'[n] : batches'[n][i] = c
    BY <1>5, <1>8 DEF Batched, ToSet
  <2>2. CASE n \in 1..L
    BY <1>1, <1>5, <1>6, <2>1, <2>2
  <2>3. CASE n \in (L + 1)..(L + M)
    <3>1. c \in UNION {ToSet(ready[k]) : k \in DOMAIN ready}
      BY <1>5, <2>1, <2>3 DEF ToSet
    <3> QED
      BY <1>1, <3>1
  <2> QED
    BY <1>5, <2>2, <2>3
<1>9. \A n \in 1..(L + M) : Fits(batches'[n])
  <2> TAKE n \in 1..(L + M)
  <2>1. CASE n \in 1..L
    BY <1>5, <2>1 DEF AssemblyInv, L
  <2>2. CASE n \in (L + 1)..(L + M)
    BY <1>2, <1>5, <2>2
  <2> QED
    BY <1>5, <2>1, <2>2
<1> QED
  <2>1. BatchedOnce'
    BY <1>5, <1>7, <1>8 DEF BatchedOnce
  <2>2. waiting' \subseteq RoomChunk
    BY <1>1 DEF AssemblyInv
  <2> QED
    BY <1>5, <1>9, <2>1, <2>2 DEF AssemblyInv, Parts

LEMMA NextAssembly == AssemblyInv /\ [Next]_vars => AssemblyInv'
<1> SUFFICES ASSUME AssemblyInv, [Next]_vars PROVE AssemblyInv'
  OBVIOUS
<1>1. ASSUME NEW c \in RoomChunk, Arrive(c) PROVE AssemblyInv'
  <2>1. batches' = batches /\ waiting' = waiting \cup {c} /\ c \notin Batched
    BY <1>1 DEF Arrive, Registered
  <2>2. Batched' = Batched
    BY <2>1 DEF Batched
  <2> QED
    BY <2>1, <2>2 DEF AssemblyInv, BatchedOnce
<1>2. CASE UNCHANGED <<waiting, batches>>
  <2>1. Batched' = Batched
    BY <1>2 DEF Batched
  <2> QED
    BY <1>2, <2>1 DEF AssemblyInv, BatchedOnce
<1> QED
  BY <1>1, <1>2, PassInv DEF Next, Tick, vars

LEMMA AssemblyInductive == Spec => []AssemblyInv
BY InitAssembly, NextAssembly, PTL DEF Spec

\* No audio is published twice: however late and in whatever order chunks arrive and
\* whenever passes happen, a chunk is in one batch at most, once, and then no longer
\* waits (select_room_windows).
THEOREM BatchedOnceCorrect == Spec => []BatchedOnce
<1>1. AssemblyInv => BatchedOnce
  BY DEF AssemblyInv
<1> QED
  BY <1>1, AssemblyInductive, PTL

\* No batch is stitched over a gap (_group_contiguous_spans).
THEOREM NoGapCorrect == Spec => []NoGapInBatch
<1>1. AssemblyInv => NoGapInBatch
  BY DEF AssemblyInv, Fits, NoGapInBatch
<1> QED
  BY <1>1, AssemblyInductive, PTL

\* However much audio waits, a batch ends with the chunk that fills the window
\* (select_room_windows).
THEOREM BoundedCorrect == Spec => []BatchBounded
<1>1. AssemblyInv => BatchBounded
  BY DEF AssemblyInv, Fits, BatchBounded
<1> QED
  BY <1>1, AssemblyInductive, PTL

--------------------------------------------------------------------------------
(***************************************************************************)
(* The batches do not depend on when passes happen.  Both the chunks that  *)
(* wait at a pass, s, and all of them, f, are in order; while chunks       *)
(* arrive promptly, what is cut from s is what f begins with from the      *)
(* chunk after the last one cut before.                                    *)
(***************************************************************************)
Sorted(s) == s \in Seq(RoomChunk) /\ \A i, j \in 1..Len(s) : i < j => Earlier(s[i], s[j])

LEMMA EarlierOrders ==
    /\ \A c \in RoomChunk : ~Earlier(c, c)
    /\ \A c, d, e \in RoomChunk : Earlier(c, d) /\ Earlier(d, e) => Earlier(c, e)
    /\ \A c, d \in RoomChunk : c = d \/ Earlier(c, d) \/ Earlier(d, c)
    /\ \A c, d \in RoomChunk : Earlier(c, d) => c.start <= d.start
    /\ \A c, d \in RoomChunk : c.start < d.start => Earlier(c, d)
<1>1. /\ \A c \in RoomChunk : c.start \in Nat /\ c.end \in Nat /\ c.id \in Nat
      /\ \A c, d \in RoomChunk : c.id = d.id => c = d
  BY RoomWindowAssumption DEF RoomWindowAssumption
<1> QED
  BY <1>1, EarlierIs

LEMMA SortedIs ==
    ASSUME NEW s, Sorted(s), NEW i \in 1..Len(s), NEW j \in 1..Len(s)
    PROVE  /\ s[i] = s[j] <=> i = j
           /\ Earlier(s[i], s[j]) <=> i < j
           /\ i <= j => s[i].start <= s[j].start
<1>1. s[i] \in RoomChunk /\ s[j] \in RoomChunk /\ s[i].start \in Nat /\ s[j].start \in Nat
  BY ChunkTimes DEF Sorted
<1>2. (i < j => Earlier(s[i], s[j])) /\ (j < i => Earlier(s[j], s[i]))
  BY DEF Sorted
<1>3. i < j \/ j < i \/ i = j
  OBVIOUS
<1>4. ~Earlier(s[i], s[i]) /\ ~(Earlier(s[i], s[j]) /\ Earlier(s[j], s[i]))
  BY <1>1, EarlierOrders
<1> QED
  BY <1>1, <1>2, <1>3, <1>4, EarlierOrders

\* e is the last chunk that is cut off or left pending with chunk i: nothing before it
\* ends the span or fills the window, and it does, or is the last.
IsEnd(s, i, e) ==
    /\ e \in i..Len(s)
    /\ \A j \in i..(e - 1) : Contiguous(s[j], s[j + 1]) /\ Length(s, i, j) < RoomWindow
    /\ Length(s, i, e) >= RoomWindow \/ e = Len(s) \/ ~Contiguous(s[e], s[e + 1])

LEMMA EndIsEnd ==
    ASSUME NEW s \in Seq(RoomChunk), NEW i \in 1..Len(s)
    PROVE  /\ IsEnd(s, i, End(s, i))
           /\ \A time \in Int :
                 Cuts(s, i, time) <=> \/ Length(s, i, End(s, i)) >= RoomWindow
                                      \/ time - s[End(s, i)].end >= IdleFlush
<1> DEFINE last == SpanEnd(s, i)
           closed == ClosedBy(s, i, last)
           e == End(s, i)
           T == {j \in i..Len(s) : j = Len(s) \/ ~Contiguous(s[j], s[j + 1])}
<1>1. last \in i..Len(s) /\ \A j \in i..(last - 1) : Contiguous(s[j], s[j + 1])
  BY SpanEndIs
<1>2. last = Len(s) \/ ~Contiguous(s[last], s[last + 1])
  <2>1. T \in SUBSET Nat /\ Len(s) \in T
    OBVIOUS
  <2>2. Min(T) \in T /\ last = Min(T)
    BY <2>1, MinIs DEF SpanEnd
  <2> HIDE DEF last
  <2> QED
    BY <2>2
<1>3. \A n \in i..Len(s) : Length(s, i, n) \in Int
  BY LengthIs
<1>4. closed \in SUBSET Nat /\ closed = {n \in i..last : Length(s, i, n) >= RoomWindow}
  BY <1>1 DEF ClosedBy
<1>5. e = IF closed # {} THEN Min(closed) ELSE last
  BY DEF End
<1>6. RoomWindow \in Int
  BY RoomWindowAssumption DEF RoomWindowAssumption
<1>7. CASE closed # {}
  <2>1. e \in closed /\ \A k \in closed : e <= k
    BY <1>4, <1>5, <1>7, MinIs
  <2> HIDE DEF last, closed, e
  <2>2. e \in i..last /\ Length(s, i, e) >= RoomWindow
    BY <1>4, <2>1
  <2>3. ASSUME NEW j \in i..(e - 1) PROVE Contiguous(s[j], s[j + 1]) /\ Length(s, i, j) < RoomWindow
    <3>1. j \in i..(last - 1) /\ j \in i..last /\ j \notin closed /\ j \in i..Len(s)
      BY <1>1, <2>1, <2>2
    <3> QED
      BY <1>1, <1>3, <1>4, <1>6, <3>1
  <2>4. \A time \in Int : Cuts(s, i, time)
    BY <1>7 DEF Cuts, closed, last
  <2> QED
    BY <1>1, <2>2, <2>3, <2>4 DEF IsEnd, e
<1>8. CASE closed = {}
  <2>1. e = last
    BY <1>5, <1>8
  <2> HIDE DEF last, closed, e
  <2>2. ASSUME NEW j \in i..last PROVE Length(s, i, j) < RoomWindow
    <3>1. j \notin closed /\ j \in i..Len(s)
      BY <1>1, <1>8
    <3> QED
      BY <1>3, <1>4, <1>6, <3>1
  <2>3. \A time \in Int : Cuts(s, i, time) <=> time - s[last].end >= IdleFlush
    BY <1>8 DEF Cuts, Idle, closed, last
  <2>4. ~(Length(s, i, e) >= RoomWindow)
    BY <1>1, <1>3, <1>6, <2>1, <2>2
  <2>5. \A j \in i..(e - 1) : j \in i..last
    BY <1>1, <2>1
  <2>6. IsEnd(s, i, e)
    BY <1>1, <1>2, <2>1, <2>2, <2>5 DEF IsEnd
  <2> QED
    BY <2>1, <2>3, <2>4, <2>6 DEF e
<1> QED
  BY <1>7, <1>8

LEMMA OneEnd ==
    ASSUME NEW s \in Seq(RoomChunk), NEW i \in 1..Len(s), NEW e, IsEnd(s, i, e)
    PROVE  End(s, i) = e
<1> DEFINE d == End(s, i)
<1>1. IsEnd(s, i, d)
  BY EndIsEnd
<1> HIDE DEF d
<1>2. d \in i..Len(s) /\ e \in i..Len(s) /\ RoomWindow \in Int
  BY <1>1, RoomWindowAssumption DEF IsEnd, RoomWindowAssumption
<1>3. Length(s, i, d) \in Int /\ Length(s, i, e) \in Int
  BY <1>2, LengthIs
<1>4. ~(d < e)
  <2> SUFFICES ASSUME d < e PROVE FALSE
    OBVIOUS
  <2>1. d \in i..(e - 1) /\ d # Len(s)
    BY <1>2
  <2> QED
    BY <1>1, <1>2, <1>3, <2>1 DEF IsEnd
<1>5. ~(e < d)
  <2> SUFFICES ASSUME e < d PROVE FALSE
    OBVIOUS
  <2>1. e \in i..(d - 1) /\ e # Len(s)
    BY <1>2
  <2> QED
    BY <1>1, <1>2, <1>3, <2>1 DEF IsEnd
<1> QED
  BY <1>2, <1>4, <1>5 DEF d

\* f from k on and s from i on are the same up to the n-th after these.
Same(f, k, s, i, n) == \A x \in 0..n : f[k + x] = s[i + x]

LEMMA SameLength ==
    ASSUME NEW s, NEW f, NEW i \in Nat, NEW k \in Nat, NEW n \in Nat, Same(f, k, s, i, n)
    PROVE  Length(f, k, k + n) = Length(s, i, i + n)
<1>0. \A x \in 0..n : f[k + x] = s[i + x]
  BY DEF Same
<1> DEFINE E == {f[j].end : j \in k..(k + n)}
           D == {s[j].end : j \in i..(i + n)}
<1>1. ASSUME NEW j \in k..(k + n) PROVE f[j].end \in D
  <2>1. j - k \in 0..n /\ k + (j - k) = j /\ i + (j - k) \in i..(i + n)
    OBVIOUS
  <2>2. f[j] = s[i + (j - k)]
    BY <1>0, <2>1
  <2> QED
    BY <2>1, <2>2
<1>2. ASSUME NEW j \in i..(i + n) PROVE s[j].end \in E
  <2>1. j - i \in 0..n /\ i + (j - i) = j /\ k + (j - i) \in k..(k + n)
    OBVIOUS
  <2>2. s[j] = f[k + (j - i)]
    BY <1>0, <2>1
  <2> QED
    BY <2>1, <2>2
<1>3. E = D
  BY <1>1, <1>2
<1>4. f[k] = s[i]
  <2>1. 0 \in 0..n /\ k + 0 = k /\ i + 0 = i
    OBVIOUS
  <2> QED
    BY <1>0, <2>1
<1> HIDE DEF E, D
<1> QED
  BY <1>3, <1>4 DEF Length, E, D

\* The part of s up to e is in f from k on, and f has nothing else before the last of it.
Covers(f, k, s, i, e) ==
    /\ \A j \in i..e : \E m \in k..Len(f) : f[m] = s[j]
    /\ \A m \in k..Len(f) : Earlier(f[m], s[e]) => \E j \in i..e : s[j] = f[m]

LEMMA SameStart ==
    ASSUME NEW f, Sorted(f), NEW s, Sorted(s),
           NEW k \in 1..(Len(f) + 1), NEW i \in 1..Len(s), NEW e \in i..Len(s),
           NEW n \in Nat, e = i + n, Covers(f, k, s, i, e)
    PROVE  k + n <= Len(f) /\ Same(f, k, s, i, n)
<1> DEFINE At(x) == k + x <= Len(f) /\ f[k + x] = s[i + x]
           Bad == {y \in 1..(n + 1) : ~At(y - 1)}
<1>0. /\ \A j \in i..e : \E m \in k..Len(f) : f[m] = s[j]
      /\ \A m \in k..Len(f) : Earlier(f[m], s[e]) => \E j \in i..e : s[j] = f[m]
  BY DEF Covers
<1>1. Len(f) \in Nat /\ Len(s) \in Nat /\ n + 1 \in Nat
  BY DEF Sorted
<1>2. Bad = {}
  <2> SUFFICES ASSUME Bad # {} PROVE FALSE
    OBVIOUS
  <2>1. PICK y \in 1..(n + 1) : y \in Bad /\ \A z \in 1..(y - 1) : z \notin Bad
    <3>1. Bad \in SUBSET (1..(n + 1))
      OBVIOUS
    <3> HIDE DEF Bad
    <3> QED
      BY <1>1, <3>1, FirstOf
  <2> DEFINE l == y - 1
  <2>2. l \in 0..n /\ ~At(l) /\ i + l \in i..e
    BY <2>1
  <2>3. ASSUME NEW x \in 0..(l - 1) PROVE k + x <= Len(f) /\ f[k + x] = s[i + x]
    <3>1. x + 1 \in 1..(y - 1) /\ x + 1 \in 1..(n + 1) /\ (x + 1) - 1 = x
      BY <2>2
    <3>2. At((x + 1) - 1)
      BY <2>1, <3>1
    <3> QED
      BY <3>1, <3>2
  <2> HIDE DEF l, Bad
  <2>4. PICK m \in k..Len(f) : f[m] = s[i + l]
    BY <1>0, <2>2
  <2>5. m >= k + l
    <3> SUFFICES ASSUME m < k + l PROVE FALSE
      BY <1>1, <2>2
    <3>1. m - k \in 0..(l - 1) /\ k + (m - k) = m
      BY <1>1, <2>2
    <3> DEFINE x == m - k
    <3> HIDE DEF x
    <3>2. x \in 0..(l - 1) /\ k + x = m
      BY <3>1 DEF x
    <3>3. f[m] = s[i + x]
      BY <2>3, <3>2
    <3>4. i + x \in 1..Len(s) /\ i + l \in 1..Len(s)
      BY <1>1, <2>2, <3>2
    <3> DEFINE a == i + x
               b == i + l
    <3>5. a \in 1..Len(s) /\ b \in 1..Len(s) /\ s[a] = s[b]
      BY <2>4, <3>3, <3>4
    <3>6. a # b
      BY <2>2, <3>2
    <3> HIDE DEF a, b
    <3> QED
      BY <3>5, <3>6, SortedIs
  <2>6. m # k + l
    BY <2>2, <2>4
  <2>7. k + l \in k..Len(f) /\ k + l \in 1..Len(f) /\ m \in 1..Len(f) /\ k + l < m /\ k + l <= Len(f)
    BY <1>1, <2>2, <2>4, <2>5, <2>6
  <2>8. Earlier(f[k + l], s[i + l])
    BY <2>4, <2>7, SortedIs
  <2>9. f[k + l] \in RoomChunk /\ s[i + l] \in RoomChunk /\ s[e] \in RoomChunk
    BY <2>2, <2>7 DEF Sorted
  <2>10. Earlier(f[k + l], s[e])
    <3>1. CASE i + l = e
      BY <2>8, <3>1
    <3>2. CASE i + l # e
      <4>1. i + l \in 1..Len(s) /\ e \in 1..Len(s) /\ i + l < e
        BY <2>2, <3>2
      <4>2. Earlier(s[i + l], s[e])
        BY <4>1, SortedIs
      <4> QED
        BY <2>8, <2>9, <4>2, EarlierOrders
    <3> QED
      BY <3>1, <3>2
  <2>11. PICK j \in i..e : s[j] = f[k + l]
    BY <1>0, <2>7, <2>10
  <2>12. j \in 1..Len(s) /\ i + l \in 1..Len(s) /\ j < i + l
    <3>1. j \in 1..Len(s) /\ i + l \in 1..Len(s)
      BY <2>2
    <3> QED
      BY <2>8, <2>11, <3>1, SortedIs
  <2> DEFINE x == j - i
  <2>13. x \in 0..(l - 1) /\ i + x = j
    BY <2>2, <2>12
  <2> HIDE DEF x
  <2>14. f[k + x] = s[j]
    BY <2>3, <2>13
  <2> DEFINE a == k + x
             b == k + l
  <2>15. a \in 1..Len(f) /\ b \in 1..Len(f) /\ a # b
    <3>1. x \in Nat /\ x < l /\ k \in Nat /\ l \in Nat /\ k >= 1
      BY <1>1, <2>2, <2>13
    <3>2. k + x < k + l /\ k + x >= 1 /\ k + x \in Nat
      BY <3>1
    <3> QED
      BY <1>1, <2>7, <3>1, <3>2
  <2>16. f[a] = f[b]
    BY <2>11, <2>14
  <2> HIDE DEF a, b
  <2> QED
    BY <2>15, <2>16, SortedIs
<1>3. ASSUME NEW x \in 0..n PROVE At(x)
  <2>1. x + 1 \in 1..(n + 1) /\ (x + 1) - 1 = x
    OBVIOUS
  <2>2. x + 1 \notin Bad
    BY <1>2
  <2>3. At((x + 1) - 1)
    BY <2>1, <2>2
  <2> QED
    BY <2>1, <2>3
<1>4. n \in 0..n
  OBVIOUS
<1> QED
  BY <1>3, <1>4 DEF Same

\* Chunks of s from i on are before and after u and follow each other without it.
LeftOut(u, s, i) ==
    \E j, l \in i..Len(s) : Earlier(s[j], u) /\ Earlier(u, s[l]) /\ Contiguous(s[j], s[l])

\* The sequence s of pending chunks goes on at i where all of them, f, goes on at k: what
\* f has from there on is pending or still to come, at the given time neither overdue
\* nor left out.
Aligned(s, i, f, k, time) ==
    /\ \A j \in i..Len(s) : s[j].end <= time /\ \E m \in k..Len(f) : f[m] = s[j]
    /\ \A m \in k..Len(f) : \/ time <= f[m].end + Prompt /\ ~LeftOut(f[m], s, i)
                            \/ \E j \in i..Len(s) : s[j] = f[m]

\* Chunks that have all ended and fill a window began at least a window ago.
LEMMA WindowReached ==
    ASSUME NEW s \in Seq(RoomChunk), NEW i \in 1..Len(s), NEW e \in i..Len(s), NEW time \in Nat,
           \A j \in i..Len(s) : s[j].end <= time, Length(s, i, e) >= RoomWindow
    PROVE  time >= s[i].start + RoomWindow
<1> DEFINE ends == {s[j].end : j \in i..e}
           g == [j \in i..e |-> s[j].end]
<1>1. \A j \in i..e : s[j].end \in Nat /\ s[j].end <= time
  <2> SUFFICES ASSUME NEW j \in i..e PROVE s[j].end \in Nat /\ s[j].end <= time
    OBVIOUS
  <2>1. j \in i..Len(s) /\ j \in 1..Len(s)
    OBVIOUS
  <2> QED
    BY <2>1, ChunkTimes
<1>2. IsFiniteSet(ends) /\ ends \in SUBSET Nat /\ s[i].end \in ends
  <2>1. g \in Surjection(i..e, ends)
    BY DEF Surjection
  <2>2. IsFiniteSet(i..e) /\ i \in i..e
    BY FS_Interval
  <2> QED
    BY <1>1, <2>1, <2>2, FS_Surjection
<1> DEFINE reached == Max(ends)
           first == s[i].start
<1>3. reached \in ends
  <2> HIDE DEF ends
  <2> QED
    BY <1>2, MaxIs
<1>4. reached \in Nat /\ reached <= time
  BY <1>1, <1>3
<1>5. Length(s, i, e) = reached - first /\ first \in Nat /\ RoomWindow \in Nat
  BY ChunkTimes, RoomWindowAssumption DEF Length, RoomWindowAssumption
<1> HIDE DEF reached, first
<1>6. time >= first + RoomWindow
  BY <1>4, <1>5
<1> QED
  BY <1>6 DEF first

\* A chunk that is still to come when a batch is cut comes after the batch.
LEMMA ToComeLater ==
    ASSUME NEW s, Sorted(s), NEW i \in 1..Len(s), NEW time \in Nat,
           \A j \in i..Len(s) : s[j].end <= time,
           Cuts(s, i, time),
           NEW u \in RoomChunk, time <= u.end + Prompt, ~LeftOut(u, s, i),
           \A j \in i..Len(s) : s[j] # u
    PROVE  /\ ~Earlier(u, s[End(s, i)])
           /\ Length(s, i, End(s, i)) >= RoomWindow \/ u.start > s[End(s, i)].end + RoomAdjacency
<1> DEFINE e == End(s, i)
<1>1. s \in Seq(RoomChunk) /\ IsEnd(s, i, e)
  BY EndIsEnd DEF Sorted
<1>2. Length(s, i, e) >= RoomWindow \/ time - s[e].end >= IdleFlush
  BY <1>1, EndIsEnd
<1> HIDE DEF e
<1>3. e \in i..Len(s) /\ \A j \in i..(e - 1) : Contiguous(s[j], s[j + 1])
  BY <1>1 DEF IsEnd
<1>4. /\ u.start \in Nat /\ u.end \in Nat /\ s[e] \in RoomChunk /\ s[i] \in RoomChunk
      /\ s[e].start \in Nat /\ s[e].end \in Nat /\ s[i].start \in Nat
      /\ s[e].start <= s[e].end
  BY <1>1, <1>3, RoomWindowAssumption, ChunkTimes, TimingAssumption
     DEF RoomWindowAssumption, TimingAssumption
<1>5. /\ IdleFlush \in Nat /\ RoomWindow \in Nat /\ RoomAdjacency \in Nat /\ Prompt \in Nat
      /\ u.end - u.start + RoomAdjacency + Prompt < IdleFlush
      /\ IdleFlush <= RoomWindow + RoomAdjacency
  BY RoomWindowAssumption, AssemblyAssumption, TimingAssumption
     DEF RoomWindowAssumption, AssemblyAssumption, TimingAssumption
<1>6. CASE time - s[e].end >= IdleFlush
  <2> DEFINE uStart == u.start
             uEnd == u.end
             last == s[e].end
             first == s[e].start
  <2>1. /\ uStart \in Nat /\ uEnd \in Nat /\ last \in Nat /\ first \in Nat /\ first <= last
        /\ uEnd - uStart + RoomAdjacency + Prompt < IdleFlush
        /\ time <= uEnd + Prompt /\ time - last >= IdleFlush
    BY <1>4, <1>5, <1>6
  <2> HIDE DEF uStart, uEnd, last, first
  <2>2. uStart > last + RoomAdjacency /\ first < uStart
    BY <1>5, <2>1
  <2>3. u.start > s[e].end + RoomAdjacency /\ s[e].start < u.start
    BY <2>2 DEF uStart, last, first
  <2>4. Earlier(s[e], u)
    BY <1>4, <2>3, EarlierOrders
  <2> QED
    BY <1>4, <2>3, <2>4, EarlierOrders DEF e
<1>7. CASE Length(s, i, e) >= RoomWindow
  <2>2. time >= s[i].start + RoomWindow
    BY <1>1, <1>3, <1>7, WindowReached
  <2>3. u.start > s[i].start
    <3> DEFINE uStart == u.start
               uEnd == u.end
               first == s[i].start
    <3>1. /\ uStart \in Nat /\ uEnd \in Nat /\ first \in Nat
          /\ uEnd - uStart + RoomAdjacency + Prompt < IdleFlush
          /\ time <= uEnd + Prompt /\ time >= first + RoomWindow
      BY <1>4, <1>5, <2>2
    <3> HIDE DEF uStart, uEnd, first
    <3>2. uStart > first
      BY <1>5, <3>1
    <3> QED
      BY <3>2 DEF uStart, first
  <2>4. ASSUME Earlier(u, s[e]) PROVE FALSE
    <3> DEFINE T == {y \in 1..(e - i + 1) : Earlier(u, s[i + y - 1])}
    <3>1. e - i + 1 \in T /\ e - i + 1 \in Nat
      BY <1>3, <2>4
    <3>2. PICK y \in 1..(e - i + 1) : y \in T /\ \A z \in 1..(y - 1) : z \notin T
      <4>1. T \in SUBSET (1..(e - i + 1))
        OBVIOUS
      <4> HIDE DEF T
      <4> QED
        BY <3>1, <4>1, FirstOf
    <3>3. Earlier(s[i], u) /\ ~Earlier(u, s[i])
      BY <1>4, <2>3, EarlierOrders
    <3>4. y > 1 /\ y - 1 \in 1..(y - 1) /\ y - 1 \in 1..(e - i + 1)
      BY <1>3, <3>2, <3>3
    <3> DEFINE j == i + (y - 1) - 1
    <3>5. j \in i..(e - 1) /\ j + 1 = i + y - 1 /\ j \in i..Len(s) /\ j \in 1..Len(s) /\ j + 1 \in 1..Len(s)
      BY <1>3, <3>4
    <3>6. Earlier(u, s[j + 1]) /\ ~Earlier(u, s[j])
      <4> HIDE DEF j
      <4>1. Earlier(u, s[j + 1])
        BY <3>2, <3>5
      <4>2. y - 1 \notin T
        BY <3>2, <3>4
      <4>3. i + (y - 1) - 1 = j
        BY DEF j
      <4> QED
        BY <3>4, <4>1, <4>2, <4>3
    <3> HIDE DEF j, T
    <3>7. s[j] \in RoomChunk /\ s[j + 1] \in RoomChunk /\ s[j] # u /\ Contiguous(s[j], s[j + 1])
      BY <1>1, <1>3, <3>5
    <3>8. Earlier(s[j], u)
      BY <3>6, <3>7, EarlierOrders
    <3> QED
      BY <1>3, <3>5, <3>6, <3>7, <3>8 DEF LeftOut
  <2> QED
    BY <1>7, <2>4 DEF e
<1> QED
  BY <1>2, <1>6, <1>7

\* What is cut off from the pending chunks is what all of the chunks begin with from there
\* on, and the rest goes on where they go on.
LEMMA CutAlike ==
    ASSUME NEW f, Sorted(f), NEW s, Sorted(s),
           NEW k \in 1..(Len(f) + 1), NEW i \in 1..Len(s), NEW time \in Nat,
           Aligned(s, i, f, k, time), Cuts(s, i, time)
    PROVE  /\ k \in 1..Len(f)
           /\ SubSeq(f, k, End(f, k)) = SubSeq(s, i, End(s, i))
           /\ Aligned(s, End(s, i) + 1, f, End(f, k) + 1, time)
<1> DEFINE e == End(s, i)
           n == e - i
           g == k + n
<1>1. s \in Seq(RoomChunk) /\ f \in Seq(RoomChunk) /\ IsEnd(s, i, e)
  BY EndIsEnd DEF Sorted
<1>2. /\ \A u \in RoomChunk : /\ time <= u.end + Prompt /\ ~LeftOut(u, s, i)
                              /\ \A j \in i..Len(s) : s[j] # u
            => /\ ~Earlier(u, s[e])
               /\ Length(s, i, e) >= RoomWindow \/ u.start > s[e].end + RoomAdjacency
  BY ToComeLater DEF Aligned
<1> HIDE DEF e
<1>3. /\ e \in i..Len(s) /\ n \in Nat /\ i + n = e /\ Len(f) \in Nat /\ Len(s) \in Nat
      /\ \A j \in i..(e - 1) : Contiguous(s[j], s[j + 1]) /\ Length(s, i, j) < RoomWindow
  BY <1>1 DEF IsEnd
<1>4. /\ \A j \in i..Len(s) : \E m \in k..Len(f) : f[m] = s[j]
      /\ \A m \in k..Len(f) : \/ time <= f[m].end + Prompt /\ ~LeftOut(f[m], s, i)
                              \/ \E j \in i..Len(s) : s[j] = f[m]
  BY DEF Aligned
<1>5. ASSUME NEW m \in k..Len(f), Earlier(f[m], s[e]) PROVE \E j \in i..e : s[j] = f[m]
  <2>1. f[m] \in RoomChunk
    BY <1>1
  <2>2. PICK j \in i..Len(s) : s[j] = f[m]
    BY <1>2, <1>4, <1>5, <2>1
  <2>3. j \in 1..Len(s) /\ e \in 1..Len(s)
    BY <1>3
  <2>4. j < e
    BY <1>5, <2>2, <2>3, SortedIs
  <2>5. j \in i..e
    BY <2>2, <2>4, <1>3
  <2> QED
    BY <2>2, <2>5
<1>6. g <= Len(f) /\ Same(f, k, s, i, n)
  <2>1. ASSUME NEW j \in i..e PROVE \E m \in k..Len(f) : f[m] = s[j]
    <3>1. j \in i..Len(s)
      BY <1>3
    <3> QED
      BY <1>4, <3>1
  <2>2. Covers(f, k, s, i, e)
    BY <1>5, <2>1 DEF Covers
  <2> HIDE DEF n
  <2> QED
    BY <1>3, <2>2, SameStart
<1> HIDE DEF n
<1>7. g \in k..Len(f) /\ k \in 1..Len(f) /\ g \in 1..Len(f) /\ f[g] = s[e]
  <2>1. n \in 0..n
    BY <1>3
  <2>2. f[k + n] = s[i + n]
    BY <1>6, <2>1 DEF Same
  <2>3. k \in Nat /\ k >= 1 /\ k + n <= Len(f)
    BY <1>6
  <2> QED
    BY <1>3, <2>2, <2>3
<1>8. ASSUME NEW x \in 0..n PROVE Length(f, k, k + x) = Length(s, i, i + x)
  <2>1. \A y \in 0..x : y \in 0..n
    BY <1>3
  <2>2. Same(f, k, s, i, x)
    BY <1>6, <2>1 DEF Same
  <2>3. i \in Nat /\ k \in Nat /\ x \in Nat
    BY <1>3
  <2> QED
    BY <2>2, <2>3, SameLength
<1>9. End(f, k) = g
  <2>1. ASSUME NEW j \in k..(g - 1) PROVE Contiguous(f[j], f[j + 1]) /\ Length(f, k, j) < RoomWindow
    <3> DEFINE x == j - k
    <3>1. /\ x \in 0..n /\ x + 1 \in 0..n /\ j = k + x /\ j + 1 = k + (x + 1)
          /\ i + x \in i..(e - 1) /\ i + (x + 1) = (i + x) + 1
      BY <1>3
    <3> HIDE DEF x
    <3>2. f[j] = s[i + x] /\ f[j + 1] = s[(i + x) + 1]
      BY <1>6, <3>1 DEF Same
    <3>3. Length(f, k, j) = Length(s, i, i + x)
      BY <1>8, <3>1
    <3> QED
      BY <1>3, <3>1, <3>2, <3>3
  <2>2. Length(f, k, g) = Length(s, i, e)
    <3>1. n \in 0..n
      BY <1>3
    <3> QED
      BY <1>3, <1>8, <3>1
  <2>3. Length(f, k, g) >= RoomWindow \/ g = Len(f) \/ ~Contiguous(f[g], f[g + 1])
    <3> SUFFICES ASSUME ~(Length(s, i, e) >= RoomWindow), g # Len(f)
                 PROVE  ~Contiguous(s[e], f[g + 1])
      BY <1>7, <2>2
    <3>1. g + 1 \in k..Len(f) /\ g + 1 \in 1..Len(f)
      BY <1>3, <1>7
    <3>2. CASE \A j \in i..Len(s) : s[j] # f[g + 1]
      <4> DEFINE u == f[g + 1]
      <4>1. u \in RoomChunk /\ time <= u.end + Prompt /\ ~LeftOut(u, s, i)
        BY <1>1, <1>4, <3>1, <3>2
      <4>2. \A j \in i..Len(s) : s[j] # u
        BY <3>2
      <4> HIDE DEF u
      <4>3. u.start > s[e].end + RoomAdjacency
        BY <1>2, <4>1, <4>2
      <4>4. u.start \in Nat /\ s[e].end \in Nat /\ RoomAdjacency \in Nat
        BY <1>1, <1>3, <4>1, ChunkTimes, RoomWindowAssumption DEF RoomWindowAssumption
      <4> DEFINE a == u.start
                 b == s[e].end
      <4>5. a > b + RoomAdjacency /\ a \in Nat /\ b \in Nat
        BY <4>3, <4>4
      <4> HIDE DEF a, b
      <4>6. ~(a <= b + RoomAdjacency)
        BY <4>4, <4>5
      <4> QED
        BY <4>6 DEF Contiguous, a, b, u
    <3>3. CASE \E j \in i..Len(s) : s[j] = f[g + 1]
      <4>1. PICK j \in i..Len(s) : s[j] = f[g + 1]
        BY <3>3
      <4>2. Earlier(f[g], f[g + 1])
        <5>1. g \in Nat /\ g + 1 \in 1..Len(f) /\ g < g + 1
          BY <1>7, <3>1
        <5> QED
          BY <1>7, <5>1 DEF Sorted
      <4>3. j \in 1..Len(s) /\ e \in 1..Len(s)
        BY <1>3
      <4>4. e < j
        BY <1>7, <4>1, <4>2, <4>3, SortedIs
      <4>5. e + 1 \in 1..Len(s) /\ e + 1 <= j /\ e # Len(s)
        BY <1>3, <4>3, <4>4
      <4>6. s[e + 1].start <= s[j].start
        BY <4>3, <4>5, SortedIs
      <4>7. ~Contiguous(s[e], s[e + 1])
        BY <1>1, <4>5 DEF IsEnd
      <4>8. /\ s[e].end \in Nat /\ s[e + 1].start \in Nat /\ s[j].start \in Nat
            /\ RoomAdjacency \in Nat
        BY <1>1, <4>3, <4>5, ChunkTimes, RoomWindowAssumption DEF RoomWindowAssumption
      <4> DEFINE a == s[e].end
                 b == s[e + 1].start
                 c == s[j].start
      <4>9. ~(b <= a + RoomAdjacency) /\ b <= c /\ a \in Nat /\ b \in Nat /\ c \in Nat
        BY <4>6, <4>7, <4>8 DEF Contiguous
      <4> HIDE DEF a, b, c
      <4>10. ~(c <= a + RoomAdjacency)
        BY <4>8, <4>9
      <4> QED
        BY <4>1, <4>10 DEF Contiguous, a, c
    <3> QED
      BY <3>2, <3>3
  <2>4. IsEnd(f, k, g)
    BY <1>7, <2>1, <2>3 DEF IsEnd
  <2> QED
    BY <1>1, <1>7, <2>4, OneEnd
<1>10. SubSeq(f, k, g) = SubSeq(s, i, e)
  <2>1. /\ SubSeq(f, k, g) = [x \in 1..(g - k + 1) |-> f[k + x - 1]]
        /\ SubSeq(s, i, e) = [x \in 1..(e - i + 1) |-> s[i + x - 1]]
    BY <1>1, <1>3, <1>7
  <2>2. g - k + 1 = n + 1 /\ e - i + 1 = n + 1
    BY <1>3, <1>7
  <2>3. ASSUME NEW x \in 1..(n + 1) PROVE f[k + x - 1] = s[i + x - 1]
    <3>1. x - 1 \in 0..n /\ k + x - 1 = k + (x - 1) /\ i + x - 1 = i + (x - 1)
      BY <1>3
    <3> QED
      BY <1>6, <3>1 DEF Same
  <2> HIDE DEF g
  <2> QED
    BY <2>1, <2>2, <2>3
<1>11. Aligned(s, e + 1, f, g + 1, time)
  <2>1. ASSUME NEW j \in (e + 1)..Len(s)
        PROVE  s[j].end <= time /\ \E m \in (g + 1)..Len(f) : f[m] = s[j]
    <3>1. j \in i..Len(s) /\ j \in 1..Len(s) /\ e \in 1..Len(s) /\ e < j
      BY <1>3
    <3>2. PICK m \in k..Len(f) : f[m] = s[j]
      BY <1>4, <3>1
    <3>3. Earlier(s[e], s[j]) /\ m \in 1..Len(f)
      BY <1>7, <3>1, SortedIs
    <3>4. g < m
      BY <1>7, <3>2, <3>3, SortedIs
    <3>5. m \in (g + 1)..Len(f)
      BY <1>7, <3>2, <3>4
    <3> QED
      BY <3>1, <3>2, <3>5 DEF Aligned
  <2>2. ASSUME NEW m \in (g + 1)..Len(f)
        PROVE  \/ time <= f[m].end + Prompt /\ ~LeftOut(f[m], s, e + 1)
               \/ \E j \in (e + 1)..Len(s) : s[j] = f[m]
    <3>1. m \in k..Len(f) /\ m \in 1..Len(f) /\ g < m
      BY <1>7
    <3>2. Earlier(f[g], f[m])
      BY <1>7, <3>1, SortedIs
    <3>3. ASSUME NEW j \in i..Len(s), s[j] = f[m] PROVE j \in (e + 1)..Len(s)
      <4>1. j \in 1..Len(s) /\ e \in 1..Len(s)
        BY <1>3
      <4>2. e < j
        BY <1>7, <3>2, <3>3, <4>1, SortedIs
      <4> QED
        BY <1>3, <4>1, <4>2
    <3>4. LeftOut(f[m], s, e + 1) => LeftOut(f[m], s, i)
      <4>1. \A j \in (e + 1)..Len(s) : j \in i..Len(s)
        BY <1>3
      <4> QED
        BY <4>1 DEF LeftOut
    <3> QED
      BY <1>4, <3>1, <3>3, <3>4
  <2> QED
    BY <2>1, <2>2 DEF Aligned
<1> QED
  BY <1>3, <1>7, <1>9, <1>10, <1>11 DEF e, n

\* As long after everything was recorded every span has been idle.
LEMMA LateCuts ==
    ASSUME NEW f \in Seq(RoomChunk), NEW k \in 1..Len(f)
    PROVE  BatchesFrom(f, MaxNow + IdleFlush)[k] =
              <<SubSeq(f, k, End(f, k))>> \o BatchesFrom(f, MaxNow + IdleFlush)[End(f, k) + 1]
<1> DEFINE e == End(f, k)
           time == MaxNow + IdleFlush
<1>1. e \in k..Len(f) /\ e \in 1..Len(f)
  BY EndIs
<1>2. /\ MaxNow \in Nat /\ MaxDelay \in Nat /\ IdleFlush \in Nat
      /\ f[e].end \in Nat /\ f[e].end + MaxDelay + IdleFlush <= MaxNow
  BY <1>1, ChunkTimes, AssemblyAssumption, RoomWindowAssumption
     DEF AssemblyAssumption, RoomWindowAssumption
<1> DEFINE last == f[e].end
<1>3. last \in Nat /\ last + MaxDelay + IdleFlush <= MaxNow
  BY <1>2
<1> HIDE DEF last, e
<1>4. time - last >= IdleFlush /\ time \in Int
  BY <1>2, <1>3
<1> HIDE DEF time
<1>5. Cuts(f, k, time)
  BY <1>4, EndIsEnd DEF last, e
<1>6. k \in 1..(Len(f) + 1) /\ ~(k > Len(f))
  OBVIOUS
<1> QED
  BY <1>5, <1>6, BatchesFromIs DEF e, time

\* Of chunks that began within the idle time nothing is cut off.
LEMMA NothingReady ==
    ASSUME NEW s, Sorted(s), NEW time \in Nat, NEW i \in 1..Len(s),
           \A j \in i..Len(s) : s[j].end <= time,
           s[i].start + IdleFlush > time + RoomAdjacency
    PROVE  BatchesFrom(s, time)[i] = <<>>
<1> DEFINE B == BatchesFrom(s, time)
           N == Len(s)
           Bad == {y \in 1..(N + 1) : N + 2 - y >= i /\ B[N + 2 - y] # <<>>}
<1>1. /\ s \in Seq(RoomChunk) /\ N \in Nat
      /\ IdleFlush \in Nat /\ RoomWindow \in Nat /\ RoomAdjacency \in Nat
      /\ IdleFlush <= RoomWindow + RoomAdjacency
  BY RoomWindowAssumption, TimingAssumption DEF Sorted, RoomWindowAssumption, TimingAssumption
<1>2. ASSUME NEW j \in i..N PROVE End(s, j) \in j..N /\ B[j] = B[End(s, j) + 1]
  <2> DEFINE e == End(s, j)
             first == s[i].start
             from == s[j].start
             last == s[e].end
             start == s[e].start
  <2>1. j \in 1..N /\ e \in j..N /\ e \in 1..N
    BY <1>1, EndIs
  <2>2. s[i].start <= s[j].start /\ s[j].start <= s[e].start /\ s[e] \in RoomChunk
    BY <1>1, <2>1, SortedIs
  <2>3. first \in Nat /\ from \in Nat /\ last \in Nat /\ start \in Nat
    BY <1>1, <2>1, ChunkTimes
  <2>4. first <= from /\ from <= start /\ start <= last /\ first + IdleFlush > time + RoomAdjacency
    BY <2>2, TimingAssumption DEF TimingAssumption
  <2> HIDE DEF first, from, last, start
  <2>5. ~(time - last >= IdleFlush)
    BY <1>1, <2>3, <2>4
  <2>6. ASSUME Length(s, j, e) >= RoomWindow PROVE FALSE
    <3>1. \A x \in j..N : s[x].end <= time
      BY <1>1
    <3>2. time >= from + RoomWindow
      BY <1>1, <2>1, <2>6, <3>1, WindowReached DEF from
    <3> QED
      BY <1>1, <2>3, <2>4, <3>2
  <2>7. ~Cuts(s, j, time)
    BY <1>1, <2>1, <2>5, <2>6, EndIsEnd DEF last
  <2>8. j \in 1..(N + 1) /\ ~(j > N)
    BY <1>1, <2>1
  <2> HIDE DEF e
  <2> QED
    BY <1>1, <2>1, <2>7, <2>8, BatchesFromIs DEF e
<1>3. B[N + 1] = <<>>
  <2>1. N + 1 \in 1..(N + 1) /\ N + 1 > N
    BY <1>1
  <2> QED
    BY <1>1, <2>1, BatchesFromIs
<1> HIDE DEF B
<1>4. Bad = {}
  <2> SUFFICES ASSUME Bad # {} PROVE FALSE
    OBVIOUS
  <2>1. PICK y \in 1..(N + 1) : y \in Bad /\ \A z \in 1..(y - 1) : z \notin Bad
    <3>1. Bad \in SUBSET (1..(N + 1)) /\ N + 1 \in Nat
      BY <1>1
    <3> HIDE DEF Bad
    <3> QED
      BY <3>1, FirstOf
  <2> DEFINE j == N + 2 - y
  <2>2. j \in i..(N + 1) /\ B[j] # <<>>
    BY <1>1, <2>1
  <2>3. j \in i..N
    BY <1>1, <1>3, <2>2
  <2> DEFINE e == End(s, j)
             z == N + 2 - (e + 1)
  <2>4. e \in j..N /\ B[e + 1] # <<>>
    BY <1>2, <2>2, <2>3
  <2> HIDE DEF e
  <2>5. z \in 1..(y - 1) /\ z \in 1..(N + 1) /\ N + 2 - z = e + 1 /\ e + 1 >= i
    <3>1. i \in Nat /\ i >= 1 /\ e \in Nat /\ e >= j /\ j >= i /\ e <= N /\ y \in Nat
      BY <1>1, <2>3, <2>4
    <3> QED
      BY <1>1, <3>1
  <2> HIDE DEF z
  <2>6. z \in Bad
    BY <2>4, <2>5
  <2> QED
    BY <2>1, <2>5, <2>6
<1>5. N + 2 - i \in 1..(N + 1) /\ N + 2 - (N + 2 - i) = i
  BY <1>1
<1>6. N + 2 - i \notin Bad
  BY <1>4
<1>7. N + 2 - (N + 2 - i) >= i
  BY <1>1
<1> HIDE DEF N
<1> QED
  BY <1>5, <1>6, <1>7 DEF B

Chunks(q) == UNION {ToSet(q[n]) : n \in DOMAIN q}

LEMMA ChunksMore ==
    ASSUME NEW p \in Seq(Seq(RoomChunk)), NEW q \in Seq(Seq(RoomChunk))
    PROVE  p \o q \in Seq(Seq(RoomChunk)) /\ Chunks(p \o q) = Chunks(p) \cup Chunks(q)
<1> DEFINE Parts == Seq(RoomChunk)
           L == Len(p)
           M == Len(q)
           b == p \o q
<1>1. p \in Seq(Parts) /\ q \in Seq(Parts)
  OBVIOUS
<1> HIDE DEF Parts
<1>2. /\ b \in Seq(Parts) /\ L \in Nat /\ M \in Nat /\ Len(b) = L + M
      /\ DOMAIN p = 1..L /\ DOMAIN q = 1..M /\ DOMAIN b = 1..(L + M)
      /\ \A n \in 1..L : b[n] = p[n]
      /\ \A n \in 1..M : b[L + n] = q[n]
  BY <1>1
<1> HIDE DEF L, M, b
<1>3. ASSUME NEW c \in Chunks(b) PROVE c \in Chunks(p) \cup Chunks(q)
  <2>1. PICK n \in 1..(L + M) : c \in ToSet(b[n])
    BY <1>2 DEF Chunks
  <2>2. CASE n \in 1..L
    BY <1>2, <2>1, <2>2 DEF Chunks
  <2>3. CASE n \in (L + 1)..(L + M)
    <3>1. n - L \in 1..M /\ L + (n - L) = n
      BY <1>2, <2>3
    <3>2. b[n] = q[n - L]
      BY <1>2, <3>1
    <3> QED
      BY <1>2, <2>1, <3>1, <3>2 DEF Chunks
  <2> QED
    BY <1>2, <2>2, <2>3
<1>4. ASSUME NEW c \in Chunks(p) PROVE c \in Chunks(b)
  <2>1. PICK n \in 1..L : c \in ToSet(p[n])
    BY <1>2 DEF Chunks
  <2>2. n \in 1..(L + M) /\ b[n] = p[n]
    BY <1>2
  <2> QED
    BY <1>2, <2>1, <2>2 DEF Chunks
<1>5. ASSUME NEW c \in Chunks(q) PROVE c \in Chunks(b)
  <2>1. PICK n \in 1..M : c \in ToSet(q[n])
    BY <1>2 DEF Chunks
  <2>2. L + n \in 1..(L + M) /\ b[L + n] = q[n]
    BY <1>2
  <2> QED
    BY <1>2, <2>1, <2>2 DEF Chunks
<1> QED
  BY <1>2, <1>3, <1>4, <1>5 DEF b, Parts

LEMMA JoinTwice ==
    ASSUME NEW p \in Seq(Seq(RoomChunk)), NEW q \in Seq(Seq(RoomChunk)), NEW r \in Seq(Seq(RoomChunk))
    PROVE  (p \o q) \o r = p \o (q \o r)
<1> DEFINE Parts == Seq(RoomChunk)
<1>1. p \in Seq(Parts) /\ q \in Seq(Parts) /\ r \in Seq(Parts)
  OBVIOUS
<1> HIDE DEF Parts
<1> QED
  BY <1>1

\* What one late pass over f cuts off from each position on.
All(f) == BatchesFrom(f, MaxNow + IdleFlush)

\* The batches b are what such a pass cuts from k to before l.
Reaches(b, f, k, l) ==
    /\ b \o All(f)[l] = All(f)[k]
    /\ Chunks(b) = {f[m] : m \in k..(l - 1)}

LEMMA AllIs ==
    ASSUME NEW f \in Seq(RoomChunk), NEW k \in 1..(Len(f) + 1)
    PROVE  /\ All(f)[k] \in Seq(Seq(RoomChunk))
           /\ <<>> \o All(f)[k] = All(f)[k]
           /\ Reaches(<<>>, f, k, k)
<1>1. All(f)[k] \in Seq(Seq(RoomChunk))
  BY BatchesCutUp DEF CutUp, All
<1>2. <<>> \o All(f)[k] = All(f)[k]
  <2> DEFINE Parts == Seq(RoomChunk)
             q == All(f)[k]
  <2>1. q \in Seq(Parts)
    BY <1>1
  <2> HIDE DEF Parts, q
  <2>2. <<>> \o q = q
    BY <2>1
  <2> QED
    BY <2>2 DEF q
<1>3. Chunks(<<>>) = {} /\ k..(k - 1) = {}
  BY DEF Chunks
<1> QED
  BY <1>1, <1>2, <1>3 DEF Reaches

\* What follows a batch of all reaches as far from where the batch begins.
LEMMA ReachesMore ==
    ASSUME NEW f \in Seq(RoomChunk), NEW k \in 1..Len(f), NEW g, g = End(f, k),
           NEW l \in (g + 1)..(Len(f) + 1), NEW b \in Seq(Seq(RoomChunk)), Reaches(b, f, g + 1, l)
    PROVE  Reaches(<<SubSeq(f, k, g)>> \o b, f, k, l)
<1> DEFINE p == SubSeq(f, k, g)
           one == <<p>>
           rest == All(f)[l]
<1>1. g \in k..Len(f) /\ p \in Seq(RoomChunk)
  BY EndIs
<1>2. one \in Seq(Seq(RoomChunk)) /\ rest \in Seq(Seq(RoomChunk))
  <2>1. l \in 1..(Len(f) + 1)
    BY <1>1
  <2> QED
    BY <1>1, <2>1, AllIs
<1>3. All(f)[k] = one \o All(f)[g + 1]
  BY LateCuts DEF All
<1>4. (one \o b) \o rest = All(f)[k]
  <2> HIDE DEF one, rest
  <2>1. (one \o b) \o rest = one \o (b \o rest)
    BY <1>2, JoinTwice
  <2>2. b \o rest = All(f)[g + 1]
    BY DEF Reaches, rest
  <2> QED
    BY <1>3, <2>1, <2>2
<1>5. Chunks(one \o b) = Chunks(one) \cup Chunks(b)
  <2> HIDE DEF one
  <2> QED
    BY <1>2, ChunksMore
<1>6. Chunks(one) = {f[m] : m \in k..g}
  <2>1. Chunks(one) = ToSet(p)
    <3> HIDE DEF p
    <3>1. DOMAIN one = {1} /\ one[1] = p
      OBVIOUS
    <3> HIDE DEF one
    <3> QED
      BY <3>1 DEF Chunks
  <2>2. Len(p) = g - k + 1 /\ DOMAIN p = 1..(g - k + 1) /\ \A n \in 1..(g - k + 1) : p[n] = f[k + n - 1]
    BY <1>1
  <2> HIDE DEF p
  <2>3. ASSUME NEW n \in 1..(g - k + 1) PROVE \E m \in k..g : f[m] = p[n]
    <3>1. k + n - 1 \in k..g
      BY <1>1
    <3> QED
      BY <2>2, <3>1
  <2>4. ASSUME NEW m \in k..g PROVE \E n \in 1..(g - k + 1) : f[m] = p[n]
    <3>1. m - k + 1 \in 1..(g - k + 1) /\ k + (m - k + 1) - 1 = m
      BY <1>1
    <3>2. p[m - k + 1] = f[m]
      BY <2>2, <3>1
    <3> QED
      BY <3>1, <3>2
  <2>5. ToSet(p) = {f[m] : m \in k..g}
    <3>1. ASSUME NEW c \in ToSet(p) PROVE c \in {f[m] : m \in k..g}
      <4>1. PICK n \in 1..(g - k + 1) : p[n] = c
        BY <2>2, <3>1 DEF ToSet
      <4> QED
        BY <2>3, <4>1
    <3>2. ASSUME NEW m \in k..g PROVE f[m] \in ToSet(p)
      <4>1. PICK n \in 1..(g - k + 1) : f[m] = p[n]
        BY <2>4
      <4> QED
        BY <2>2, <4>1 DEF ToSet
    <3> QED
      BY <3>1, <3>2
  <2> HIDE DEF one
  <2> QED
    BY <2>1, <2>5
<1>7. k..(l - 1) = (k..g) \cup ((g + 1)..(l - 1))
  BY <1>1
<1>8. Chunks(b) = {f[m] : m \in (g + 1)..(l - 1)}
  BY DEF Reaches
<1>9. Chunks(one \o b) = {f[m] : m \in k..(l - 1)}
  <2> HIDE DEF one
  <2> QED
    BY <1>5, <1>6, <1>7, <1>8
<1> QED
  BY <1>4, <1>9 DEF Reaches

\* A pass cuts off what comes next in the cutting of all.
LEMMA PassCuts ==
    ASSUME NEW f, Sorted(f), NEW s, Sorted(s), NEW time \in Nat
    PROVE  \A i \in 1..(Len(s) + 1) : \A k \in 1..(Len(f) + 1) :
              Aligned(s, i, f, k, time)
                 => \E l \in k..(Len(f) + 1) : Reaches(BatchesFrom(s, time)[i], f, k, l)
<1> DEFINE B == BatchesFrom(s, time)
           N == Len(s)
           Goes(i) == \A k \in 1..(Len(f) + 1) :
                         Aligned(s, i, f, k, time) => \E l \in k..(Len(f) + 1) : Reaches(B[i], f, k, l)
           Bad == {y \in 1..(N + 1) : ~Goes(N + 2 - y)}
<1>1. s \in Seq(RoomChunk) /\ f \in Seq(RoomChunk) /\ N \in Nat /\ Len(f) \in Nat
  BY DEF Sorted
<1>2. \A i \in 1..(N + 1) : B[i] \in Seq(Seq(RoomChunk))
  BY <1>1, BatchesCutUp DEF CutUp
<1>3. \A i \in 1..(N + 1) :
         B[i] = IF i > N THEN <<>>
                ELSE IF Cuts(s, i, time) THEN <<SubSeq(s, i, End(s, i))>> \o B[End(s, i) + 1]
                ELSE B[End(s, i) + 1]
  BY <1>1, BatchesFromIs
<1>4. ASSUME NEW i \in 1..(N + 1), B[i] = <<>> PROVE Goes(i)
  BY <1>1, <1>4, AllIs
<1>5. B[N + 1] = <<>>
  <2>1. N + 1 \in 1..(N + 1) /\ N + 1 > N
    BY <1>1
  <2> HIDE DEF B, N
  <2> QED
    BY <1>3, <2>1
<1>6. ASSUME NEW i \in 1..N, NEW k \in 1..(Len(f) + 1), Aligned(s, i, f, k, time), ~Cuts(s, i, time)
      PROVE  B[i] = <<>>
  <2> DEFINE e == End(s, i)
  <2>1. e \in i..N /\ IsEnd(s, i, e) /\ ~(Length(s, i, e) >= RoomWindow) /\ ~(time - s[e].end >= IdleFlush)
    BY <1>1, <1>6, EndIs, EndIsEnd
  <2>2. B[i] = B[e + 1]
    <3>1. i \in 1..(N + 1) /\ ~(i > N)
      BY <1>1
    <3> HIDE DEF B, N
    <3> QED
      BY <1>3, <1>6, <3>1
  <2> HIDE DEF e
  <2>3. CASE e = N
    BY <1>5, <2>2, <2>3
  <2>4. CASE e # N
    <3>1. e + 1 \in 1..N /\ e + 1 \in i..N /\ e \in 1..N
      BY <1>1, <2>1, <2>4
    <3>2. ~Contiguous(s[e], s[e + 1])
      BY <2>1, <2>4 DEF IsEnd
    <3>3. /\ s[e].end \in Nat /\ s[e + 1].start \in Nat
          /\ RoomAdjacency \in Nat /\ IdleFlush \in Nat
      BY <1>1, <3>1, ChunkTimes, RoomWindowAssumption DEF RoomWindowAssumption
    <3>4. \A j \in (e + 1)..N : s[j].end <= time
      <4> SUFFICES ASSUME NEW j \in (e + 1)..N PROVE s[j].end <= time
        OBVIOUS
      <4>1. j \in i..Len(s)
        BY <1>1, <2>1
      <4> QED
        BY <1>6, <4>1 DEF Aligned
    <3>5. s[e + 1].start + IdleFlush > time + RoomAdjacency
      <4> DEFINE a == s[e].end
                 b == s[e + 1].start
      <4>1. a \in Nat /\ b \in Nat /\ ~(b <= a + RoomAdjacency) /\ ~(time - a >= IdleFlush)
        BY <2>1, <3>2, <3>3 DEF Contiguous
      <4> HIDE DEF a, b
      <4>2. b + IdleFlush > time + RoomAdjacency
        BY <3>3, <4>1
      <4> QED
        BY <4>2 DEF b
    <3> DEFINE j == e + 1
    <3>6. j \in 1..N /\ s[j].start + IdleFlush > time + RoomAdjacency /\ \A x \in j..N : s[x].end <= time
      BY <3>1, <3>4, <3>5
    <3> HIDE DEF j
    <3>7. B[j] = <<>>
      BY <3>6, NothingReady
    <3> QED
      BY <2>2, <3>7 DEF j
  <2> QED
    BY <2>3, <2>4
<1> HIDE DEF B
<1>7. ASSUME NEW i \in 1..N, Cuts(s, i, time), Goes(End(s, i) + 1) PROVE Goes(i)
  <2> SUFFICES ASSUME NEW k \in 1..(Len(f) + 1), Aligned(s, i, f, k, time)
               PROVE  \E l \in k..(Len(f) + 1) : Reaches(B[i], f, k, l)
    OBVIOUS
  <2>0. Cuts(s, i, time) /\ i \in 1..Len(s)
    BY <1>7
  <2> HIDE DEF Goes
  <2> DEFINE e == End(s, i)
             g == End(f, k)
  <2>1. /\ k \in 1..Len(f)
        /\ SubSeq(f, k, g) = SubSeq(s, i, e)
        /\ Aligned(s, e + 1, f, g + 1, time)
    BY <2>0, CutAlike
  <2>2. e \in i..N /\ g \in k..Len(f) /\ g + 1 \in 1..(Len(f) + 1) /\ e + 1 \in 1..(N + 1)
    <3>1. e \in i..Len(s) /\ g \in k..Len(f)
      BY <1>1, <2>0, <2>1, EndIs
    <3> HIDE DEF e, g
    <3> QED
      BY <1>1, <2>1, <3>1
  <2>3. B[i] = <<SubSeq(f, k, g)>> \o B[e + 1]
    <3>1. i \in 1..(N + 1) /\ ~(i > N)
      BY <1>1
    <3> HIDE DEF g, N
    <3> QED
      BY <1>3, <2>0, <2>1, <3>1
  <2>4. PICK l \in (g + 1)..(Len(f) + 1) : Reaches(B[e + 1], f, g + 1, l)
    <3> HIDE DEF g, N
    <3> QED
      BY <1>7, <2>1, <2>2 DEF Goes
  <2> HIDE DEF e, g
  <2>5. Reaches(<<SubSeq(f, k, g)>> \o B[e + 1], f, k, l)
    BY <1>1, <1>2, <2>1, <2>2, <2>4, ReachesMore DEF g
  <2>6. l \in k..(Len(f) + 1)
    BY <1>1, <2>2, <2>4
  <2> QED
    BY <2>3, <2>5, <2>6
<1>8. ASSUME NEW i \in 1..N, ~Cuts(s, i, time) PROVE Goes(i)
  <2> SUFFICES ASSUME NEW k \in 1..(Len(f) + 1), Aligned(s, i, f, k, time)
               PROVE  \E l \in k..(Len(f) + 1) : Reaches(B[i], f, k, l)
    OBVIOUS
  <2>1. B[i] = <<>>
    BY <1>6, <1>8
  <2>2. i \in 1..(N + 1)
    BY <1>1
  <2>3. Goes(i)
    BY <1>4, <2>1, <2>2
  <2> QED
    BY <2>3
<1>9. Bad = {}
  <2> SUFFICES ASSUME Bad # {} PROVE FALSE
    OBVIOUS
  <2> HIDE DEF Goes
  <2>1. PICK y \in 1..(N + 1) : y \in Bad /\ \A z \in 1..(y - 1) : z \notin Bad
    <3>1. Bad \in SUBSET (1..(N + 1)) /\ N + 1 \in Nat
      BY <1>1
    <3> HIDE DEF Bad
    <3> QED
      BY <3>1, FirstOf
  <2> DEFINE i == N + 2 - y
  <2>2. i \in 1..(N + 1) /\ ~Goes(i)
    BY <1>1, <2>1
  <2>3. i \in 1..N
    <3>1. N + 1 \in 1..(N + 1)
      BY <1>1
    <3>2. Goes(N + 1)
      BY <1>4, <1>5, <3>1
    <3> HIDE DEF i
    <3>3. i # N + 1
      BY <2>2, <3>2
    <3> QED
      BY <1>1, <2>2, <3>3
  <2> DEFINE e == End(s, i)
             z == N + 2 - (e + 1)
  <2>4. e \in i..N
    BY <1>1, <2>3, EndIs
  <2> HIDE DEF e
  <2>5. z \in 1..(y - 1) /\ z \in 1..(N + 1) /\ N + 2 - z = e + 1
    <3>1. e \in Nat /\ e >= i /\ i >= 1 /\ e <= N /\ y \in Nat
      BY <1>1, <2>3, <2>4
    <3> QED
      BY <1>1, <3>1
  <2> HIDE DEF z, i
  <2>6. z \notin Bad
    BY <2>1, <2>5
  <2>7. Goes(e + 1)
    BY <2>5, <2>6
  <2> QED
    BY <1>7, <1>8, <2>2, <2>3, <2>7 DEF e
<1>10. ASSUME NEW i \in 1..(N + 1) PROVE Goes(i)
  <2> HIDE DEF Goes
  <2>1. N + 2 - i \in 1..(N + 1) /\ N + 2 - (N + 2 - i) = i
    BY <1>1
  <2> QED
    BY <1>9, <2>1
<1> QED
  BY <1>10 DEF B

LEMMA ReachesOn ==
    ASSUME NEW f \in Seq(RoomChunk), NEW k \in 1..(Len(f) + 1), NEW l \in k..(Len(f) + 1),
           NEW b \in Seq(Seq(RoomChunk)), NEW q \in Seq(Seq(RoomChunk)),
           Reaches(b, f, 1, k), Reaches(q, f, k, l)
    PROVE  Reaches(b \o q, f, 1, l)
<1> DEFINE rest == All(f)[l]
<1>1. rest \in Seq(Seq(RoomChunk))
  <2>1. l \in 1..(Len(f) + 1)
    OBVIOUS
  <2> QED
    BY <2>1, AllIs
<1>2. q \o rest = All(f)[k] /\ b \o All(f)[k] = All(f)[1]
  BY DEF Reaches
<1> HIDE DEF rest
<1>3. (b \o q) \o rest = b \o (q \o rest)
  BY <1>1, JoinTwice
<1>4. Chunks(b \o q) = Chunks(b) \cup Chunks(q)
  BY ChunksMore
<1>5. Chunks(b) = {f[m] : m \in 1..(k - 1)} /\ Chunks(q) = {f[m] : m \in k..(l - 1)}
  BY DEF Reaches
<1>6. 1..(l - 1) = (1..(k - 1)) \cup (k..(l - 1))
  OBVIOUS
<1>7. Chunks(b \o q) = {f[m] : m \in 1..(l - 1)}
  BY <1>4, <1>5, <1>6
<1> QED
  BY <1>2, <1>3, <1>7 DEF Reaches, rest

--------------------------------------------------------------------------------
\* All chunks of the room in order, and whether all of them have arrived promptly so far.
Whole == RoomOrder(RoomChunk)

\* Chunks of S are before and after c and follow each other without it.
LeftOutOf(c, S) == \E d, e \in S : Earlier(d, c) /\ Earlier(c, e) /\ Contiguous(d, e)

Timely ==
    ~late /\ \A c \in RoomChunk \ Registered :
                 now <= c.end + Prompt /\ ~LeftOutOf(c, Registered)

LEMMA LeftOutMore ==
    ASSUME NEW S, NEW T, S \subseteq T, NEW c, LeftOutOf(c, S)
    PROVE  LeftOutOf(c, T)
BY DEF LeftOutOf

\* The invariant: what waits has ended, and in time the batches are what one late pass cuts
\* up to some chunk.
TimingInv ==
    /\ now \in Nat
    /\ \A c \in waiting : c.end <= now
    /\ Timely => \E k \in 1..(Len(Whole) + 1) : Reaches(batches, Whole, 1, k)

LEMMA WholeIs == Sorted(Whole) /\ \A c \in RoomChunk : \E m \in 1..Len(Whole) : Whole[m] = c
BY RoomOrderIs DEF Whole, Sorted

LEMMA InitTiming == Init => TimingInv
<1> SUFFICES ASSUME Init PROVE TimingInv
  OBVIOUS
<1>1. Whole \in Seq(RoomChunk)
  BY WholeIs DEF Sorted
<1>2. 1 \in 1..(Len(Whole) + 1)
  BY <1>1
<1>3. Reaches(<<>>, Whole, 1, 1)
  BY <1>1, <1>2, AllIs
<1> QED
  BY <1>2, <1>3 DEF Init, TimingInv

LEMMA PassTiming == AssemblyInv /\ TimingInv /\ Pass => TimingInv'
<1> SUFFICES ASSUME AssemblyInv, TimingInv, Pass PROVE TimingInv'
  OBVIOUS
<1> DEFINE s == RoomOrder(waiting)
           f == Whole
<1>1. PICK ready : /\ ready = ReadyBatches(s, now)
                   /\ batches' = batches \o ready
                   /\ waiting' = waiting \ UNION {ToSet(ready[n]) : n \in DOMAIN ready}
  BY DEF Pass
<1>2. now' = now /\ late' = late /\ now \in Nat
  BY DEF Pass, TimingInv
<1>3. /\ waiting \in SUBSET RoomChunk
      /\ batches \in Seq(Seq(RoomChunk))
      /\ waiting \cap Batched = {}
  BY DEF AssemblyInv, BatchedOnce
<1>4. /\ Sorted(s) /\ s \in Seq(waiting)
      /\ \A c \in waiting : \E j \in 1..Len(s) : s[j] = c
  <2>1. /\ s \in Seq(waiting) /\ \A i, j \in 1..Len(s) : i < j => Earlier(s[i], s[j])
        /\ \A c \in waiting : \E j \in 1..Len(s) : s[j] = c
    BY <1>3, RoomOrderIs
  <2> HIDE DEF s
  <2>2. s \in Seq(RoomChunk)
    BY <1>3, <2>1
  <2> QED
    BY <2>1, <2>2 DEF Sorted
<1>5. /\ Sorted(f) /\ f \in Seq(RoomChunk)
      /\ \A c \in RoomChunk : \E m \in 1..Len(f) : f[m] = c
  BY WholeIs DEF Sorted
<1>6. ready \in Seq(Seq(RoomChunk)) /\ Chunks(ready) \subseteq waiting
  <2>1. BatchesOf(ready, waiting)
    BY <1>1, <1>3, ReadyOnce
  <2>2. /\ ready \in Seq(Seq(RoomChunk))
        /\ \A n \in 1..Len(ready) : \A i \in 1..Len(ready[n]) : ready[n][i] \in waiting
    BY <2>1 DEF BatchesOf
  <2>3. DOMAIN ready = 1..Len(ready) /\ \A n \in 1..Len(ready) : DOMAIN ready[n] = 1..Len(ready[n])
    <3> DEFINE Parts == Seq(RoomChunk)
    <3>1. ready \in Seq(Parts)
      BY <2>2
    <3>2. \A p \in Parts : DOMAIN p = 1..Len(p)
      OBVIOUS
    <3> HIDE DEF Parts
    <3> QED
      BY <3>1, <3>2
  <2> QED
    BY <2>2, <2>3 DEF Chunks, ToSet
<1>7. Batched = Chunks(batches) /\ Batched' = Chunks(batches')
  BY DEF Batched, Chunks
<1>8. Chunks(batches') = Chunks(batches) \cup Chunks(ready)
  BY <1>1, <1>3, <1>6, ChunksMore
<1>9. waiting' \subseteq waiting /\ Registered' = Registered
  <2>1. waiting' = waiting \ Chunks(ready)
    BY <1>1 DEF Chunks
  <2> QED
    BY <1>6, <1>7, <1>8, <2>1 DEF Registered
<1> HIDE DEF s, f
<1>10. ASSUME Timely' PROVE \E k \in 1..(Len(f) + 1) : Reaches(batches', f, 1, k)
  <2>1. Timely
    BY <1>2, <1>9, <1>10 DEF Timely
  <2>2. PICK k \in 1..(Len(f) + 1) : Reaches(batches, f, 1, k)
    BY <2>1 DEF TimingInv, f
  <2>3. Batched = {f[m] : m \in 1..(k - 1)}
    BY <1>7, <2>2 DEF Reaches
  <2>4. ASSUME NEW j \in 1..Len(s)
        PROVE  s[j].end <= now /\ \E m \in k..Len(f) : f[m] = s[j]
    <3>1. s[j] \in waiting /\ s[j] \in RoomChunk
      BY <1>3, <1>4
    <3>2. PICK m \in 1..Len(f) : f[m] = s[j]
      BY <1>5, <3>1
    <3>3. m \notin 1..(k - 1)
      BY <1>3, <2>3, <3>1, <3>2
    <3>4. m \in k..Len(f)
      BY <1>5, <3>3
    <3> QED
      BY <3>1, <3>2, <3>4 DEF TimingInv
  <2>5. ASSUME NEW m \in k..Len(f)
        PROVE  \/ now <= f[m].end + Prompt /\ ~LeftOut(f[m], s, 1)
               \/ \E j \in 1..Len(s) : s[j] = f[m]
    <3>1. m \in 1..Len(f) /\ f[m] \in RoomChunk
      BY <1>5
    <3>2. f[m] \notin Batched
      <4> SUFFICES ASSUME NEW x \in 1..(k - 1), f[x] = f[m] PROVE FALSE
        BY <2>3
      <4>1. x \in 1..Len(f) /\ x # m
        BY <1>5, <3>1
      <4> QED
        BY <1>5, <3>1, <4>1, SortedIs
    <3>3. CASE f[m] \in waiting
      BY <1>4, <3>3
    <3>4. CASE f[m] \notin waiting
      <4>1. f[m] \in RoomChunk \ Registered
        BY <3>1, <3>2, <3>4 DEF Registered
      <4>2. now <= f[m].end + Prompt /\ ~LeftOutOf(f[m], Registered)
        BY <2>1, <4>1 DEF Timely
      <4>3. \A j \in 1..Len(s) : s[j] \in Registered
        BY <1>4 DEF Registered
      <4>4. ~LeftOut(f[m], s, 1)
        BY <4>2, <4>3 DEF LeftOut, LeftOutOf
      <4> QED
        BY <4>2, <4>4
    <3> QED
      BY <3>3, <3>4
  <2>6. Aligned(s, 1, f, k, now)
    BY <2>4, <2>5 DEF Aligned
  <2>7. 1 \in 1..(Len(s) + 1)
    BY <1>4
  <2>8. PICK l \in k..(Len(f) + 1) : Reaches(BatchesFrom(s, now)[1], f, k, l)
    BY <1>2, <1>4, <1>5, <2>6, <2>7, PassCuts
  <2>9. Reaches(ready, f, k, l)
    BY <1>1, <2>8 DEF ReadyBatches
  <2>10. Reaches(batches', f, 1, l)
    BY <1>1, <1>3, <1>5, <1>6, <2>2, <2>9, ReachesOn
  <2>11. l \in 1..(Len(f) + 1)
    BY <1>5
  <2> QED
    BY <2>10, <2>11
<1>11. \A c \in waiting' : c.end <= now'
  BY <1>2, <1>9 DEF TimingInv
<1>12. Whole' = Whole
  BY DEF Whole
<1> QED
  BY <1>2, <1>10, <1>11, <1>12 DEF TimingInv, f

LEMMA NextTiming == AssemblyInv /\ TimingInv /\ [Next]_vars => TimingInv'
<1> SUFFICES ASSUME AssemblyInv, TimingInv, [Next]_vars PROVE TimingInv'
  OBVIOUS
<1>0. /\ now \in Nat /\ Prompt \in Nat /\ \A c \in RoomChunk : c.end \in Nat
      /\ Whole' = Whole
  BY AssemblyAssumption, RoomWindowAssumption
     DEF TimingInv, AssemblyAssumption, RoomWindowAssumption, Whole
<1>1. ASSUME batches' = batches, Timely' => Timely
      PROVE  Timely' => \E k \in 1..(Len(Whole') + 1) : Reaches(batches', Whole', 1, k)
  BY <1>0, <1>1 DEF TimingInv
<1>2. ASSUME NEW c \in RoomChunk, Arrive(c) PROVE TimingInv'
  <2>1. /\ now' = now /\ batches' = batches /\ waiting' = waiting \cup {c} /\ c.end <= now
        /\ late' = (late \/ now > c.end + Prompt \/ LeftOutOf(c, Registered))
    BY <1>2 DEF Arrive, Overtaken, LeftOutOf
  <2>2. Registered' = Registered \cup {c}
    BY <2>1 DEF Registered, Batched
  <2>3. ASSUME Timely' PROVE Timely
    <3>1. ~late /\ ~(now > c.end + Prompt) /\ ~LeftOutOf(c, Registered)
      BY <2>1, <2>3 DEF Timely
    <3>2. now <= c.end + Prompt
      BY <1>0, <3>1
    <3>3. ASSUME NEW d \in RoomChunk \ Registered, d # c
          PROVE  now <= d.end + Prompt /\ ~LeftOutOf(d, Registered)
      <4>1. d \in RoomChunk \ Registered'
        BY <2>2, <3>3
      <4>2. now <= d.end + Prompt /\ ~LeftOutOf(d, Registered')
        BY <2>1, <2>3, <4>1 DEF Timely
      <4> QED
        BY <2>2, <4>2, LeftOutMore
    <3> QED
      BY <3>1, <3>2, <3>3 DEF Timely
  <2>4. now' \in Nat /\ \A d \in waiting' : d.end <= now'
    BY <1>0, <2>1 DEF TimingInv
  <2> QED
    BY <1>1, <2>1, <2>3, <2>4 DEF TimingInv
<1>3. CASE Tick
  <2>1. now' = now + 1 /\ batches' = batches /\ waiting' = waiting /\ late' = late
    BY <1>3 DEF Tick
  <2>2. Registered' = Registered
    BY <2>1 DEF Registered, Batched
  <2>3. ASSUME Timely' PROVE Timely
    <3>1. ASSUME NEW c \in RoomChunk \ Registered
          PROVE  now <= c.end + Prompt /\ ~LeftOutOf(c, Registered)
      <4>1. now + 1 <= c.end + Prompt /\ c.end \in Nat /\ ~LeftOutOf(c, Registered)
        BY <1>0, <2>1, <2>2, <2>3 DEF Timely
      <4> DEFINE end == c.end
      <4> HIDE DEF end
      <4>2. now <= end + Prompt
        BY <1>0, <4>1 DEF end
      <4> QED
        BY <4>1, <4>2 DEF end
    <3> QED
      BY <2>1, <2>3, <3>1 DEF Timely
  <2>4. waiting \subseteq RoomChunk
    BY DEF AssemblyInv
  <2>5. ASSUME NEW c \in waiting PROVE c.end <= now + 1
    <3> DEFINE end == c.end
    <3>1. end \in Nat /\ end <= now
      BY <1>0, <2>4 DEF TimingInv
    <3> HIDE DEF end
    <3>2. end <= now + 1
      BY <1>0, <3>1
    <3> QED
      BY <3>2 DEF end
  <2> QED
    BY <1>0, <1>1, <2>1, <2>3, <2>5 DEF TimingInv
<1>4. CASE UNCHANGED vars
  <2>1. now' = now /\ batches' = batches /\ waiting' = waiting /\ late' = late
    BY <1>4 DEF vars
  <2>2. Registered' = Registered
    BY <2>1 DEF Registered, Batched
  <2> QED
    BY <1>1, <2>1, <2>2 DEF TimingInv, Timely
<1> QED
  BY <1>2, <1>3, <1>4, PassTiming DEF Next

\* As long as chunks arrive soon after they end, and none after two others that follow each
\* other without it, it does not matter when the passes happen or in which order the chunks
\* arrived: what has been cut is what one late pass over all of the audio cuts first
\* (select_room_windows over the passes of the worker).
THEOREM TimingCorrect == Spec => []TimingIndependent
<1>1. AssemblyInv /\ TimingInv => TimingIndependent
  <2> SUFFICES ASSUME AssemblyInv, TimingInv, Timely PROVE IsPrefix(batches, OneLatePass)
    BY DEF TimingIndependent, Timely, Overtaken, LeftOutOf
  <2> DEFINE Parts == Seq(RoomChunk)
             all == OneLatePass
  <2>1. PICK k \in 1..(Len(Whole) + 1) : Reaches(batches, Whole, 1, k)
    BY DEF TimingInv
  <2> DEFINE rest == All(Whole)[k]
  <2>2. rest \in Seq(Parts) /\ batches \in Seq(Parts)
    BY WholeIs, AllIs DEF Sorted, AssemblyInv
  <2>3. batches \o rest = all
    BY <2>1 DEF Reaches, OneLatePass, ReadyBatches, All, Whole
  <2> HIDE DEF Parts, all, rest
  <2>4. Len(batches) <= Len(all) /\ SubSeq(batches, 1, Len(batches)) = SubSeq(all, 1, Len(batches))
    BY <2>2, <2>3
  <2> QED
    BY <2>4 DEF IsPrefix, all
<1>2. AssemblyInv /\ TimingInv /\ [Next]_vars => TimingInv'
  BY NextTiming
<1> QED
  BY <1>1, <1>2, InitTiming, AssemblyInductive, PTL DEF Spec
================================================================================
