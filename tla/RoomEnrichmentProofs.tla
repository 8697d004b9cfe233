-------------------------- MODULE RoomEnrichmentProofs -------------------------
(***************************************************************************)
(* Theorems about RoomEnrichment, for any batches, any recorded sounds,    *)
(* any runs of any versions and any number of faults.                      *)
(***************************************************************************)
EXTENDS RoomEnrichment, Counting

--------------------------------------------------------------------------------
\* The utterances of a batch: finitely many, at natural times.

\* Recordings are put together one after the other.
LEMMA FlattenSteps ==
    ASSUME NEW X, NEW s \in Seq(Seq(X)), Len(s) # 0
    PROVE  \E f : /\ FlattenSeq(s) = f[Len(s)]
                  /\ f[1] = s[1]
                  /\ \A i \in 1..Len(s) : i # 1 => f[i] = f[i - 1] \o s[i]
<1> DEFINE n == Len(s)
           At(f, i) == IF i = 1 THEN s[i] ELSE f[i - 1] \o s[i]
           G(f) == [i \in 1..n |-> At(f, i)]
           Steps(k) == \E f : \A i \in 1..k : f[i] = At(f, i)
           flat == CHOOSE f : f = G(f)
<1>1. n \in Nat \ {0} /\ \A i \in 1..n : s[i] \in Seq(X)
  OBVIOUS
<1>2. FlattenSeq(s) = flat[n]
  BY DEF FlattenSeq
<1> HIDE DEF n
<1>3. Steps(n)
  <2> DEFINE None == {k \in 1..n : ~Steps(k)}
  <2> HIDE DEF Steps
  <2> SUFFICES ASSUME None # {} PROVE FALSE
    BY <1>1
  <2>1. PICK k \in 1..n : k \in None /\ \A j \in 1..(k - 1) : j \notin None
    BY <1>1, FirstOf
  <2>2. k = 1 \/ (k - 1 \in 1..n /\ Steps(k - 1))
    BY <1>1, <2>1
  <2>3. CASE k = 1
    <3> DEFINE f == [i \in 1..1 |-> s[1]]
    <3>1. \A i \in 1..1 : f[i] = At(f, i)
      OBVIOUS
    <3> HIDE DEF f, At
    <3>2. Steps(1)
      BY <3>1 DEF Steps
    <3> QED
      BY <2>1, <2>3, <3>2
  <2>4. CASE k # 1
    <3>1. PICK f : \A i \in 1..(k - 1) : f[i] = At(f, i)
      BY <2>2, <2>4 DEF Steps
    <3> DEFINE g == [i \in 1..k |-> IF i = k THEN f[k - 1] \o s[k] ELSE f[i]]
    <3>2. ASSUME NEW i \in 1..k PROVE g[i] = At(g, i)
      <4>1. CASE i = k
        <5>1. k - 1 \in 1..k /\ k - 1 # k /\ k \in 1..k
          BY <2>4
        <5>2. g[k] = f[k - 1] \o s[k]
          BY <5>1
        <5>3. g[k - 1] = f[k - 1]
          BY <5>1
        <5> HIDE DEF g
        <5> QED
          BY <2>4, <4>1, <5>2, <5>3
      <4>2. CASE i # k
        <5>1. i \in 1..(k - 1) /\ g[i] = f[i]
          BY <1>1, <4>2
        <5>2. i # 1 => g[i - 1] = f[i - 1]
          BY <1>1, <4>2
        <5> HIDE DEF g
        <5> QED
          BY <3>1, <5>1, <5>2
      <4> QED
        BY <4>1, <4>2
    <3> HIDE DEF g, At
    <3>3. Steps(k)
      BY <3>2 DEF Steps
    <3> QED
      BY <2>1, <3>3
  <2> QED
    BY <2>3, <2>4
<1>4. flat = G(flat)
  <2>1. PICK f : \A i \in 1..n : f[i] = At(f, i)
    BY <1>3
  <2> DEFINE h == G(f)
  <2>2. \A i \in 1..n : h[i] = f[i]
    <3> HIDE DEF At
    <3> QED
      BY <2>1
  <2> HIDE DEF h
  <2>3. ASSUME NEW i \in 1..n PROVE At(h, i) = At(f, i)
    <3>1. CASE i = 1
      BY <3>1
    <3>2. CASE i # 1
      <4>1. i - 1 \in 1..n
        BY <1>1, <3>2
      <4> QED
        BY <2>2, <3>2, <4>1
    <3> QED
      BY <3>1, <3>2
  <2> HIDE DEF At
  <2>4. h = G(h)
    BY <2>3 DEF h
  <2> QED
    BY <2>4
<1>5. \A i \in 1..n : flat[i] = At(flat, i)
  <2> HIDE DEF flat, At
  <2> QED
    BY <1>4
<1> HIDE DEF flat
<1>6. flat[1] = s[1] /\ \A i \in 1..n : i # 1 => flat[i] = flat[i - 1] \o s[i]
  <2>1. flat[1] = At(flat, 1) /\ At(flat, 1) = s[1]
    BY <1>1, <1>5
  <2>2. \A i \in 1..n : i # 1 => At(flat, i) = flat[i - 1] \o s[i]
    OBVIOUS
  <2> HIDE DEF At
  <2> QED
    BY <1>5, <2>1, <2>2
<1> QED
  BY <1>2, <1>6 DEF n

\* Their audio is a sequence.
LEMMA FlattenIsSeq ==
    ASSUME NEW X, NEW s \in Seq(Seq(X))
    PROVE  FlattenSeq(s) \in Seq(X)
<1>1. CASE Len(s) = 0
  BY <1>1 DEF FlattenSeq
<1>2. CASE Len(s) # 0
  <2> DEFINE n == Len(s)
  <2>1. PICK f : /\ FlattenSeq(s) = f[n]
                 /\ f[1] = s[1]
                 /\ \A i \in 1..n : i # 1 => f[i] = f[i - 1] \o s[i]
    BY <1>2, FlattenSteps
  <2> DEFINE Even(k) == f[k] \in Seq(X)
  <2>2. n \in Nat \ {0} /\ \A i \in 1..n : s[i] \in Seq(X)
    BY <1>2
  <2> HIDE DEF n
  <2>3. \A i \in 1..n : Even(i)
    <3> DEFINE Odd == {k \in 1..n : ~Even(k)}
    <3> HIDE DEF Even
    <3> SUFFICES ASSUME Odd # {} PROVE FALSE
      OBVIOUS
    <3>1. PICK k \in 1..n : k \in Odd /\ \A j \in 1..(k - 1) : j \notin Odd
      BY <2>2, FirstOf
    <3>2. ~Even(k) /\ (k = 1 \/ (k - 1 \in 1..n /\ Even(k - 1)))
      BY <2>2, <3>1
    <3>3. CASE k = 1
      BY <2>1, <2>2, <3>2, <3>3 DEF Even
    <3>4. CASE k # 1
      <4>1. f[k - 1] \in Seq(X) /\ s[k] \in Seq(X) /\ f[k] = f[k - 1] \o s[k]
        BY <2>1, <2>2, <3>2, <3>4 DEF Even
      <4> QED
        BY <3>2, <4>1 DEF Even
    <3> QED
      BY <3>3, <3>4
  <2> QED
    BY <2>1, <2>2, <2>3
<1> QED
  BY <1>1, <1>2

\* Each of them is found where those before it end.
LEMMA FlattenAt ==
    ASSUME NEW X, NEW s \in Seq(Seq(X)), Len(s) # 0,
           NEW place \in [1..(Len(s) + 1) -> Int], place[1] = 0,
           \A k \in 1..Len(s) : place[k + 1] = place[k] + Len(s[k])
    PROVE  \A k \in 1..Len(s) : \A j \in 1..Len(s[k]) : FlattenSeq(s)[place[k] + j] = s[k][j]
<1> DEFINE n == Len(s)
<1>1. PICK f : /\ FlattenSeq(s) = f[n]
               /\ f[1] = s[1]
               /\ \A i \in 1..n : i # 1 => f[i] = f[i - 1] \o s[i]
  BY FlattenSteps
<1>2. /\ n \in Nat \ {0} /\ \A i \in 1..n : s[i] \in Seq(X) /\ Len(s[i]) \in Nat
      /\ \A k \in 1..n : place[k] \in Int /\ place[k + 1] = place[k] + Len(s[k])
  <2> DEFINE Part == Seq(X)
  <2>1. s \in Seq(Part) /\ \A t \in Part : Len(t) \in Nat
    OBVIOUS
  <2> HIDE DEF Part
  <2>2. n \in Nat \ {0} /\ \A i \in 1..n : s[i] \in Part
    BY <2>1
  <2>3. \A k \in 1..n : k \in 1..(n + 1)
    BY <2>2
  <2>4. \A k \in 1..n : place[k] \in Int
    BY <2>3
  <2> QED
    BY <2>1, <2>2, <2>4 DEF Part
<1> HIDE DEF n
<1> DEFINE Found(k) ==
              /\ f[k] \in Seq(X) /\ Len(f[k]) = place[k + 1]
              /\ \A i \in 1..k : \A j \in 1..Len(s[i]) :
                    place[i] + j \in 1..Len(f[k]) /\ f[k][place[i] + j] = s[i][j]
<1>3. Found(1)
  <2>1. f[1] = s[1] /\ s[1] \in Seq(X) /\ place[1] = 0 /\ place[1 + 1] = Len(s[1])
    BY <1>1, <1>2
  <2>2. 1..1 = {1}
    OBVIOUS
  <2>3. \A j \in 1..Len(s[1]) : place[1] + j \in 1..Len(f[1]) /\ f[1][place[1] + j] = s[1][j]
    BY <2>1
  <2> QED
    BY <2>1, <2>2, <2>3
<1>4. ASSUME NEW k \in 1..n, k # 1, Found(k - 1) PROVE Found(k)
  <2> DEFINE a == f[k - 1]
             b == s[k]
  <2>1. a \in Seq(X) /\ b \in Seq(X) /\ f[k] = a \o b /\ Len(a) = place[k]
    <3>1. (k - 1) + 1 = k
      BY <1>2
    <3> QED
      BY <1>1, <1>2, <1>4, <3>1
  <2>2. /\ a \o b \in Seq(X) /\ Len(a \o b) = Len(a) + Len(b)
        /\ \A j \in 1..Len(a) : (a \o b)[j] = a[j]
        /\ \A j \in 1..Len(b) : (a \o b)[Len(a) + j] = b[j]
        /\ Len(a) \in Nat /\ Len(b) \in Nat
    <3>1. a \in Seq(X) /\ b \in Seq(X)
      BY <2>1
    <3> HIDE DEF a, b
    <3>2. Len(a) \in Nat /\ Len(b) \in Nat /\ a \o b \in Seq(X) /\ Len(a \o b) = Len(a) + Len(b)
      BY <3>1
    <3>3. \A j \in 1..Len(a) : (a \o b)[j] = a[j]
      BY <3>1
    <3>4. ASSUME NEW j \in 1..Len(b) PROVE (a \o b)[Len(a) + j] = b[j]
      <4>1. Len(a) + j \in 1..(Len(a) + Len(b)) /\ ~(Len(a) + j <= Len(a)) /\ Len(a) + j - Len(a) = j
        BY <3>2
      <4> QED
        BY <3>1, <4>1
    <3> QED
      BY <3>2, <3>3, <3>4
  <2>3. \A i \in 1..(k - 1) : \A j \in 1..Len(s[i]) :
           place[i] + j \in 1..Len(a) /\ a[place[i] + j] = s[i][j]
    BY <1>4
  <2>4. place[k + 1] = Len(a) + Len(b)
    BY <1>2, <2>1
  <2>5. \A i \in 1..k : i \in 1..(k - 1) \/ i = k
    BY <1>2
  <2> DEFINE c == a \o b
  <2>6. f[k] = c
    BY <2>1
  <2>7. /\ c \in Seq(X) /\ Len(c) = Len(a) + Len(b)
        /\ \A j \in 1..Len(a) : c[j] = a[j] /\ j \in 1..Len(c)
        /\ \A j \in 1..Len(b) : c[Len(a) + j] = b[j] /\ Len(a) + j \in 1..Len(c)
    <3> HIDE DEF a, b
    <3> QED
      BY <2>2
  <2> HIDE DEF c, a
  <2>8. ASSUME NEW i \in 1..k, NEW j \in 1..Len(s[i])
        PROVE  place[i] + j \in 1..Len(c) /\ c[place[i] + j] = s[i][j]
    <3>1. CASE i \in 1..(k - 1)
      BY <2>3, <2>7, <3>1
    <3>2. CASE i = k
      BY <2>1, <2>7, <3>2
    <3> QED
      BY <2>5, <3>1, <3>2
  <2> QED
    BY <2>4, <2>6, <2>7, <2>8
<1> HIDE DEF Found
<1>5. \A k \in 1..n : Found(k)
  <2> DEFINE Lost == {k \in 1..n : ~Found(k)}
  <2> SUFFICES ASSUME Lost # {} PROVE FALSE
    OBVIOUS
  <2>1. PICK k \in 1..n : k \in Lost /\ \A j \in 1..(k - 1) : j \notin Lost
    BY <1>2, FirstOf
  <2>2. k = 1 \/ (k - 1 \in 1..n /\ Found(k - 1))
    BY <1>2, <2>1
  <2> QED
    BY <1>3, <1>4, <2>1, <2>2
<1>6. Found(n)
  BY <1>2, <1>5
<1> QED
  BY <1>1, <1>6 DEF Found, n

--------------------------------------------------------------------------------
\* The greater and the smaller of two numbers.
LEMMA OfTwo ==
    ASSUME NEW x \in Int, NEW y \in Int
    PROVE  /\ Max({x, y}) = IF x >= y THEN x ELSE y
           /\ Min({x, y}) = IF x <= y THEN x ELSE y
<1>1. Max({x, y}) = IF x >= y THEN x ELSE y
  <2> DEFINE m == IF x >= y THEN x ELSE y
  <2>1. m \in {x, y} /\ \A k \in {x, y} : m >= k
    OBVIOUS
  <2>2. \A o \in {x, y} : (\A k \in {x, y} : o >= k) => o = m
    OBVIOUS
  <2> HIDE DEF m
  <2>3. Max({x, y}) \in {x, y} /\ \A k \in {x, y} : Max({x, y}) >= k
    BY <2>1 DEF Max
  <2> QED
    BY <2>2, <2>3 DEF m
<1>2. Min({x, y}) = IF x <= y THEN x ELSE y
  <2> DEFINE m == IF x <= y THEN x ELSE y
  <2>1. m \in {x, y} /\ \A k \in {x, y} : m <= k
    OBVIOUS
  <2>2. \A o \in {x, y} : (\A k \in {x, y} : o <= k) => o = m
    OBVIOUS
  <2> HIDE DEF m
  <2>3. Min({x, y}) \in {x, y} /\ \A k \in {x, y} : Min({x, y}) <= k
    BY <2>1 DEF Min
  <2> QED
    BY <2>2, <2>3 DEF m
<1> QED
  BY <1>1, <1>2

LEMMA BatchIs ==
    ASSUME NEW b \in Batch
    PROVE  /\ Len(b) \in Nat \ {0} /\ DOMAIN b = 1..Len(b)
           /\ \A i \in DOMAIN b :
                 /\ b[i].id \in Nat /\ b[i].start \in Nat /\ b[i].end \in Nat
                 /\ SoundsOf(b[i]) \in Seq(ToSet(SoundsOf(b[i])))
<1> DEFINE Chunk == [id : Nat, start : Nat, end : Nat]
<1>1. b \in Seq(Chunk) /\ Len(b) > 0 /\ \A i \in DOMAIN b : SoundsOf(b[i]) \in Seq(ToSet(SoundsOf(b[i])))
  BY EnrichmentAssumption DEF EnrichmentAssumption
<1>2. \A c \in Chunk : c.id \in Nat /\ c.start \in Nat /\ c.end \in Nat
  OBVIOUS
<1> HIDE DEF Chunk
<1>3. Len(b) \in Nat \ {0} /\ DOMAIN b = 1..Len(b) /\ \A i \in DOMAIN b : b[i] \in Chunk
  BY <1>1
<1> QED
  BY <1>1, <1>2, <1>3

LEMMA StitchedIsSeq ==
    ASSUME NEW b \in Batch
    PROVE  /\ Stitched(b) \in Seq(UNION {ToSet(SoundsOf(b[i])) : i \in DOMAIN b})
<1> DEFINE parts == [i \in DOMAIN b |-> SoundsOf(b[i])]
           X == UNION {ToSet(SoundsOf(b[i])) : i \in DOMAIN b}
<1>1. \A i \in DOMAIN b : SoundsOf(b[i]) \in Seq(X)
  <2>1. ASSUME NEW i \in DOMAIN b PROVE SoundsOf(b[i]) \in Seq(X)
    <3> DEFINE Y == ToSet(SoundsOf(b[i]))
    <3>1. SoundsOf(b[i]) \in Seq(Y) /\ Y \subseteq X
      BY BatchIs
    <3> HIDE DEF Y, X
    <3> QED
      BY <3>1
  <2> QED
    BY <2>1
<1> HIDE DEF X
<1>2. parts \in Seq(Seq(X))
  <2>1. parts \in [1..Len(b) -> Seq(X)] /\ Len(b) \in Nat
    BY <1>1, BatchIs
  <2> HIDE DEF parts
  <2> QED
    BY <2>1
<1> HIDE DEF parts
<1>3. FlattenSeq(parts) \in Seq(X)
  BY <1>2, FlattenIsSeq
<1> QED
  BY <1>3 DEF Stitched, parts, X

\* There are finitely many voices, each with a label.
LEMMA LabelOfIs ==
    ASSUME NEW X, NEW audio \in Seq(X), Cardinality(Voices(audio)) <= Len(Labels),
           NEW voice \in Voices(audio)
    PROVE  LabelOf(audio, voice) \in ToSet(Labels)
<1> DEFINE N == Len(audio)
           At(v) == {i \in 1..N : audio[i] # Silence /\ VoiceOf(audio[i]) = v}
           IsFirst(v, i) == /\ audio[i] # Silence /\ VoiceOf(audio[i]) = v
                            /\ \A k \in 1..(i - 1) : audio[k] = Silence \/ VoiceOf(audio[k]) # v
           first(v) == CHOOSE i \in DOMAIN audio : IsFirst(v, i)
           V == {v \in Voices(audio) : first(v) <= first(voice)}
<1>1. N \in Nat /\ DOMAIN audio = 1..N
  OBVIOUS
<1>2. At(voice) # {} /\ At(voice) \in SUBSET (1..N)
  BY <1>1 DEF Voices
<1>3. PICK m \in 1..N : m \in At(voice) /\ \A k \in 1..(m - 1) : k \notin At(voice)
  <2> HIDE DEF At, N
  <2> QED
    BY <1>1, <1>2, FirstOf
<1>4. IsFirst(voice, m)
  BY <1>1, <1>3
<1>5. first(voice) \in 1..N
  <2> HIDE DEF IsFirst
  <2> QED
    BY <1>1, <1>4
<1>6. LabelOf(audio, voice) = Labels[Cardinality(V)]
  BY DEF LabelOf
<1> HIDE DEF first
<1>7. IsFiniteSet(Voices(audio))
  <2> DEFINE I == {i \in 1..N : audio[i] # Silence}
             f == [i \in I |-> VoiceOf(audio[i])]
  <2>1. IsFiniteSet(I)
    <3>1. I \in SUBSET (1..N) /\ IsFiniteSet(1..N)
      BY <1>1, FS_Interval
    <3> HIDE DEF I
    <3> QED
      BY <3>1, FS_Subset
  <2>2. Voices(audio) = {f[i] : i \in I}
    BY <1>1 DEF Voices
  <2> HIDE DEF f, I
  <2> QED
    BY <2>1, <2>2, FiniteValues
<1>8. voice \in V /\ V \in SUBSET Voices(audio)
  BY <1>1, <1>5
<1> HIDE DEF V
<1>9. IsFiniteSet(V) /\ Cardinality(V) <= Cardinality(Voices(audio))
  BY <1>7, <1>8, FS_Subset
<1>10. Cardinality(V) \in Nat \ {0} /\ Cardinality(Voices(audio)) \in Nat
  BY <1>7, <1>8, <1>9, FS_CardinalityType, FS_EmptySet
<1>11. Cardinality(V) \in 1..4
  BY <1>9, <1>10 DEF Labels
<1>12. \A k \in 1..4 : Labels[k] \in ToSet(Labels)
  BY DEF Labels, ToSet
<1> QED
  BY <1>6, <1>11, <1>12

\* An utterance points to a chunk of its batch.
LEMMA ChunkForIs ==
    ASSUME NEW b \in Batch, NEW start \in Int, NEW end \in Int
    PROVE  \E i \in DOMAIN b : ChunkFor(b, start, end) = b[i]
<1> DEFINE common(i) == Max({0, Min({end, b[i].end}) - Max({start, b[i].start})})
           T == {common(i) : i \in DOMAIN b}
           most == Max(T)
           later == {i \in DOMAIN b : start < b[i].end}
           long == {i \in DOMAIN b : common(i) = most}
           at == IF most > 0 THEN Min(long) ELSE IF later # {} THEN Min(later) ELSE Len(b)
<1>1. Len(b) \in Nat \ {0} /\ DOMAIN b = 1..Len(b)
      /\ \A i \in DOMAIN b : b[i].start \in Int /\ b[i].end \in Int
  BY BatchIs
<1>2. ASSUME NEW i \in DOMAIN b PROVE common(i) \in Nat
  <2>1. Min({end, b[i].end}) \in Int /\ Max({start, b[i].start}) \in Int
    BY <1>1, OfTwo
  <2> DEFINE x == Min({end, b[i].end}) - Max({start, b[i].start})
  <2>2. x \in Int
    BY <2>1
  <2> HIDE DEF x
  <2>3. Max({0, x}) \in Nat
    BY <2>2, OfTwo
  <2> QED
    BY <2>3 DEF x
<1>3. ChunkFor(b, start, end) = b[at]
  BY DEF ChunkFor
<1> HIDE DEF common
<1>4. T \in SUBSET Nat /\ T # {} /\ IsFiniteSet(T)
  <2> DEFINE f == [i \in DOMAIN b |-> common(i)]
  <2>1. T = {f[i] : i \in DOMAIN b}
    OBVIOUS
  <2>2. IsFiniteSet(DOMAIN b)
    BY <1>1, FS_Interval
  <2> HIDE DEF f
  <2>3. IsFiniteSet(T)
    BY <2>1, <2>2, FiniteValues
  <2> QED
    BY <1>1, <1>2, <2>3
<1>5. most \in T
  <2> HIDE DEF T
  <2> QED
    BY <1>4, MaxIs
<1>6. long # {} /\ long \in SUBSET Nat /\ later \in SUBSET Nat
      /\ long \subseteq DOMAIN b /\ later \subseteq DOMAIN b
  <2>1. \E i \in DOMAIN b : most = common(i)
    BY <1>5
  <2> HIDE DEF most
  <2>2. DOMAIN b \in SUBSET Nat
    BY <1>1
  <2> QED
    BY <2>1, <2>2
<1> HIDE DEF long, later, most
<1>7. at \in DOMAIN b
  <2>1. Min(long) \in long
    BY <1>6, MinIs
  <2>2. later # {} => Min(later) \in later
    BY <1>6, MinIs
  <2>3. Len(b) \in DOMAIN b
    BY <1>1
  <2> QED
    BY <1>6, <2>1, <2>2, <2>3
<1> QED
  BY <1>3, <1>7




--------------------------------------------------------------------------------
\* What an utterance of a batch is.

Speaks(b, u) ==
    /\ \E i \in DOMAIN b : u.chunk = b[i]
    /\ u.start \in Nat /\ u.end \in Nat
    /\ u.speaker = VoiceOf(u.sound) \/ u.speaker \in ToSet(Labels)

LEMMA UtteranceIs ==
    ASSUME NEW b \in Batch
    PROVE  /\ \A u \in RoomUtterances(b) : Speaks(b, u)
           /\ \A u, o \in RoomUtterances(b) : u.start = o.start => u = o
<1> DEFINE audio == Stitched(b)
           N == Len(audio)
           Begins(i) == audio[i] # Silence /\ (i > 1 => audio[i - 1] # audio[i])
           to(i) == Min({j \in i..N : j = N \/ audio[j + 1] # audio[i]})
           seg(i) == [sound |-> audio[i], from |-> i - 1, to |-> to(i)]
           I == {i \in 1..N : Begins(i)}
           utt(i) == UtteranceOf(b, seg(i))
           voice(i) == VoiceOf(audio[i])
<1>1. N \in Nat /\ DOMAIN audio = 1..N
      /\ audio \in Seq(UNION {ToSet(SoundsOf(b[i])) : i \in DOMAIN b})
  BY StitchedIsSeq
<1>2. b[1].start \in Nat /\ 1 \in DOMAIN b
  BY BatchIs
<1>3. RoomUtterances(b) = {utt(i) : i \in I}
  <2>1. Segments(audio) = {seg(i) : i \in I}
    BY <1>1 DEF Segments
  <2> HIDE DEF seg, I, audio
  <2> QED
    BY <2>1 DEF RoomUtterances, audio
<1>4. \A i \in I : to(i) \in Nat
  <2> TAKE i \in I
  <2> DEFINE T == {j \in i..N : j = N \/ audio[j + 1] # audio[i]}
  <2>1. T \in SUBSET Nat /\ N \in T
    BY <1>1
  <2> HIDE DEF T
  <2>2. Min(T) \in T
    BY <2>1, MinIs
  <2> QED
    BY <2>1, <2>2 DEF T
<1>5. \A i \in I : voice(i) \in Voices(audio)
  BY <1>1 DEF Voices
<1>6. \A i \in I : LabelOf(audio, voice(i)) \in ToSet(Labels)
  <2> TAKE i \in I
  <2>1. Cardinality(Voices(audio)) <= Len(Labels)
    BY VoiceAssumption DEF VoiceAssumption
  <2> DEFINE v == voice(i)
             X == UNION {ToSet(SoundsOf(b[k])) : k \in DOMAIN b}
  <2>2. v \in Voices(audio) /\ audio \in Seq(X)
    BY <1>1, <1>5
  <2> HIDE DEF v, X, audio
  <2>3. LabelOf(audio, v) \in ToSet(Labels)
    BY <2>1, <2>2, LabelOfIs
  <2> QED
    BY <2>3 DEF v
<1>7. \A i \in I : /\ utt(i).sound = audio[i]
                   /\ utt(i).start = b[1].start + (i - 1)
                   /\ utt(i).end = b[1].start + to(i)
                   /\ utt(i).chunk = ChunkFor(b, utt(i).start, utt(i).end)
                   /\ utt(i).speaker = voice(i) \/ utt(i).speaker = LabelOf(audio, voice(i))
  <2> HIDE DEF to, audio
  <2> QED
    BY DEF UtteranceOf, audio
<1> HIDE DEF to, utt
<1>8. ASSUME NEW i \in I PROVE Speaks(b, utt(i))
  <2>1. i \in Nat \ {0}
    BY <1>1
  <2>2. utt(i).start \in Nat /\ utt(i).end \in Nat
    BY <1>2, <1>4, <1>7, <2>1
  <2>3. \E k \in DOMAIN b : utt(i).chunk = b[k]
    BY <1>7, <2>2, ChunkForIs
  <2>4. utt(i).speaker = VoiceOf(utt(i).sound) \/ utt(i).speaker \in ToSet(Labels)
    <3> HIDE DEF audio, I
    <3> QED
      BY <1>6, <1>7
  <2> QED
    BY <2>2, <2>3, <2>4 DEF Speaks
<1>9. ASSUME NEW i \in I, NEW k \in I, utt(i).start = utt(k).start PROVE i = k
  <2>1. i \in Nat /\ k \in Nat
    BY <1>1
  <2>2. b[1].start + (i - 1) = b[1].start + (k - 1)
    BY <1>7, <1>9
  <2> QED
    BY <1>2, <2>1, <2>2
<1> HIDE DEF I
<1> QED
  BY <1>3, <1>8, <1>9

\* A batch has finitely many utterances, at natural times.
LEMMA UtterancesOfBatch ==
    ASSUME NEW b \in Batch
    PROVE  IsFiniteSet(RoomUtterances(b)) /\ \A u \in RoomUtterances(b) : u.start \in Nat
<1> DEFINE audio == Stitched(b)
           I == {i \in DOMAIN audio : audio[i] # Silence /\ (i > 1 => audio[i - 1] # audio[i])}
           seg == [i \in I |->
                     [sound |-> audio[i], from |-> i - 1,
                      to |-> Min({j \in i..Len(audio) : j = Len(audio) \/ audio[j + 1] # audio[i]})]]
           utt == [s \in Segments(audio) |-> UtteranceOf(b, s)]
<1>1. Len(audio) \in Nat /\ DOMAIN audio = 1..Len(audio)
  BY StitchedIsSeq
<1> HIDE DEF audio
<1>2. IsFiniteSet(I)
  <2>1. I \in SUBSET (1..Len(audio)) /\ IsFiniteSet(1..Len(audio))
    BY <1>1, FS_Interval
  <2> HIDE DEF I
  <2> QED
    BY <2>1, FS_Subset
<1>3. Segments(audio) = {seg[i] : i \in I}
  BY DEF Segments
<1> HIDE DEF seg, I
<1>4. IsFiniteSet(Segments(audio))
  BY <1>2, <1>3, FiniteValues
<1>5. RoomUtterances(b) = {utt[s] : s \in Segments(audio)}
  BY DEF RoomUtterances, audio
<1> HIDE DEF utt
<1>6. IsFiniteSet(RoomUtterances(b))
  BY <1>4, <1>5, FiniteValues
<1> QED
  BY <1>6, UtteranceIs DEF Speaks

LEMMA UtterancesKnown ==
    IsFiniteSet(Utterance) /\ \A u \in Utterance : u.start \in Nat
<1> DEFINE all == {UtterancesOf[b] : b \in Batch}
           f == [b \in Batch |-> UtterancesOf[b]]
<1>1. \A b \in Batch : UtterancesOf[b] = RoomUtterances(b)
  BY DEF UtterancesOf
<1>2. IsFiniteSet(all)
  <2>1. f \in Surjection(Batch, all)
    BY DEF Surjection
  <2> QED
    BY <2>1, FS_Surjection, EnrichmentAssumption DEF EnrichmentAssumption
<1>3. \A T \in all : IsFiniteSet(T) /\ \A u \in T : u.start \in Nat
  BY <1>1, UtterancesOfBatch
<1> HIDE DEF all
<1>4. Utterance = UNION all
  BY DEF Utterance, all
<1> QED
  BY <1>2, <1>3, <1>4, FS_UNION

--------------------------------------------------------------------------------
\* The fixed windows of a set of utterances.

Window == [start : Int, utterances : SUBSET Utterance]

\* No utterance is in two windows of q.
Separate(q) ==
    \A n, m \in 1..Len(q) : n # m => q[n].utterances \cap q[m].utterances = {}

LEMMA WindowsSeparate ==
    ASSUME NEW S \in SUBSET Utterance
    PROVE  /\ FixedWindows(S) \in Seq(Window) /\ Separate(FixedWindows(S))
           /\ \A n \in 1..Len(FixedWindows(S)) : \E o \in S :
                 FixedWindows(S)[n] = [start |-> WindowOf(o),
                                       utterances |-> {u \in S : WindowOf(u) = WindowOf(o)}]
<1> DEFINE starts == {WindowOf(u) : u \in S}
           R == {p \in starts \X starts : p[1] < p[2]}
           f == [u \in S |-> WindowOf(u)]
           N == Cardinality(starts)
           first(n) == CHOOSE t \in starts : Cardinality({o \in starts : o < t}) = n - 1
           window(n) == [start |-> first(n), utterances |-> {u \in S : WindowOf(u) = first(n)}]
<1>1. IsFiniteSet(starts) /\ starts \in SUBSET Int
  <2>1. IsFiniteSet(S)
    BY UtterancesKnown, FS_Subset
  <2>2. starts = {f[u] : u \in S}
    OBVIOUS
  <2>3. \A u \in S : WindowOf(u) \in Int
    BY UtterancesKnown, EnrichmentAssumption DEF EnrichmentAssumption, WindowOf
  <2>4. starts \in SUBSET Int
    BY <2>3
  <2> HIDE DEF f, starts
  <2> QED
    BY <2>1, <2>2, <2>4, FiniteValues
<1>2. FixedWindows(S) = [n \in 1..N |-> window(n)]
  BY DEF FixedWindows
<1>0. \A t \in starts : \E o \in S : t = WindowOf(o)
  OBVIOUS
<1> HIDE DEF starts
<1>3. N \in Nat
  BY <1>1, FS_CardinalityType
<1>4. Orders(R, starts)
  BY <1>1 DEF Orders
<1>5. ASSUME NEW t \in starts PROVE Rank(R, starts, t) = Cardinality({o \in starts : o < t})
  <2>1. {o \in starts : <<o, t>> \in R} = {o \in starts : o < t}
    BY <1>5
  <2> QED
    BY <2>1 DEF Rank
<1> HIDE DEF R
<1>6. ASSUME NEW n \in 1..N
      PROVE first(n) \in starts /\ Rank(R, starts, first(n)) = n - 1
  <2> DEFINE k == n - 1
  <2>1. k \in 0..(Cardinality(starts) - 1)
    BY <1>3
  <2>2. IsFiniteSet(starts)
    BY <1>1
  <2> HIDE DEF k
  <2>3. \E t \in starts : Rank(R, starts, t) = k
    BY <1>4, <2>1, <2>2, RankTaken
  <2>4. PICK t \in starts : Rank(R, starts, t) = n - 1
    BY <2>3 DEF k
  <2> DEFINE P(x) == Cardinality({o \in starts : o < x}) = n - 1
             place == first(n)
  <2>5. \E x \in starts : P(x)
    BY <1>5, <2>4
  <2>6. place = CHOOSE x \in starts : P(x)
    OBVIOUS
  <2> HIDE DEF place, P
  <2>7. place \in starts /\ P(place)
    BY <2>5, <2>6
  <2> QED
    BY <1>5, <2>7 DEF P, place
<1> HIDE DEF first
<1>7. \A n \in 1..N : window(n) \in Window
  BY <1>1, <1>6 DEF Window
<1>8. \A n, m \in 1..N : n # m => window(n).utterances \cap window(m).utterances = {}
  <2>1. \A n, m \in 1..N : n # m => first(n) # first(m)
    BY <1>3, <1>6
  <2> QED
    BY <2>1
<1>10. \A n \in 1..N : \E o \in S :
         window(n) = [start |-> WindowOf(o), utterances |-> {u \in S : WindowOf(u) = WindowOf(o)}]
  BY <1>0, <1>6
<1> HIDE DEF window, N
<1> DEFINE q == FixedWindows(S)
<1>9. Len(q) = N /\ q \in [1..N -> Window] /\ \A n \in 1..N : q[n] = window(n)
  BY <1>2, <1>3, <1>7
<1> HIDE DEF q
<1> QED
  BY <1>3, <1>8, <1>9, <1>10 DEF Separate, q

--------------------------------------------------------------------------------
\* No version enriches an utterance twice.

Shape ==
    /\ Published \subseteq Utterance
    /\ DOMAIN stage = Run /\ DOMAIN read = Run
    /\ todo \in [Run -> Seq(Window)]
    /\ DOMAIN held = Run
    /\ \A r \in Run : stage[r] = "asking" => todo[r] # <<>>

\* What run r holds: one row of its version for an utterance, whose row nobody else has
\* committed or holds, and which the windows that are left do not have.
HeldApart(r) ==
    /\ stage[r] = "new" => held[r] = {}
    /\ \A e \in held[r] : e.version = VersionOf(r)
    /\ \A e, f \in held[r] : e.utterance = f.utterance => e = f
    /\ \A e \in held[r], f \in enriched : ~(e.utterance = f.utterance /\ e.version = f.version)
    /\ \A o \in Run \ {r} : \A e \in held[r], f \in held[o] :
          ~(e.utterance = f.utterance /\ e.version = f.version)
    /\ \A e \in held[r] : \A n \in 1..Len(todo[r]) : e.utterance \notin todo[r][n].utterances

OnceInv == Shape /\ EnrichedOnce /\ \A r \in Run : HeldApart(r) /\ Separate(todo[r])

LEMMA InitOnce == Init => OnceInv
BY DEF Init, OnceInv, Shape, Published, EnrichedOnce, HeldApart, Separate

\* What one run holds stays apart when the rows of others only change hands.
LEMMA ApartKept ==
    ASSUME NEW r \in Run, HeldApart(r),
           held'[r] = held[r], todo'[r] = todo[r], stage'[r] = stage[r],
           \A f \in enriched' : f \in enriched \/ \E o \in Run \ {r} : f \in held[o],
           \A o \in Run \ {r} : \A f \in held'[o] : f \in held[o]
    PROVE  HeldApart(r)'
<1>1. \A e \in held'[r], f \in enriched' : ~(e.utterance = f.utterance /\ e.version = f.version)
  BY DEF HeldApart
<1>2. \A o \in Run \ {r} : \A e \in held'[r], f \in held'[o] :
         ~(e.utterance = f.utterance /\ e.version = f.version)
  BY DEF HeldApart
<1>3. \A e \in held'[r] : \A n \in 1..Len(todo'[r]) : e.utterance \notin todo'[r][n].utterances
  BY DEF HeldApart
<1>4. /\ stage'[r] = "new" => held'[r] = {}
      /\ \A e \in held'[r] : e.version = VersionOf(r)
      /\ \A e, f \in held'[r] : e.utterance = f.utterance => e = f
  BY DEF HeldApart
<1> QED
  BY <1>1, <1>2, <1>3, <1>4 DEF HeldApart

\* A run that ends loses what it held, whether it has been committed or not.
LEMMA EndOnce ==
    ASSUME OnceInv, NEW r \in Run, EndRun(r), Published' = Published,
           enriched' \subseteq enriched \cup held[r]
    PROVE  OnceInv'
<1> USE DEF OnceInv, Shape
<1>1. Shape'
  BY DEF EndRun
<1>2. EnrichedOnce'
  BY DEF HeldApart, EnrichedOnce
<1>3. ASSUME NEW o \in Run PROVE (HeldApart(o) /\ Separate(todo[o]))'
  <2>1. CASE o = r
    BY <2>1 DEF EndRun, HeldApart, Separate
  <2>2. CASE o # r
    <3>1. held'[o] = held[o] /\ todo'[o] = todo[o] /\ stage'[o] = stage[o]
      BY <2>2 DEF EndRun
    <3>2. \A p \in Run : held'[p] \subseteq held[p]
      BY DEF EndRun
    <3> QED
      BY <2>2, <3>1, <3>2, ApartKept DEF Separate
  <2> QED
    BY <2>1, <2>2
<1> QED
  BY <1>1, <1>2, <1>3

\* The windows that are left are apart from the one that is done with.
LEMMA TailSeparate ==
    ASSUME NEW q \in Seq(Window), q # <<>>, Separate(q)
    PROVE  /\ Tail(q) \in Seq(Window) /\ Separate(Tail(q))
           /\ Head(q) = q[1] /\ 1 \in 1..Len(q)
           /\ \A n \in 1..Len(Tail(q)) :
                 /\ \E m \in 1..Len(q) : Tail(q)[n] = q[m]
                 /\ Tail(q)[n].utterances \cap Head(q).utterances = {}
<1> DEFINE t == Tail(q)
<1>1. /\ t \in Seq(Window) /\ Head(q) = q[1]
      /\ Len(q) \in Nat \ {0} /\ Len(t) = Len(q) - 1
      /\ \A n \in 1..Len(t) : t[n] = q[n + 1]
  OBVIOUS
<1> HIDE DEF t
<1>2. \A n \in 1..Len(t) : n + 1 \in 1..Len(q) /\ n + 1 # 1 /\ t[n] = q[n + 1]
  BY <1>1
<1>3. ASSUME NEW n \in 1..Len(t) PROVE t[n].utterances \cap q[1].utterances = {}
  <2>1. 1 \in 1..Len(q) /\ n + 1 \in 1..Len(q) /\ n + 1 # 1 /\ t[n] = q[n + 1]
    BY <1>1, <1>2
  <2>2. q[n + 1].utterances \cap q[1].utterances = {}
    BY <2>1 DEF Separate
  <2> QED
    BY <2>1, <2>2
<1>4. ASSUME NEW n \in 1..Len(t), NEW m \in 1..Len(t), n # m
      PROVE  t[n].utterances \cap t[m].utterances = {}
  <2>1. n + 1 \in 1..Len(q) /\ m + 1 \in 1..Len(q) /\ n + 1 # m + 1
    BY <1>1, <1>2, <1>4
  <2>2. q[n + 1].utterances \cap q[m + 1].utterances = {}
    BY <2>1 DEF Separate
  <2> QED
    BY <1>2, <2>2
<1>5. 1 \in 1..Len(q) /\ Separate(t)
  BY <1>1, <1>4 DEF Separate
<1> QED
  BY <1>1, <1>2, <1>3, <1>5 DEF t

LEMMA FlushOnce ==
    ASSUME OnceInv, NEW r \in Run, NEW identities, stage[r] = "asking",
           Flush(r, identities), UNCHANGED <<speakers, enriched>>
    PROVE  OnceInv'
<1> USE DEF OnceInv, Shape
<1> DEFINE rows == Enrichments(r, identities)
           w == Head(todo[r])
<1>1. /\ \A e \in rows : e.version = VersionOf(r) /\ e.utterance \in w.utterances
      /\ \A e, f \in rows : e.utterance = f.utterance => e = f
  BY DEF Enrichments
<1>2. Unlocked(r, rows)
  BY DEF Flush
<1>0. \/ ~Taken(rows) /\ /\ held' = [held EXCEPT ![r] = @ \cup rows]
                         /\ todo' = [todo EXCEPT ![r] = Tail(@)]
                         /\ read' = [read EXCEPT ![r] = Nothing]
                         /\ stage' = [stage EXCEPT ![r] = "between"]
      \/ EndRun(r)
  BY DEF Flush
<1> HIDE DEF rows
<1>3. CASE ~Taken(rows) /\ /\ held' = [held EXCEPT ![r] = @ \cup rows]
                          /\ todo' = [todo EXCEPT ![r] = Tail(@)]
                          /\ read' = [read EXCEPT ![r] = Nothing]
                          /\ stage' = [stage EXCEPT ![r] = "between"]
  <2>0. todo'[r] = Tail(todo[r]) /\ todo' \in [Run -> Seq(Window)]
    <3>1. todo[r] \in Seq(Window) /\ Separate(todo[r])
      OBVIOUS
    <3> HIDE DEF Window
    <3> QED
      BY <1>3, <3>1, TailSeparate
  <2>1. /\ Separate(todo'[r]) /\ w = todo[r][1] /\ 1 \in 1..Len(todo[r])
        /\ \A n \in 1..Len(todo'[r]) :
              /\ \E m \in 1..Len(todo[r]) : todo'[r][n] = todo[r][m]
              /\ todo'[r][n].utterances \cap w.utterances = {}
    <3> DEFINE q == todo[r]
    <3>1. q \in Seq(Window) /\ Separate(q) /\ q # <<>>
      OBVIOUS
    <3> HIDE DEF q
    <3>2. /\ Separate(Tail(q)) /\ Head(q) = q[1] /\ 1 \in 1..Len(q)
          /\ \A n \in 1..Len(Tail(q)) :
                /\ \E m \in 1..Len(q) : Tail(q)[n] = q[m]
                /\ Tail(q)[n].utterances \cap Head(q).utterances = {}
      BY <3>1, TailSeparate
    <3> QED
      BY <2>0, <3>2 DEF q
  <2>2. /\ held'[r] = held[r] \cup rows
        /\ \A o \in Run \ {r} : held'[o] = held[o] /\ todo'[o] = todo[o] /\ stage'[o] = stage[o]
        /\ stage'[r] = "between"
    BY <1>3
  <2>3. Shape' /\ EnrichedOnce'
    BY <1>3, <2>0 DEF EnrichedOnce, Published
  <2>6. \A e \in held[r], f \in rows : e.utterance # f.utterance
    BY <1>1, <2>1 DEF HeldApart
  <2>7. HeldApart(r)'
    <3>1. \A e \in held'[r] : e.version = VersionOf(r)
      BY <1>1, <2>2 DEF HeldApart
    <3>2. \A e, f \in held'[r] : e.utterance = f.utterance => e = f
      BY <1>1, <2>2, <2>6 DEF HeldApart
    <3>3. \A e \in held'[r], f \in enriched : ~(e.utterance = f.utterance /\ e.version = f.version)
      BY <1>3, <2>2 DEF HeldApart, Taken
    <3>4. ASSUME NEW o \in Run \ {r}, NEW e \in held'[r], NEW f \in held[o]
          PROVE  ~(e.utterance = f.utterance /\ e.version = f.version)
      BY <1>2, <2>2 DEF HeldApart, Unlocked
    <3>5. ASSUME NEW e \in held'[r], NEW n \in 1..Len(todo'[r])
          PROVE  e.utterance \notin todo'[r][n].utterances
      <4>1. CASE e \in held[r]
        <5>1. PICK m \in 1..Len(todo[r]) : todo'[r][n] = todo[r][m]
          BY <2>1
        <5> QED
          BY <4>1, <5>1 DEF HeldApart
      <4>2. CASE e \in rows
        BY <1>1, <2>1, <4>2
      <4> QED
        BY <2>2, <4>1, <4>2
    <3> QED
      BY <2>2, <3>1, <3>2, <3>3, <3>4, <3>5 DEF HeldApart
  <2>8. ASSUME NEW o \in Run \ {r} PROVE (HeldApart(o) /\ Separate(todo[o]))'
    <3>1. \A p \in Run \ {o} : \A e \in held'[o], f \in held'[p] :
             ~(e.utterance = f.utterance /\ e.version = f.version)
      BY <1>2, <2>2 DEF HeldApart, Unlocked
    <3> QED
      BY <2>2, <3>1 DEF HeldApart
  <2> QED
    BY <2>1, <2>3, <2>7, <2>8
<1>4. CASE EndRun(r)
  BY <1>4, EndOnce DEF Published
<1> QED
  BY <1>0, <1>3, <1>4

LEMMA NextOnce == OnceInv /\ [Next]_vars => OnceInv'
<1> SUFFICES ASSUME OnceInv, [Next]_vars PROVE OnceInv'
  OBVIOUS
<1> USE DEF OnceInv, Shape
<1>1. ASSUME NEW b \in Batch, Publish(b) PROVE OnceInv'
  <2>1. UtterancesOf[b] \subseteq Utterance
    BY DEF Utterance
  <2>2. Published' \subseteq Utterance
    BY <1>1, <2>1 DEF Publish, Published
  <2> QED
    BY <1>1, <2>2 DEF Publish, EnrichedOnce, HeldApart, Separate
<1>2. ASSUME NEW r \in Run, Load(r) PROVE OnceInv'
  <2>1. PICK cutoff \in Cutoff :
           todo' = [todo EXCEPT ![r] = FixedWindows(Unseen(VersionOf(r), cutoff))]
    BY <1>2 DEF Load
  <2> DEFINE q == FixedWindows(Unseen(VersionOf(r), cutoff))
  <2>2. q \in Seq(Window) /\ Separate(q)
    <3>1. Unseen(VersionOf(r), cutoff) \in SUBSET Utterance
      BY DEF Unseen
    <3> QED
      BY <3>1, WindowsSeparate
  <2> HIDE DEF q
  <2>3. stage[r] = "new" /\ stage' = [stage EXCEPT ![r] = "between"]
        /\ UNCHANGED <<speakers, enriched, read, held>>
    BY <1>2 DEF Load
  <2>4. todo' = [todo EXCEPT ![r] = q]
    BY <2>1 DEF q
  <2>5. Shape' /\ EnrichedOnce'
    BY <2>2, <2>3, <2>4 DEF Published, EnrichedOnce
  <2>6. \A o \in Run : Separate(todo'[o])
    BY <2>2, <2>4
  <2>7. HeldApart(r)'
    BY <2>3 DEF HeldApart
  <2>8. \A o \in Run \ {r} : HeldApart(o)'
    BY <2>3, <2>4, ApartKept
  <2> QED
    BY <2>5, <2>6, <2>7, <2>8
<1>3. ASSUME NEW r \in Run, Read(r) PROVE OnceInv'
  BY <1>3 DEF Read, EnrichedOnce, HeldApart, Separate, Published
<1>4. ASSUME NEW r \in Run, Resolve(r) PROVE OnceInv'
  BY <1>4, FlushOnce DEF Resolve
<1>5. ASSUME NEW r \in Run, FallBack(r) PROVE OnceInv'
  BY <1>5, FlushOnce DEF FallBack
<1>6. ASSUME NEW r \in Run, Abort(r) PROVE OnceInv'
  BY <1>6, EndOnce DEF Abort, Published
<1>7. ASSUME NEW r \in Run, Commit(r) PROVE OnceInv'
  BY <1>7, EndOnce DEF Commit, Renamed, Published
<1>8. CASE UNCHANGED vars
  BY <1>8 DEF vars, EnrichedOnce, HeldApart, Separate, Published
<1> QED
  BY <1>1, <1>2, <1>3, <1>4, <1>5, <1>6, <1>7, <1>8 DEF Next

\* No resolver version enriches an utterance twice, for any batches and any runs that
\* overlap, fail or are refused (_load_pending_utterances, the unique constraint of
\* CanonicalUtteranceEnrichment).
THEOREM OnceCorrect == Spec => []EnrichedOnce
<1>1. OnceInv => EnrichedOnce
  BY DEF OnceInv
<1> QED
  BY <1>1, InitOnce, NextOnce, PTL DEF Spec

--------------------------------------------------------------------------------
\* A commit adds a row on record for every name that it writes.
LEMMA NextAccounted == SpeakerAccountedFor /\ [Next]_vars => SpeakerAccountedFor'
<1> SUFFICES ASSUME SpeakerAccountedFor, [Next]_vars PROVE SpeakerAccountedFor'
  OBVIOUS
<1> USE DEF SpeakerAccountedFor, Published
<1>1. ASSUME NEW b \in Batch, Publish(b) PROVE SpeakerAccountedFor'
  <2>1. /\ DOMAIN speakers' = DOMAIN speakers \cup UtterancesOf[b]
        /\ \A u \in DOMAIN speakers : speakers'[u] = speakers[u]
        /\ \A u \in UtterancesOf[b] \ DOMAIN speakers : speakers'[u] = PublishedName(u)
        /\ enriched' = enriched
    BY <1>1 DEF Publish
  <2> QED
    BY <2>1
<1>2. ASSUME NEW r \in Run, Load(r) \/ Read(r) \/ Resolve(r) \/ FallBack(r) \/ Abort(r)
      PROVE  SpeakerAccountedFor'
  BY <1>2 DEF Load, Read, Resolve, FallBack, Abort
<1>3. ASSUME NEW r \in Run, Commit(r) PROVE SpeakerAccountedFor'
  <2>1. enriched' = enriched \cup held[r] /\ speakers' = Renamed(held[r])
    BY <1>3 DEF Commit
  <2> SUFFICES ASSUME NEW u \in DOMAIN speakers'
               PROVE  \/ speakers'[u] = PublishedName(u)
                      \/ \E e \in enriched' : e.utterance = u /\ e.identity = speakers'[u]
    OBVIOUS
  <2>2. u \in DOMAIN speakers
    BY <2>1 DEF Renamed
  <2>3. CASE \E e \in held[r] : e.utterance = u /\ e.renamed
    <3> DEFINE c == CHOOSE e \in held[r] : e.utterance = u
    <3>1. c \in held[r] /\ c.utterance = u
      BY <2>3
    <3>2. speakers'[u] = c.identity
      BY <2>1, <2>2, <2>3 DEF Renamed
    <3> QED
      BY <2>1, <3>1, <3>2
  <2>4. CASE ~\E e \in held[r] : e.utterance = u /\ e.renamed
    BY <2>1, <2>2, <2>4 DEF Renamed
  <2> QED
    BY <2>3, <2>4
<1>4. CASE UNCHANGED vars
  BY <1>4 DEF vars
<1> QED
  BY <1>1, <1>2, <1>3, <1>4 DEF Next

\* The speaker of a canonical row is the one published or one that a row on record
\* accounts for, whatever runs overlap, fail or are refused (_persist_window_enrichments).
THEOREM SpeakerCorrect == Spec => []SpeakerAccountedFor
<1>1. Init => SpeakerAccountedFor
  BY DEF Init, SpeakerAccountedFor, Published
<1> QED
  BY <1>1, NextAccounted, PTL DEF Spec

--------------------------------------------------------------------------------
\* The order of the utterances.

LEMMA BeforeIs ==
    ASSUME NEW u, NEW o
    PROVE  Before(u, o) <=>
              \/ u.start < o.start
              \/ u.start = o.start /\ u.end < o.end
              \/ u.start = o.start /\ u.end = o.end /\ u.chunk.id < o.chunk.id
<1> DEFINE k(x) == <<x.start, x.end, x.chunk.id>>
           At(i) == k(u)[i] < k(o)[i] /\ \A j \in 1..(i - 1) : k(u)[j] = k(o)[j]
<1>1. Before(u, o) <=> At(1) \/ At(2) \/ At(3)
  <2>1. Before(u, o) <=> \E i \in 1..3 : At(i)
    BY DEF Before
  <2> HIDE DEF At
  <2>2. 1..3 = {1, 2, 3}
    OBVIOUS
  <2> QED
    BY <2>1, <2>2
<1>2. k(u)[1] = u.start /\ k(u)[2] = u.end /\ k(u)[3] = u.chunk.id
  OBVIOUS
<1>3. k(o)[1] = o.start /\ k(o)[2] = o.end /\ k(o)[3] = o.chunk.id
  OBVIOUS
<1>4. 1..(1 - 1) = {} /\ 1..(2 - 1) = {1} /\ 1..(3 - 1) = {1, 2}
  OBVIOUS
<1> HIDE DEF k
<1>5. At(1) <=> u.start < o.start
  BY <1>2, <1>3, <1>4
<1>6. At(2) <=> u.start = o.start /\ u.end < o.end
  BY <1>2, <1>3, <1>4
<1>7. At(3) <=> u.start = o.start /\ u.end = o.end /\ u.chunk.id < o.chunk.id
  BY <1>2, <1>3, <1>4
<1> QED
  BY <1>1, <1>5, <1>6, <1>7

InOrder(S) == {p \in S \X S : Before(p[1], p[2])}

\* The place in the order is the place in the sequence.
LEMMA SortedIs ==
    ASSUME NEW S \in SUBSET Utterance
    PROVE  /\ Cardinality(S) \in Nat /\ Len(Sorted(S)) = Cardinality(S)
           /\ Orders(InOrder(S), S) /\ Sorts(Sorted(S), InOrder(S), S)
           /\ \A n \in 1..Cardinality(S) : Sorted(S)[n] \in S
<1> DEFINE R == InOrder(S)
           N == Cardinality(S)
           at(n) == CHOOSE u \in S : Cardinality({o \in S : Before(o, u)}) = n - 1
<1>1. IsFiniteSet(S)
  BY UtterancesKnown, FS_Subset
<1>2. N \in Nat
  BY <1>1, FS_CardinalityType
<1>3. ASSUME NEW u \in S
      PROVE /\ u.start \in Int /\ u.end \in Int /\ u.chunk.id \in Int
            /\ \E b \in Batch, i \in Nat : u \in RoomUtterances(b) /\ i \in DOMAIN b /\ u.chunk.id = b[i].id
  <2>1. PICK b \in Batch : u \in RoomUtterances(b)
    BY DEF Utterance, UtterancesOf
  <2>2. Speaks(b, u)
    BY <2>1, UtteranceIs
  <2>3. PICK i \in DOMAIN b : u.chunk = b[i]
    BY <2>2 DEF Speaks
  <2>4. b[i].id \in Nat /\ i \in Nat
    BY BatchIs
  <2> QED
    BY <2>1, <2>2, <2>3, <2>4 DEF Speaks
<1>4. ASSUME NEW u \in S, NEW o \in S,
             u.start = o.start, u.end = o.end, u.chunk.id = o.chunk.id
      PROVE  u = o
  <2>1. PICK b \in Batch, i \in Nat : u \in RoomUtterances(b) /\ i \in DOMAIN b /\ u.chunk.id = b[i].id
    BY <1>3
  <2>2. PICK c \in Batch, j \in Nat : o \in RoomUtterances(c) /\ j \in DOMAIN c /\ o.chunk.id = c[j].id
    BY <1>3
  <2>3. b[i].id = c[j].id
    BY <1>4, <2>1, <2>2
  <2>4. b = c
    BY <2>1, <2>2, <2>3, EnrichmentAssumption DEF EnrichmentAssumption
  <2> QED
    BY <1>4, <2>1, <2>2, <2>4, UtteranceIs
<1>5. \A p, q \in S : <<p, q>> \in R <=> Before(p, q)
  BY DEF InOrder
<1> HIDE DEF R
<1>6. Orders(R, S)
  <2>1. \A p \in S : <<p, p>> \notin R
    BY <1>3, <1>5, BeforeIs
  <2>2. \A p, q, t \in S : <<p, q>> \in R /\ <<q, t>> \in R => <<p, t>> \in R
    <3> SUFFICES ASSUME NEW p \in S, NEW q \in S, NEW t \in S, Before(p, q), Before(q, t)
                 PROVE  Before(p, t)
      BY <1>5
    <3>1. p.start \in Int /\ p.end \in Int /\ p.chunk.id \in Int
      BY <1>3
    <3>2. q.start \in Int /\ q.end \in Int /\ q.chunk.id \in Int
      BY <1>3
    <3>3. t.start \in Int /\ t.end \in Int /\ t.chunk.id \in Int
      BY <1>3
    <3> QED
      BY <3>1, <3>2, <3>3, BeforeIs
  <2>3. ASSUME NEW p \in S, NEW q \in S PROVE p = q \/ <<p, q>> \in R \/ <<q, p>> \in R
    <3>1. p.start \in Int /\ p.end \in Int /\ p.chunk.id \in Int
      BY <1>3
    <3>2. q.start \in Int /\ q.end \in Int /\ q.chunk.id \in Int
      BY <1>3
    <3>3. \/ p.start = q.start /\ p.end = q.end /\ p.chunk.id = q.chunk.id
          \/ Before(p, q) \/ Before(q, p)
      BY <3>1, <3>2, BeforeIs
    <3> QED
      BY <1>4, <1>5, <3>3
  <2> QED
    BY <2>1, <2>2, <2>3 DEF Orders
<1>7. ASSUME NEW u \in S PROVE Rank(R, S, u) = Cardinality({o \in S : Before(o, u)})
  <2>1. {o \in S : <<o, u>> \in R} = {o \in S : Before(o, u)}
    BY <1>5, <1>7
  <2> QED
    BY <2>1 DEF Rank
<1>8. ASSUME NEW n \in 1..N PROVE at(n) \in S /\ Rank(R, S, at(n)) = n - 1
  <2>1. n - 1 \in 0..(N - 1)
    BY <1>2
  <2>2. PICK u \in S : Rank(R, S, u) = n - 1
    BY <1>1, <1>6, <2>1, RankTaken
  <2> DEFINE P(x) == Cardinality({o \in S : Before(o, x)}) = n - 1
             place == at(n)
  <2>3. \E x \in S : P(x)
    BY <1>7, <2>2
  <2>4. place = CHOOSE x \in S : P(x)
    OBVIOUS
  <2> HIDE DEF place, P
  <2>5. place \in S /\ P(place)
    BY <2>3, <2>4
  <2> QED
    BY <1>7, <2>5 DEF P, place
<1> HIDE DEF at
<1>9. Sorted(S) = [n \in 1..N |-> at(n)]
  BY DEF Sorted, at
<1>10. Sorted(S) \in [1..N -> S] /\ \A n \in 1..N : Rank(R, S, Sorted(S)[n]) = n - 1
  BY <1>8, <1>9
<1>11. Sorts(Sorted(S), R, S)
  <2> DEFINE s == Sorted(S)
  <2>1. s \in [1..Cardinality(S) -> S] /\ \A n \in 1..Cardinality(S) : Rank(R, S, s[n]) = n - 1
    BY <1>10
  <2> HIDE DEF s, R
  <2>2. Sorts(s, R, S)
    BY <1>1, <1>6, <2>1, RanksSort
  <2> QED
    BY <2>2 DEF s
<1>12. Len(Sorted(S)) = N
  BY <1>11 DEF Sorts
<1> QED
  <2>1. \A n \in 1..N : Sorted(S)[n] \in S
    BY <1>10
  <2> QED
    BY <1>2, <1>6, <1>11, <1>12, <2>1 DEF R

--------------------------------------------------------------------------------
\* The voices of a track are those of its utterances' slices.

LEMMA SliceIs ==
    ASSUME NEW u \in Utterance
    PROVE  /\ Slice(u) \in Seq(ToSet(SoundsOf(u.chunk)))
           /\ \A i \in DOMAIN Slice(u) : Slice(u)[i] # Silence => VoiceOf(Slice(u)[i]) \in InTheRoom
<1> DEFINE audio == SoundsOf(u.chunk)
           X == ToSet(audio)
           at(t) == Max({0, Min({Len(audio), t - u.chunk.start})})
<1>1. PICK b \in Batch : u \in RoomUtterances(b)
  BY DEF Utterance, UtterancesOf
<1>2. u.start \in Nat /\ u.end \in Nat /\ \E i \in DOMAIN b : u.chunk = b[i]
  BY <1>1, UtteranceIs DEF Speaks
<1>3. PICK i \in DOMAIN b : u.chunk = b[i]
  BY <1>2
<1>4. audio \in Seq(X) /\ u.chunk.start \in Nat
  BY <1>3, BatchIs
<1>5. u.chunk \in ToSet(b)
  BY <1>3 DEF ToSet
<1>6. \A x \in X : x # Silence => VoiceOf(x) \in InTheRoom
  BY <1>5 DEF InTheRoom
<1> HIDE DEF X, audio
<1>7. ASSUME NEW t \in Nat PROVE at(t) \in 0..Len(audio)
  <2> DEFINE d == t - u.chunk.start
             m == Min({Len(audio), d})
  <2>1. d \in Int /\ Len(audio) \in Nat
    BY <1>4
  <2> HIDE DEF d
  <2> DEFINE n == Len(audio)
  <2>5. n \in Int /\ n = Len(audio)
    BY <2>1
  <2> HIDE DEF n
  <2>6. Min({n, d}) = IF n <= d THEN n ELSE d
    BY <2>1, <2>5, OfTwo
  <2>2. m \in Int /\ m <= Len(audio)
    BY <2>1, <2>5, <2>6
  <2> HIDE DEF m
  <2>3. Max({0, m}) = IF 0 >= m THEN 0 ELSE m
    BY <2>2, OfTwo
  <2>4. Max({0, m}) \in 0..Len(audio)
    BY <2>1, <2>2, <2>3
  <2> QED
    BY <2>4 DEF m, d
<1>8. Slice(u) = SubSeq(audio, at(u.start) + 1, at(u.end))
  BY DEF Slice, audio
<1> HIDE DEF at
<1> DEFINE m == at(u.start) + 1
           n == at(u.end)
<1> HIDE DEF m, n
<1>9. m \in 1..(Len(audio) + 1) /\ n \in 0..Len(audio)
  <2>1. at(u.start) \in 0..Len(audio)
    BY <1>2, <1>7
  <2>2. at(u.end) \in 0..Len(audio)
    BY <1>2, <1>7
  <2>3. Len(audio) \in Nat
    BY <1>4
  <2> QED
    BY <2>1, <2>2, <2>3 DEF m, n
<1>10. SubSeq(audio, m, n) \in Seq(X)
  <2> DEFINE k == 1 + n - m
             t == SubSeq(audio, m, n)
  <2>1. t = [j \in 1..k |-> audio[m + j - 1]]
    BY <1>4, <1>9
  <2>2. \A j \in 1..k : m + j - 1 \in 1..Len(audio)
    BY <1>4, <1>9
  <2>3. \A j \in 1..k : audio[m + j - 1] \in X
    BY <1>4, <2>2
  <2>4. k \in Int
    BY <1>9
  <2> HIDE DEF k, t
  <2>5. CASE k >= 0
    <3>1. t \in [1..k -> X] /\ k \in Nat
      BY <2>1, <2>3, <2>4, <2>5
    <3>2. t \in Seq(X)
      BY <3>1
    <3> QED
      BY <3>2 DEF t
  <2>6. CASE k < 0
    <3>1. 1..k = 1..0
      BY <2>4, <2>6
    <3>2. t \in [1..0 -> X]
      BY <2>1, <2>3, <3>1
    <3>3. t \in Seq(X)
      BY <3>2
    <3> QED
      BY <3>3 DEF t
  <2> QED
    BY <2>4, <2>5, <2>6
<1>11. Slice(u) \in Seq(X)
  BY <1>8, <1>10 DEF m, n
<1>12. \A k \in DOMAIN Slice(u) : Slice(u)[k] \in X
  BY <1>11
<1> QED
  BY <1>6, <1>11, <1>12 DEF X, audio

\* What is heard in the slices of some utterances one after the other is heard in one.
LEMMA JoinedIs ==
    ASSUME NEW S \in SUBSET Utterance
    PROVE  Joined(S) \in Seq(UNION {ToSet(Slice(u)) : u \in S})
<1> DEFINE X == UNION {ToSet(Slice(u)) : u \in S}
           N == Cardinality(S)
           parts == [n \in 1..N |-> Slice(Sorted(S)[n])]
<1>1. N \in Nat /\ \A n \in 1..N : Sorted(S)[n] \in S
  BY SortedIs
<1>2. ASSUME NEW u \in S PROVE Slice(u) \in Seq(X)
  <2> DEFINE s == Slice(u)
  <2>1. \E Y : s \in Seq(Y)
    BY SliceIs
  <2>2. ToSet(s) \subseteq X
    OBVIOUS
  <2> HIDE DEF X, s
  <2>3. s \in Seq(ToSet(s))
    BY <2>1 DEF ToSet
  <2>4. s \in Seq(X)
    <3> DEFINE Y == ToSet(s)
    <3>1. s \in Seq(Y) /\ Y \subseteq X
      BY <2>2, <2>3
    <3> HIDE DEF Y
    <3> QED
      BY <3>1
  <2> QED
    BY <2>4 DEF s
<1> HIDE DEF X
<1>3. parts \in [1..N -> Seq(X)]
  BY <1>1, <1>2
<1> HIDE DEF N
<1>4. parts \in Seq(Seq(X))
  <2> HIDE DEF parts
  <2> QED
    BY <1>1, <1>3
<1> HIDE DEF parts
<1>5. FlattenSeq(parts) \in Seq(X)
  BY <1>4, FlattenIsSeq
<1> QED
  BY <1>5 DEF Joined, parts, N, X

LEMMA VoicesJoined ==
    ASSUME NEW S \in SUBSET Utterance
    PROVE  /\ IsFiniteSet(Voices(Joined(S))) /\ Voices(Joined(S)) \subseteq InTheRoom
           /\ \A v \in Voices(Joined(S)) : \E u \in S : v \in Voices(Slice(u))
<1> DEFINE audio == Joined(S)
           X == UNION {ToSet(Slice(u)) : u \in S}
           N == Len(audio)
           I == {i \in 1..N : audio[i] # Silence}
           f == [i \in I |-> VoiceOf(audio[i])]
<1>1. audio \in Seq(X)
  BY JoinedIs
<1>2. N \in Nat /\ DOMAIN audio = 1..N /\ \A i \in 1..N : audio[i] \in X
  <2> HIDE DEF X, audio
  <2> QED
    BY <1>1
<1>3. IsFiniteSet(Voices(audio))
  <2>1. I \in SUBSET (1..N) /\ IsFiniteSet(1..N)
    BY <1>2, FS_Interval
  <2>2. Voices(audio) = {f[i] : i \in I}
    BY <1>2 DEF Voices
  <2> HIDE DEF I, f
  <2>3. IsFiniteSet(I)
    BY <2>1, FS_Subset
  <2> QED
    BY <2>2, <2>3, FiniteValues
<1>4. ASSUME NEW v \in Voices(audio)
      PROVE  v \in InTheRoom /\ \E u \in S : v \in Voices(Slice(u))
  <2>1. PICK i \in 1..N : audio[i] # Silence /\ v = VoiceOf(audio[i])
    BY <1>2 DEF Voices
  <2>2. PICK u \in S : audio[i] \in ToSet(Slice(u))
    BY <1>2
  <2>3. PICK k \in DOMAIN Slice(u) : Slice(u)[k] = audio[i]
    BY <2>2 DEF ToSet
  <2>4. v \in Voices(Slice(u))
    BY <2>1, <2>3 DEF Voices
  <2> QED
    BY <2>1, <2>3, <2>4, SliceIs
<1> QED
  BY <1>3, <1>4

\* Whoever a track is named after is heard in it.
LEMMA VerdictHeard ==
    ASSUME NEW S \in SUBSET Utterance, Verdict(Joined(S)) \in Enrolled
    PROVE  \E u \in S : Verdict(Joined(S)) \in Voices(Slice(u))
<1> DEFINE audio == Joined(S)
           l == Verdict(audio)
           T == {Likeness(v, l) : v \in Voices(audio)}
           f == [v \in Voices(audio) |-> Likeness(v, l)]
<1>1. "unknown" \notin Enrolled /\ "external-1" \notin Enrolled
  BY VoiceAssumption DEF VoiceAssumption
<1>2. Voices(audio) # {} /\ \E m \in Enrolled : IsTeammate(audio, m)
  BY <1>1 DEF Verdict
<1>3. IsTeammate(audio, l)
  <2>1. l = CHOOSE m \in Enrolled : IsTeammate(audio, m)
    BY <1>1, <1>2 DEF Verdict
  <2> HIDE DEF l
  <2> QED
    BY <1>2, <2>1
<1> HIDE DEF l
<1>4. l \in Enrolled
  BY DEF l
<1>5. BestScore(audio, l) >= Threshold /\ BestScore(audio, l) = Max(T)
  BY <1>3 DEF IsTeammate, BestScore
<1>6. Voices(audio) \subseteq InTheRoom /\ IsFiniteSet(Voices(audio))
  BY VoicesJoined
<1>7. Threshold \in Nat /\ \A v \in Voices(audio) :
         Likeness(v, l) \in Nat /\ (v # l => Likeness(v, l) < Threshold)
  BY <1>4, <1>6, VoiceAssumption DEF VoiceAssumption
<1> HIDE DEF audio
<1>8. Max(T) \in T /\ T \subseteq Nat
  <2>1. T = {f[v] : v \in Voices(audio)}
    OBVIOUS
  <2>2. IsFiniteSet(T)
    <3> HIDE DEF f, T
    <3> QED
      BY <1>6, <2>1, FiniteValues
  <2>3. T \in SUBSET Nat /\ T # {}
    BY <1>2, <1>7
  <2> HIDE DEF T
  <2> QED
    BY <2>2, <2>3, MaxIs
<1>9. PICK v \in Voices(audio) : Max(T) = Likeness(v, l)
  BY <1>8
<1>10. v = l
  <2>1. Likeness(v, l) >= Threshold
    BY <1>5, <1>9
  <2> QED
    BY <1>7, <2>1
<1>11. \E u \in S : l \in Voices(Slice(u))
  BY <1>9, <1>10, VoicesJoined DEF audio
<1> QED
  BY <1>11 DEF l, audio

--------------------------------------------------------------------------------
\* Whom an identity that is one of the teammates' is heard in.

\* Whoever the utterance is named after in an answer for a pool is its voice, or heard
\* under its label in the pool.
Heard(identities, pool) ==
    /\ DOMAIN identities = {TrackOf(u) : u \in pool}
    /\ \A u \in pool :
          LET l == identities[TrackOf(u)] IN
          l \in Enrolled /\ l # VoiceOf(u.sound) =>
              \E o \in pool : TrackOf(o) = TrackOf(u) /\ l \in Voices(Slice(o))

LEMMA IdentitiesHeard ==
    ASSUME NEW pool \in SUBSET Utterance
    PROVE  Heard(TrackIdentities(pool), pool)
<1> DEFINE L == {TrackOf(u) : u \in pool}
           verdict == [l \in L |-> Verdict(TrackAudio(pool, l))]
           guests == {l \in DOMAIN verdict : verdict[l] = "external-1"}
           ids == TrackIdentities(pool)
<1>1. ids = [l \in DOMAIN verdict |->
               IF l \in guests /\ l # FirstTrack(guests) THEN "unknown" ELSE verdict[l]]
  BY DEF TrackIdentities
<1>2. DOMAIN verdict = L
  OBVIOUS
<1>3. DOMAIN ids = L /\ \A l \in L : ids[l] = "unknown" \/ ids[l] = Verdict(TrackAudio(pool, l))
  <2> HIDE DEF guests, L, ids
  <2> QED
    BY <1>1, <1>2
<1> HIDE DEF ids, verdict, guests
<1>4. ASSUME NEW u \in pool, ids[TrackOf(u)] \in Enrolled
      PROVE  \E o \in pool : TrackOf(o) = TrackOf(u) /\ ids[TrackOf(u)] \in Voices(Slice(o))
  <2> DEFINE S == {o \in pool : TrackOf(o) = TrackOf(u)}
  <2>1. ids[TrackOf(u)] = Verdict(Joined(S))
    BY <1>3, <1>4, VoiceAssumption DEF VoiceAssumption, TrackAudio
  <2>2. S \in SUBSET Utterance
    OBVIOUS
  <2>3. S \subseteq pool /\ \A o \in S : TrackOf(o) = TrackOf(u)
    OBVIOUS
  <2> HIDE DEF S
  <2>4. \E o \in S : Verdict(Joined(S)) \in Voices(Slice(o))
    BY <1>4, <2>1, <2>2, VerdictHeard
  <2> QED
    BY <2>1, <2>3, <2>4
<1> QED
  BY <1>3, <1>4 DEF Heard, ids

LEMMA RawHeard ==
    ASSUME NEW pool \in SUBSET Utterance
    PROVE  Heard(RawIdentities(pool), pool)
<1> DEFINE ids == RawIdentities(pool)
<1>1. DOMAIN ids = {TrackOf(u) : u \in pool} /\ \A u \in pool : ids[TrackOf(u)] = TrackOf(u)
  BY DEF RawIdentities
<1> HIDE DEF ids
<1>2. ASSUME NEW u \in pool PROVE TrackOf(u) \notin Enrolled \/ TrackOf(u) = VoiceOf(u.sound)
  <2>1. PICK b \in Batch : u \in RoomUtterances(b)
    BY DEF Utterance, UtterancesOf
  <2>2. u.speaker = VoiceOf(u.sound) \/ u.speaker \in ToSet(Labels)
    BY <2>1, UtteranceIs DEF Speaks
  <2>3. TrackOf(u) \in ToSet(Labels) \/ TrackOf(u) = VoiceOf(u.sound)
    BY <2>2 DEF TrackOf
  <2>4. \A l \in ToSet(Labels) : l \notin Enrolled
    BY VoiceAssumption DEF VoiceAssumption
  <2> QED
    BY <2>3, <2>4
<1> QED
  BY <1>1, <1>2 DEF Heard, ids

--------------------------------------------------------------------------------
\* A teammate's name is given to another voice only in a mixed track.

\* The part of WrongNameIsMixedTrack for one row.
NamedOrMixed(e, published) ==
    LET voice == VoiceOf(e.utterance.sound) IN
    e.identity \in Enrolled /\ e.identity # voice =>
        \E u \in published :
            /\ WindowOf(u) = WindowOf(e.utterance)
            /\ TrackOf(u) = TrackOf(e.utterance)
            /\ Voices(Slice(u)) \ {voice} # {}

\* A window that is left has published utterances that start in it.
Left(w, published) ==
    /\ \E o \in Utterance : w.start = WindowOf(o)
    /\ \A u \in w.utterances : u \in published /\ WindowOf(u) = w.start

\* What a run asks about: published utterances of the window, its own among them.
Asking(r) ==
    /\ read[r].pool \in Pool
    /\ \A u \in read[r].pool : u \in Published /\ WindowOf(u) = Head(todo[r]).start
    /\ Head(todo[r]).utterances \subseteq read[r].pool

\* Batches are published whole.
WholeBatches == \E B \in SUBSET Batch : Published = UNION {UtterancesOf[b] : b \in B}

NameInv ==
    /\ WholeBatches
    /\ \A r \in Run :
          /\ \A n \in 1..Len(todo[r]) : Left(todo[r][n], Published)
          /\ stage[r] = "asking" => Asking(r)
          /\ \A e \in held[r] : NamedOrMixed(e, Published)
    /\ \A e \in enriched : NamedOrMixed(e, Published)

LEMMA InitName == Init => NameInv
<1> SUFFICES ASSUME Init PROVE NameInv
  OBVIOUS
<1>1. WholeBatches
  <2>1. Published = UNION {UtterancesOf[b] : b \in {}}
    BY DEF Init, Published
  <2> QED
    BY <2>1 DEF WholeBatches
<1>2. ASSUME NEW r \in Run PROVE Len(todo[r]) = 0 /\ stage[r] # "asking" /\ held[r] = {}
  BY DEF Init
<1>3. enriched = {}
  BY DEF Init
<1> QED
  BY <1>1, <1>2, <1>3 DEF NameInv

\* Utterances stay published.
LEMMA NamesKept ==
    ASSUME NEW P, NEW Q, P \subseteq Q
    PROVE  /\ \A e : NamedOrMixed(e, P) => NamedOrMixed(e, Q)
           /\ \A w : Left(w, P) => Left(w, Q)
<1>1. ASSUME NEW e, NamedOrMixed(e, P) PROVE NamedOrMixed(e, Q)
  BY <1>1 DEF NamedOrMixed
<1>2. ASSUME NEW w, Left(w, P) PROVE Left(w, Q)
  BY <1>2 DEF Left
<1> QED
  BY <1>1, <1>2

\* A run that stays where it is while others go on, or only loses.
LEMMA OthersName ==
    ASSUME NameInv, Published \subseteq Published', NEW r \in Run,
           todo'[r] = todo[r], stage'[r] = stage[r], read'[r] = read[r], held'[r] = held[r]
    PROVE  /\ \A n \in 1..Len(todo'[r]) : Left(todo'[r][n], Published')
           /\ stage'[r] = "asking" => Asking(r)'
           /\ \A e \in held'[r] : NamedOrMixed(e, Published')
<1>1. \A n \in 1..Len(todo'[r]) : Left(todo'[r][n], Published')
  BY NamesKept DEF NameInv
<1>2. stage'[r] = "asking" => Asking(r)'
  BY DEF NameInv, Asking
<1>3. \A e \in held'[r] : NamedOrMixed(e, Published')
  BY NamesKept DEF NameInv
<1> QED
  BY <1>1, <1>2, <1>3

\* A run that ends.
LEMMA EndName ==
    ASSUME Shape, NameInv, NEW r \in Run, EndRun(r), Published' = Published,
           enriched' \subseteq enriched \cup held[r]
    PROVE  NameInv'
<1>1. WholeBatches'
  BY DEF NameInv, WholeBatches
<1>2. ASSUME NEW o \in Run
      PROVE  /\ \A n \in 1..Len(todo'[o]) : Left(todo'[o][n], Published')
             /\ stage'[o] = "asking" => Asking(o)'
             /\ \A e \in held'[o] : NamedOrMixed(e, Published')
  <2>1. CASE o = r
    BY <2>1 DEF EndRun, Shape
  <2>2. CASE o # r
    <3>1. todo'[o] = todo[o] /\ stage'[o] = stage[o] /\ read'[o] = read[o] /\ held'[o] = held[o]
      BY <2>2 DEF EndRun
    <3> QED
      BY <3>1, OthersName
  <2> QED
    BY <2>1, <2>2
<1>3. ASSUME NEW e \in enriched' PROVE NamedOrMixed(e, Published')
  <2>1. NamedOrMixed(e, Published)
    BY DEF NameInv
  <2> QED
    BY <2>1, NamesKept
<1> QED
  BY <1>1, <1>2, <1>3 DEF NameInv

\* The rows of a window.
LEMMA RowsNamed ==
    ASSUME Shape, NameInv, NEW r \in Run, stage[r] = "asking", NEW identities,
           Heard(identities, read[r].pool), NEW e \in Enrichments(r, identities)
    PROVE  NamedOrMixed(e, Published)
<1> DEFINE w == Head(todo[r])
           pool == read[r].pool
<1>1. Asking(r)
  BY DEF NameInv
<1>2. PICK u \in w.utterances : e.utterance = u /\ e.identity = identities[TrackOf(u)]
  BY DEF Enrichments
<1>3. u \in pool /\ WindowOf(u) = w.start
  BY <1>1, <1>2 DEF Asking
<1> SUFFICES ASSUME e.identity \in Enrolled, e.identity # VoiceOf(u.sound)
             PROVE  \E o \in Published :
                       /\ WindowOf(o) = WindowOf(u) /\ TrackOf(o) = TrackOf(u)
                       /\ Voices(Slice(o)) \ {VoiceOf(u.sound)} # {}
  BY <1>2 DEF NamedOrMixed
<1>4. PICK o \in pool : TrackOf(o) = TrackOf(u) /\ e.identity \in Voices(Slice(o))
  BY <1>2, <1>3 DEF Heard
<1>5. o \in Published /\ WindowOf(o) = w.start
  BY <1>1, <1>4 DEF Asking
<1> QED
  BY <1>3, <1>4, <1>5

LEMMA FlushName ==
    ASSUME Shape, NameInv, NEW r \in Run, NEW identities, stage[r] = "asking",
           Heard(identities, read[r].pool),
           Flush(r, identities), UNCHANGED <<speakers, enriched>>
    PROVE  NameInv'
<1> DEFINE rows == Enrichments(r, identities)
<1>1. \/ /\ held' = [held EXCEPT ![r] = @ \cup rows]
         /\ todo' = [todo EXCEPT ![r] = Tail(@)]
         /\ read' = [read EXCEPT ![r] = Nothing]
         /\ stage' = [stage EXCEPT ![r] = "between"]
      \/ EndRun(r)
  BY DEF Flush
<1>2. \A e \in rows : NamedOrMixed(e, Published)
  BY RowsNamed
<1> HIDE DEF rows
<1>3. CASE EndRun(r)
  BY <1>3, EndName DEF Published
<1>4. CASE /\ held' = [held EXCEPT ![r] = @ \cup rows]
           /\ todo' = [todo EXCEPT ![r] = Tail(@)]
           /\ read' = [read EXCEPT ![r] = Nothing]
           /\ stage' = [stage EXCEPT ![r] = "between"]
  <2>1. Published' = Published /\ enriched' = enriched
    BY DEF Published
  <2>2. WholeBatches' /\ \A e \in enriched' : NamedOrMixed(e, Published')
    BY <2>1, NamesKept DEF NameInv, WholeBatches
  <2>3. /\ \A n \in 1..Len(todo'[r]) : Left(todo'[r][n], Published')
        /\ \A e \in held'[r] : NamedOrMixed(e, Published')
        /\ stage'[r] # "asking"
    <3> DEFINE q == todo[r]
    <3>1. q \in Seq(Window) /\ q # <<>> /\ todo'[r] = Tail(q) /\ \A n \in 1..Len(q) : Left(q[n], Published)
      BY <1>4 DEF Shape, NameInv
    <3>2. stage'[r] = "between" /\ held'[r] = held[r] \cup rows
      BY <1>4 DEF Shape
    <3>3. \A e \in held'[r] : NamedOrMixed(e, Published)
      BY <1>2, <3>2 DEF NameInv
    <3> HIDE DEF q
    <3>4. \A n \in 1..Len(Tail(q)) : n + 1 \in 1..Len(q) /\ Tail(q)[n] = q[n + 1]
      <4> DEFINE W == Window
      <4>1. q \in Seq(W) /\ q # <<>>
        BY <3>1
      <4> HIDE DEF W
      <4> QED
        BY <4>1
    <3>5. \A n \in 1..Len(Tail(q)) : Left(Tail(q)[n], Published)
      BY <3>1, <3>4
    <3> QED
      BY <2>1, <3>1, <3>2, <3>3, <3>5, NamesKept
  <2>4. ASSUME NEW o \in Run \ {r}
        PROVE  /\ \A n \in 1..Len(todo'[o]) : Left(todo'[o][n], Published')
               /\ stage'[o] = "asking" => Asking(o)'
               /\ \A e \in held'[o] : NamedOrMixed(e, Published')
    <3>1. todo'[o] = todo[o] /\ stage'[o] = stage[o] /\ read'[o] = read[o] /\ held'[o] = held[o]
      BY <1>4
    <3> QED
      BY <2>1, <3>1, OthersName
  <2> QED
    BY <2>2, <2>3, <2>4 DEF NameInv
<1> QED
  BY <1>1, <1>3, <1>4

\* The fixed windows of published utterances.
LEMMA WindowsLeft ==
    ASSUME NEW S \in SUBSET Utterance, S \subseteq Published, NEW n \in 1..Len(FixedWindows(S))
    PROVE  Left(FixedWindows(S)[n], Published)
<1>1. PICK o \in S :
         FixedWindows(S)[n] = [start |-> WindowOf(o),
                               utterances |-> {u \in S : WindowOf(u) = WindowOf(o)}]
  BY WindowsSeparate
<1> QED
  BY <1>1 DEF Left

LEMMA NextName == Shape /\ NameInv /\ [Next]_vars => NameInv'
<1> SUFFICES ASSUME Shape, NameInv, [Next]_vars PROVE NameInv'
  OBVIOUS
<1> DEFINE Kept(o) == /\ \A n \in 1..Len(todo'[o]) : Left(todo'[o][n], Published')
                      /\ stage'[o] = "asking" => Asking(o)'
                      /\ \A e \in held'[o] : NamedOrMixed(e, Published')
<1>1. ASSUME NEW b \in Batch, Publish(b) PROVE NameInv'
  <2>1. Published' = Published \cup UtterancesOf[b]
        /\ UNCHANGED <<enriched, stage, todo, read, held>>
    BY <1>1 DEF Publish, Published
  <2>2. WholeBatches'
    <3>1. PICK B \in SUBSET Batch : Published = UNION {UtterancesOf[c] : c \in B}
      BY DEF NameInv, WholeBatches
    <3>2. Published' = UNION {UtterancesOf[c] : c \in B \cup {b}}
      BY <2>1, <3>1
    <3>3. B \cup {b} \in SUBSET Batch
      OBVIOUS
    <3> QED
      BY <3>2, <3>3 DEF WholeBatches
  <2>3. \A e \in enriched' : NamedOrMixed(e, Published')
    BY <2>1, NamesKept DEF NameInv
  <2>4. ASSUME NEW o \in Run PROVE Kept(o)
    BY <2>1, OthersName
  <2> QED
    BY <2>2, <2>3, <2>4 DEF NameInv
<1>2. ASSUME NEW r \in Run, Load(r) PROVE NameInv'
  <2>1. PICK cutoff \in Cutoff :
           todo' = [todo EXCEPT ![r] = FixedWindows(Unseen(VersionOf(r), cutoff))]
    BY <1>2 DEF Load
  <2>2. stage' = [stage EXCEPT ![r] = "between"] /\ UNCHANGED <<speakers, enriched, read, held>>
    BY <1>2 DEF Load
  <2>3. Published' = Published
    BY <2>2 DEF Published
  <2>4. WholeBatches' /\ \A e \in enriched' : NamedOrMixed(e, Published')
    BY <2>2, <2>3, NamesKept DEF NameInv, WholeBatches
  <2> DEFINE S == Unseen(VersionOf(r), cutoff)
  <2>5. S \in SUBSET Utterance /\ S \subseteq Published
    BY DEF Unseen, Shape
  <2>6. todo'[r] = FixedWindows(S)
    BY <2>1 DEF Shape
  <2> HIDE DEF S
  <2>7. \A n \in 1..Len(todo'[r]) : Left(todo'[r][n], Published)
    BY <2>5, <2>6, WindowsLeft
  <2>8. Kept(r)
    <3>1. stage'[r] # "asking" /\ held'[r] = held[r]
      BY <2>2 DEF Shape
    <3> QED
      BY <2>3, <2>7, <3>1, NamesKept DEF NameInv
  <2>9. ASSUME NEW o \in Run \ {r} PROVE Kept(o)
    <3>1. todo'[o] = todo[o] /\ stage'[o] = stage[o] /\ read'[o] = read[o] /\ held'[o] = held[o]
      BY <2>1, <2>2
    <3> QED
      BY <2>3, <3>1, OthersName
  <2> QED
    BY <2>4, <2>8, <2>9 DEF NameInv
<1>3. ASSUME NEW r \in Run, Read(r) PROVE NameInv'
  <2> DEFINE w == Head(todo[r])
             pool == {u \in Published : WindowOf(u) = w.start}
  <2>1. /\ stage' = [stage EXCEPT ![r] = "asking"]
        /\ UNCHANGED <<speakers, enriched, todo, held>>
        /\ todo[r] # <<>>
        /\ read' = [read EXCEPT ![r] = [pool |-> pool,
                                        names |-> [u \in w.utterances |-> speakers[u]]]]
    BY <1>3 DEF Read
  <2>2. Published' = Published
    BY <2>1 DEF Published
  <2>3. WholeBatches' /\ \A e \in enriched' : NamedOrMixed(e, Published')
    BY <2>1, <2>2, NamesKept DEF NameInv, WholeBatches
  <2>4. Left(w, Published)
    <3> DEFINE q == todo[r]
    <3>1. q \in Seq(Window) /\ q # <<>> /\ \A n \in 1..Len(q) : Left(q[n], Published)
      BY <2>1 DEF Shape, NameInv
    <3> DEFINE W == Window
    <3>2. q \in Seq(W)
      BY <3>1
    <3> HIDE DEF q, W
    <3>3. 1 \in 1..Len(q) /\ Head(q) = q[1]
      BY <3>1, <3>2
    <3>4. Left(Head(q), Published)
      BY <3>1, <3>3
    <3> QED
      BY <3>4 DEF q
  <2>5. pool \in Pool
    <3>1. PICK B \in SUBSET Batch : Published = UNION {UtterancesOf[b] : b \in B}
      BY DEF NameInv, WholeBatches
    <3>2. PICK o \in Utterance : w.start = WindowOf(o)
      BY <2>4 DEF Left
    <3>3. pool = {u \in UNION {UtterancesOf[b] : b \in B} : WindowOf(u) = WindowOf(o)}
      BY <3>1, <3>2
    <3> QED
      BY <3>3 DEF Pool
  <2>6. read'[r].pool = pool
    BY <2>1 DEF Shape
  <2>7. Asking(r)'
    <3>1. \A u \in w.utterances : u \in pool
      BY <2>4 DEF Left
    <3>2. \A u \in pool : u \in Published' /\ WindowOf(u) = w.start
      BY <2>2
    <3>3. Head(todo[r])' = w
      BY <2>1
    <3> HIDE DEF pool, w
    <3> QED
      BY <2>5, <2>6, <3>1, <3>2, <3>3 DEF Asking
  <2>8. Kept(r)
    <3>1. todo'[r] = todo[r] /\ held'[r] = held[r]
      BY <2>1
    <3> QED
      BY <2>2, <2>7, <3>1, NamesKept DEF NameInv
  <2>9. ASSUME NEW o \in Run \ {r} PROVE Kept(o)
    <3>1. todo'[o] = todo[o] /\ stage'[o] = stage[o] /\ read'[o] = read[o] /\ held'[o] = held[o]
      BY <2>1
    <3> QED
      BY <2>2, <3>1, OthersName
  <2> QED
    BY <2>3, <2>8, <2>9 DEF NameInv
<1>4. ASSUME NEW r \in Run, stage[r] = "asking"
      PROVE  /\ read[r].pool \in SUBSET Utterance
             /\ Heard(IdentitiesOf[read[r].pool], read[r].pool)
             /\ Heard(RawIdentities(read[r].pool), read[r].pool)
  <2> DEFINE pool == read[r].pool
  <2>1. Asking(r)
    BY <1>4 DEF NameInv
  <2>2. pool \in Pool /\ pool \in SUBSET Utterance
    BY <2>1 DEF Asking, Shape
  <2>3. IdentitiesOf[pool] = TrackIdentities(pool)
    BY <2>2 DEF IdentitiesOf
  <2> QED
    BY <2>2, <2>3, IdentitiesHeard, RawHeard
<1>5. ASSUME NEW r \in Run, Resolve(r) PROVE NameInv'
  <2>1. stage[r] = "asking" /\ Flush(r, IdentitiesOf[read[r].pool]) /\ UNCHANGED <<speakers, enriched>>
    BY <1>5 DEF Resolve
  <2> QED
    BY <1>4, <2>1, FlushName
<1>6. ASSUME NEW r \in Run, FallBack(r) PROVE NameInv'
  <2>1. stage[r] = "asking" /\ Flush(r, RawIdentities(read[r].pool)) /\ UNCHANGED <<speakers, enriched>>
    BY <1>6 DEF FallBack
  <2> QED
    BY <1>4, <2>1, FlushName
<1>7. ASSUME NEW r \in Run, Abort(r) PROVE NameInv'
  BY <1>7, EndName DEF Abort, Published
<1>8. ASSUME NEW r \in Run, Commit(r) PROVE NameInv'
  BY <1>8, EndName DEF Commit, Renamed, Published
<1>9. CASE UNCHANGED vars
  <2>1. Published' = Published /\ UNCHANGED <<enriched, stage, todo, read, held>>
    BY <1>9 DEF vars, Published
  <2>2. WholeBatches' /\ \A e \in enriched' : NamedOrMixed(e, Published')
    BY <2>1, NamesKept DEF NameInv, WholeBatches
  <2>3. ASSUME NEW o \in Run PROVE Kept(o)
    BY <2>1, OthersName
  <2> QED
    BY <2>2, <2>3 DEF NameInv
<1> QED
  BY <1>1, <1>2, <1>3, <1>5, <1>6, <1>7, <1>8, <1>9 DEF Next

\* A teammate's name is given to another voice only when several voices' audio was
\* pooled under the label in that window, for any batches, runs and faults, as far as
\* pyannote tells the voices in the room apart (resolve_track_identities,
\* _persist_window_enrichments).
THEOREM NamesCorrect == Spec => []WrongNameIsMixedTrack
<1>1. Init => OnceInv /\ NameInv
  BY InitOnce, InitName
<1>2. OnceInv /\ NameInv /\ [Next]_vars => (OnceInv /\ NameInv)'
  BY NextOnce, NextName DEF OnceInv
<1>3. NameInv => WrongNameIsMixedTrack
  BY DEF NameInv, NamedOrMixed, WrongNameIsMixedTrack
<1> QED
  BY <1>1, <1>2, <1>3, PTL DEF Spec

--------------------------------------------------------------------------------
\* A segment has one sound from its beginning to its end.
LEMMA SegmentIs ==
    ASSUME NEW X, NEW audio \in Seq(X), NEW s \in Segments(audio)
    PROVE  /\ s.from \in Nat /\ s.to \in Nat /\ s.from < s.to /\ s.to <= Len(audio)
           /\ \A p \in (s.from + 1)..s.to : audio[p] = s.sound
<1> DEFINE N == Len(audio)
           T(i) == {j \in i..N : j = N \/ audio[j + 1] # audio[i]}
<1>1. N \in Nat /\ DOMAIN audio = 1..N
  OBVIOUS
<1>2. PICK i \in 1..N : s = [sound |-> audio[i], from |-> i - 1, to |-> Min(T(i))]
  BY <1>1 DEF Segments
<1>3. T(i) \in SUBSET Nat /\ N \in T(i) /\ T(i) \subseteq i..N
  BY <1>1
<1>4. Min(T(i)) \in T(i) /\ \A k \in T(i) : Min(T(i)) <= k
  <2> HIDE DEF T
  <2> QED
    BY <1>3, MinIs
<1>5. Min(T(i)) \in i..N
  BY <1>3, <1>4
<1> DEFINE m == Min(T(i))
<1>6. ASSUME NEW p \in i..m PROVE audio[p] = audio[i]
  <2>1. CASE p = i
    BY <2>1
  <2>2. CASE p # i
    <3>1. m \in i..N /\ \A k \in T(i) : m <= k
      BY <1>4, <1>5
    <3>2. p - 1 \in i..N /\ p - 1 < m /\ (p - 1) + 1 = p
      <4> HIDE DEF m, N
      <4> QED
        BY <1>1, <1>2, <2>2, <3>1
    <3>3. p - 1 \notin T(i)
      <4> HIDE DEF m, T
      <4> QED
        BY <1>1, <3>1, <3>2
    <3> QED
      BY <1>1, <3>2, <3>3
  <2> QED
    BY <2>1, <2>2
<1>7. m \in i..N /\ i \in 1..N /\ \A p \in i..m : audio[p] = audio[i]
  BY <1>2, <1>5, <1>6
<1>8. s.from = i - 1 /\ s.to = m /\ s.sound = audio[i]
  BY <1>2
<1> HIDE DEF m, N, T
<1>9. (i - 1) + 1 = i
  BY <1>1, <1>7
<1> QED
  BY <1>1, <1>7, <1>8, <1>9 DEF N

\* In an unbroken batch the recording has at every time what the chunk of that time has.
LEMMA StitchedAt ==
    ASSUME NEW b \in Batch, Unbroken(b), NEW k \in DOMAIN b, NEW j \in 1..Len(SoundsOf(b[k]))
    PROVE  Stitched(b)[b[k].start - b[1].start + j] = SoundsOf(b[k])[j]
<1> DEFINE n == Len(b)
           X == UNION {ToSet(SoundsOf(b[i])) : i \in DOMAIN b}
           parts == [i \in DOMAIN b |-> SoundsOf(b[i])]
           place == [i \in 1..(n + 1) |-> IF i <= n THEN b[i].start - b[1].start
                                         ELSE b[n].end - b[1].start]
<1>1. n \in Nat \ {0} /\ DOMAIN b = 1..n
      /\ \A i \in 1..n : b[i].start \in Nat /\ b[i].end \in Nat
  BY BatchIs
<1>2. /\ \A i \in 1..(n - 1) : b[i + 1].start = b[i].end
      /\ \A i \in 1..n : Len(SoundsOf(b[i])) = b[i].end - b[i].start
  BY <1>1 DEF Unbroken
<1>3. \A i \in DOMAIN b : SoundsOf(b[i]) \in Seq(X)
  <2>1. ASSUME NEW i \in DOMAIN b PROVE SoundsOf(b[i]) \in Seq(X)
    <3> DEFINE Y == ToSet(SoundsOf(b[i]))
    <3>1. SoundsOf(b[i]) \in Seq(Y) /\ Y \subseteq X
      BY BatchIs
    <3> HIDE DEF Y, X
    <3> QED
      BY <3>1
  <2> QED
    BY <2>1
<1> HIDE DEF X, n
<1>4. parts \in Seq(Seq(X)) /\ Len(parts) = n /\ \A i \in 1..n : parts[i] = SoundsOf(b[i])
  <2>1. parts \in [1..n -> Seq(X)]
    BY <1>1, <1>3
  <2>2. \A i \in 1..n : parts[i] = SoundsOf(b[i])
    BY <1>1
  <2> HIDE DEF parts
  <2> QED
    BY <1>1, <2>1, <2>2
<1>5. \A i \in 1..n : place[i] = b[i].start - b[1].start
  BY <1>1
<1>6. place[n + 1] = b[n].end - b[1].start
  BY <1>1
<1>7. place \in [1..(n + 1) -> Int] /\ place[1] = 0
  <2>1. 1 \in 1..n /\ n \in 1..n
    BY <1>1
  <2>2. \A i \in 1..(n + 1) : place[i] \in Int
    BY <1>1, <2>1
  <2>3. place[1] = 0
    BY <1>1, <1>5, <2>1
  <2> QED
    BY <2>2, <2>3
<1> HIDE DEF place
<1>8. ASSUME NEW i \in 1..n PROVE place[i + 1] = place[i] + Len(parts[i])
  <2> DEFINE x == b[i].start
             y == b[i].end
             z == b[1].start
  <2>1. x \in Nat /\ y \in Nat /\ z \in Nat /\ Len(parts[i]) = y - x /\ place[i] = x - z
    <3>1. 1 \in 1..n
      BY <1>1
    <3> QED
      BY <1>1, <1>2, <1>4, <1>5, <3>1
  <2>2. place[i + 1] = y - z
    <3>1. CASE i = n
      BY <1>6, <3>1
    <3>2. CASE i # n
      <4>1. i + 1 \in 1..n /\ i \in 1..(n - 1)
        BY <1>1, <3>2
      <4> QED
        BY <1>2, <1>5, <4>1
    <3> QED
      BY <3>1, <3>2
  <2> HIDE DEF x, y, z
  <2> QED
    BY <2>1, <2>2
<1>9. k \in 1..n /\ j \in 1..Len(parts[k])
  BY <1>1, <1>4
<1> HIDE DEF parts
<1>10. FlattenSeq(parts)[place[k] + j] = parts[k][j]
  <2>1. Len(parts) # 0
    BY <1>1, <1>4
  <2>2. place \in [1..(Len(parts) + 1) -> Int] /\ \A i \in 1..Len(parts) : place[i + 1] = place[i] + Len(parts[i])
    BY <1>4, <1>7, <1>8
  <2>3. \A i \in 1..Len(parts) : \A t \in 1..Len(parts[i]) : FlattenSeq(parts)[place[i] + t] = parts[i][t]
    BY <1>4, <1>7, <2>1, <2>2, FlattenAt
  <2> QED
    BY <1>4, <1>9, <2>3
<1> QED
  BY <1>4, <1>5, <1>9, <1>10 DEF Stitched, parts

\* The slice of an utterance of an unbroken batch is its own sound.
LEMMA SliceHas ==
    ASSUME NEW b \in Batch, Unbroken(b), NEW u \in RoomUtterances(b),
           u.chunk.start <= u.start, u.end <= u.chunk.end
    PROVE  /\ u.start < u.end /\ Len(Slice(u)) = u.end - u.start
           /\ \A j \in 1..(u.end - u.start) : Slice(u)[j] = u.sound
<1> DEFINE audio == Stitched(b)
           file == SoundsOf(u.chunk)
           at(t) == Max({0, Min({Len(file), t - u.chunk.start})})
           x == u.chunk.start
           y == u.chunk.end
           z == b[1].start
           f == u.start
           e == u.end
<1>1. PICK s \in Segments(audio) : u.sound = s.sound /\ f = z + s.from /\ e = z + s.to
  <2>1. PICK s \in Segments(audio) : u = UtteranceOf(b, s)
    BY DEF RoomUtterances
  <2>2. u.sound = s.sound /\ u.start = z + s.from /\ u.end = z + s.to
    BY <2>1 DEF UtteranceOf
  <2> HIDE DEF audio
  <2> QED
    BY <2>1, <2>2
<1>2. PICK k \in DOMAIN b : u.chunk = b[k]
  BY UtteranceIs DEF Speaks
<1>3. /\ x \in Nat /\ y \in Nat /\ z \in Nat /\ f \in Nat /\ e \in Nat /\ x <= f /\ e <= y
      /\ file \in Seq(ToSet(file)) /\ Len(file) = y - x
  <2>1. 1 \in DOMAIN b
    BY BatchIs
  <2> QED
    BY <1>2, <2>1, BatchIs, UtteranceIs DEF Speaks, Unbroken
<1>4. /\ s.from \in Nat /\ s.to \in Nat /\ s.from < s.to
      /\ \A p \in (s.from + 1)..s.to : audio[p] = u.sound
  <2> DEFINE X == UNION {ToSet(SoundsOf(b[i])) : i \in DOMAIN b}
  <2>1. audio \in Seq(X)
    BY StitchedIsSeq
  <2> HIDE DEF X, audio
  <2>2. /\ s.from \in Nat /\ s.to \in Nat /\ s.from < s.to
        /\ \A p \in (s.from + 1)..s.to : audio[p] = s.sound
    BY <1>1, <2>1, SegmentIs
  <2> QED
    BY <1>1, <2>2
<1>5. \A j \in 1..Len(file) : audio[x - z + j] = file[j]
  BY <1>2, StitchedAt
<1>6. Slice(u) = SubSeq(file, at(f) + 1, at(e))
  BY DEF Slice
<1> HIDE DEF audio, file, x, y, z, f, e
<1>7. f < e /\ x <= f /\ f <= y /\ x <= e /\ e <= y
  BY <1>1, <1>3, <1>4
<1>8. ASSUME NEW t \in Nat, x <= t, t <= y PROVE Max({0, Min({Len(file), t - x})}) = t - x
  <2>1. Len(file) \in Int /\ t - x \in Int /\ t - x <= Len(file) /\ 0 <= t - x
    BY <1>3, <1>8
  <2> DEFINE n == Len(file)
             d == t - x
  <2>2. n \in Int /\ d \in Int /\ d <= n /\ 0 <= d
    BY <2>1
  <2> HIDE DEF n, d
  <2>3. Min({n, d}) = d
    BY <2>2, OfTwo
  <2>4. Max({0, d}) = d
    BY <2>2, OfTwo
  <2> QED
    BY <2>3, <2>4 DEF n, d
<1>9. at(f) = f - x /\ at(e) = e - x
  BY <1>3, <1>7, <1>8 DEF x
<1> HIDE DEF at
<1> DEFINE m == f - x
           n == e - x
<1>10. m \in Nat /\ n \in Nat /\ m < n /\ n <= Len(file) /\ n - m = e - f
  BY <1>3, <1>7
<1>11. Slice(u) = SubSeq(file, m + 1, n)
  BY <1>6, <1>9
<1> HIDE DEF m, n
<1>12. Slice(u) = [j \in 1..(n - m) |-> file[m + j]]
  <2>1. SubSeq(file, m + 1, n) = [j \in 1..(n - m) |-> file[m + j]]
    BY <1>3, <1>10
  <2> QED
    BY <1>11, <2>1
<1>13. n - m \in Nat
  BY <1>10
<1>14. Len(Slice(u)) = n - m /\ \A j \in 1..(n - m) : Slice(u)[j] = file[m + j]
  BY <1>12, <1>13
<1>15. ASSUME NEW j \in 1..(n - m) PROVE file[m + j] = u.sound
  <2>1. m + j \in 1..Len(file)
    BY <1>3, <1>10
  <2>2. file[m + j] = audio[x - z + (m + j)]
    BY <1>5, <2>1
  <2>3. x - z + (m + j) \in (s.from + 1)..s.to
    <3> DEFINE a == s.from
               c == s.to
    <3>1. /\ a \in Nat /\ c \in Nat /\ f \in Nat /\ e \in Nat /\ x \in Nat /\ z \in Nat
          /\ f = z + a /\ e = z + c /\ m = f - x /\ n - m = e - f
      BY <1>1, <1>3, <1>4, <1>10 DEF m
    <3>2. n \in Nat /\ m \in Nat /\ j \in 1..(n - m)
      BY <1>10
    <3> HIDE DEF a, c
    <3>3. x - z + (m + j) \in (a + 1)..c
      BY <3>1, <3>2
    <3> QED
      BY <3>3 DEF a, c
  <2> QED
    BY <1>4, <2>2, <2>3
<1>16. n - m = u.end - u.start /\ u.start < u.end
  BY <1>7, <1>10 DEF f, e
<1> QED
  BY <1>14, <1>15, <1>16

--------------------------------------------------------------------------------
\* Continuous audio: what is heard at a time is the utterance of that time.

\* The utterances of a pool as Continuous has them.
LEMMA ContinuousIs ==
    ASSUME NEW pool \in SUBSET Utterance, Continuous(pool), NEW u \in pool
    PROVE  /\ u.start \in Nat /\ u.end \in Nat /\ u.start < u.end
           /\ WindowOf(u) \in Int /\ WindowOf(u) <= u.start
           /\ Len(Slice(u)) = u.end - u.start
           /\ \A j \in 1..(u.end - u.start) : Slice(u)[j] = u.sound
           /\ \A o \in pool \ {u} : o.end <= u.start \/ u.end <= o.start
           /\ \A t \in WindowOf(u)..(u.start - 1) : \E o \in pool : o.start <= t /\ t < o.end
<1>1. PICK b \in Batch : u \in RoomUtterances(b)
  BY DEF Utterance, UtterancesOf
<1>2. Unbroken(b)
  BY <1>1 DEF Continuous, UtterancesOf
<1>3. u.chunk.start <= u.start /\ u.end <= u.chunk.end
  BY DEF Continuous
<1>4. u.start \in Nat /\ u.end \in Nat
  BY <1>1, UtteranceIs DEF Speaks
<1>5. WindowOf(u) \in Int /\ WindowOf(u) <= u.start
  <2>1. FixedWindow \in Nat \ {0}
    BY EnrichmentAssumption DEF EnrichmentAssumption
  <2>2. u.start % FixedWindow \in 0..(FixedWindow - 1)
    BY <1>4, <2>1
  <2> QED
    BY <1>4, <2>1, <2>2 DEF WindowOf
<1>6. /\ u.start < u.end /\ Len(Slice(u)) = u.end - u.start
      /\ \A j \in 1..(u.end - u.start) : Slice(u)[j] = u.sound
  BY <1>1, <1>2, <1>3, SliceHas
<1> QED
  BY <1>4, <1>5, <1>6 DEF Continuous

\* Their slices follow each other as they do.
LEMMA JoinedAt ==
    ASSUME NEW pool \in SUBSET Utterance, Continuous(pool),
           NEW start, \A u \in pool : WindowOf(u) = start,
           NEW u \in pool, NEW t \in Int, u.start <= t, t < u.end
    PROVE  Joined(pool)[t - start + 1] = u.sound
<1> DEFINE N == Cardinality(pool)
           q == Sorted(pool)
           R == InOrder(pool)
           place == [i \in 1..(N + 1) |-> IF i <= N THEN q[i].start - start
                                         ELSE q[N].end - start]
           parts == [i \in 1..N |-> Slice(q[i])]
           X == UNION {ToSet(Slice(o)) : o \in pool}
<1>1. /\ N \in Nat /\ \A i \in 1..N : q[i] \in pool
      /\ \A i, j \in 1..N : i < j => <<q[i], q[j]>> \in R
      /\ \A x \in pool : \E i \in 1..N : q[i] = x
  <2>1. /\ N \in Nat /\ Len(q) = N /\ \A i \in 1..N : q[i] \in pool
        /\ Sorts(q, R, pool)
    BY SortedIs
  <2> QED
    BY <2>1 DEF Sorts
<1>2. \A o, p \in pool : <<o, p>> \in R => o.start <= p.start
  <2> SUFFICES ASSUME NEW o \in pool, NEW p \in pool, <<o, p>> \in R PROVE o.start <= p.start
    OBVIOUS
  <2>1. Before(o, p)
    BY DEF InOrder
  <2>2. o.start \in Nat /\ p.start \in Nat
    BY ContinuousIs
  <2> QED
    BY <2>1, <2>2, BeforeIs
<1>3. \A o \in pool : /\ o.start \in Nat /\ o.end \in Nat /\ o.start < o.end
                      /\ start \in Int /\ start <= o.start
                      /\ Len(Slice(o)) = o.end - o.start
                      /\ \A j \in 1..(o.end - o.start) : Slice(o)[j] = o.sound
  BY ContinuousIs
<1>4. /\ \A o, p \in pool : o # p => p.end <= o.start \/ o.end <= p.start
      /\ \A o \in pool : \A x \in start..(o.start - 1) : \E p \in pool : p.start <= x /\ x < p.end
  BY ContinuousIs
<1> HIDE DEF R, q, N
<1>5. ASSUME NEW i \in 1..N, NEW j \in 1..N, i < j PROVE q[i].start <= q[j].start /\ q[i] # q[j]
  <2>1. q[i] \in pool /\ q[j] \in pool /\ <<q[i], q[j]>> \in R
    BY <1>1, <1>5
  <2>2. q[i] # q[j]
    BY <2>1, SortedIs DEF Orders, R
  <2> QED
    BY <1>2, <2>1, <2>2
<1>6. N # 0 /\ N \in Nat /\ start \in Int
  <2>1. \E i \in 1..N : q[i] = u
    BY <1>1
  <2> QED
    BY <1>1, <1>3, <2>1
<1>7. q[1].start = start
  <2>1. 1 \in 1..N /\ q[1] \in pool
    BY <1>1, <1>6
  <2> SUFFICES ASSUME start < q[1].start PROVE FALSE
    BY <1>3, <2>1
  <2>2. start \in start..(q[1].start - 1)
    BY <1>3, <2>1
  <2>3. PICK p \in pool : p.start <= start /\ start < p.end
    BY <1>4, <2>1, <2>2
  <2>4. PICK j \in 1..N : q[j] = p
    BY <1>1
  <2>5. j = 1 \/ 1 < j
    BY <1>1
  <2>6. q[1].start <= p.start
    BY <1>3, <1>5, <2>1, <2>4, <2>5
  <2> QED
    BY <1>3, <2>1, <2>3, <2>6
<1>8. ASSUME NEW i \in 1..N, i + 1 \in 1..N PROVE q[i + 1].start = q[i].end
  <2> DEFINE o == q[i]
             p == q[i + 1]
  <2>1. o \in pool /\ p \in pool /\ o.start <= p.start /\ o # p
    BY <1>1, <1>5, <1>8
  <2>2. o.start \in Nat /\ o.end \in Nat /\ p.start \in Nat /\ p.end \in Nat
        /\ o.start < o.end /\ p.start < p.end /\ start \in Int /\ start <= o.start
    BY <1>3, <2>1
  <2>3. o.end <= p.start
    BY <1>4, <2>1, <2>2
  <2> SUFFICES ASSUME o.end < p.start PROVE FALSE
    BY <2>2, <2>3
  <2>4. o.end \in start..(p.start - 1)
    BY <2>2
  <2>5. PICK w \in pool : w.start <= o.end /\ o.end < w.end
    BY <1>4, <2>1, <2>4
  <2>6. w.start \in Nat /\ w.end \in Nat /\ w.start < w.end
    BY <1>3
  <2>7. PICK j \in 1..N : q[j] = w
    BY <1>1
  <2>8. w # o /\ w # p
    BY <2>2, <2>5
  <2>9. o.end <= w.start
    BY <1>4, <2>1, <2>2, <2>5, <2>6, <2>8
  <2>10. j < i \/ j = i \/ j = i + 1 \/ i + 1 < j
    BY <1>1
  <2>11. CASE j < i
    <3>1. w.start <= o.start
      BY <1>5, <2>7, <2>11
    <3> QED
      BY <2>2, <2>6, <2>9, <3>1
  <2>12. CASE i + 1 < j
    <3>1. p.start <= w.start
      BY <1>5, <1>8, <2>7, <2>12
    <3> QED
      BY <2>2, <2>5, <2>6, <3>1
  <2> QED
    BY <2>7, <2>8, <2>10, <2>11, <2>12
<1>9. parts \in Seq(Seq(X)) /\ Len(parts) = N /\ \A i \in 1..N : parts[i] = Slice(q[i])
  <2>1. ASSUME NEW o \in pool PROVE Slice(o) \in Seq(X)
    <3> DEFINE s == Slice(o)
               Y == ToSet(SoundsOf(o.chunk))
    <3>1. s \in Seq(Y)
      BY SliceIs
    <3>2. ToSet(s) \subseteq X
      OBVIOUS
    <3> HIDE DEF s, X, Y
    <3>3. Len(s) \in Nat /\ \A i \in 1..Len(s) : s[i] \in ToSet(s)
      BY <3>1 DEF ToSet
    <3>4. s = [i \in 1..Len(s) |-> s[i]]
      BY <3>1
    <3>5. s \in Seq(X)
      BY <3>2, <3>3, <3>4
    <3> QED
      BY <3>5 DEF s
  <2> HIDE DEF X
  <2>2. parts \in [1..N -> Seq(X)] /\ \A i \in 1..N : parts[i] = Slice(q[i])
    BY <1>1, <2>1
  <2> HIDE DEF parts
  <2> QED
    BY <1>6, <2>2
<1>10. /\ \A i \in 1..N : place[i] = q[i].start - start
       /\ place[N + 1] = q[N].end - start
  BY <1>6
<1>11. place \in [1..(N + 1) -> Int] /\ place[1] = 0
  <2>1. \A i \in 1..(N + 1) : place[i] \in Int
    <3> TAKE i \in 1..(N + 1)
    <3>1. i \in 1..N \/ i = N + 1
      BY <1>6
    <3>2. CASE i \in 1..N
      BY <1>1, <1>3, <1>6, <1>10, <3>2
    <3>3. CASE i = N + 1
      <4>1. N \in 1..N
        BY <1>6
      <4> QED
        BY <1>1, <1>3, <1>6, <1>10, <3>3, <4>1
    <3> QED
      BY <3>1, <3>2, <3>3
  <2>2. place[1] = 0
    BY <1>6, <1>7, <1>10
  <2> QED
    BY <2>1, <2>2
<1> HIDE DEF place, X
<1>12. ASSUME NEW i \in 1..N PROVE place[i + 1] = place[i] + Len(parts[i])
  <2> DEFINE x == q[i].start
             y == q[i].end
  <2>1. x \in Nat /\ y \in Nat /\ Len(parts[i]) = y - x /\ place[i] = x - start
    BY <1>1, <1>3, <1>9, <1>10
  <2>2. place[i + 1] = y - start
    <3>1. CASE i = N
      BY <1>10, <3>1
    <3>2. CASE i # N
      <4>1. i + 1 \in 1..N
        BY <1>1, <3>2
      <4> QED
        BY <1>8, <1>10, <4>1
    <3> QED
      BY <3>1, <3>2
  <2> HIDE DEF x, y
  <2> QED
    BY <1>6, <2>1, <2>2
<1>13. PICK k \in 1..N : q[k] = u
  BY <1>1
<1> HIDE DEF parts
<1> DEFINE j == t - u.start + 1
<1>14. j \in 1..(u.end - u.start)
  BY <1>3
<1>15. j \in 1..Len(parts[k]) /\ parts[k][j] = u.sound /\ place[k] + j = t - start + 1
  <2>1. parts[k] = Slice(u) /\ place[k] = u.start - start
    BY <1>9, <1>10, <1>13
  <2>2. j \in 1..Len(parts[k]) /\ parts[k][j] = u.sound
    BY <1>3, <1>14, <2>1
  <2>3. place[k] + j = t - start + 1
    BY <1>3, <1>6, <2>1
  <2> QED
    BY <2>2, <2>3
<1> HIDE DEF j
<1>16. FlattenSeq(parts)[place[k] + j] = parts[k][j]
  <2>1. Len(parts) # 0
    BY <1>6, <1>9
  <2>2. place \in [1..(Len(parts) + 1) -> Int] /\ \A i \in 1..Len(parts) : place[i + 1] = place[i] + Len(parts[i])
    BY <1>9, <1>11, <1>12
  <2>3. \A i \in 1..Len(parts) : \A d \in 1..Len(parts[i]) : FlattenSeq(parts)[place[i] + d] = parts[i][d]
    BY <1>9, <1>11, <2>1, <2>2, FlattenAt
  <2> QED
    BY <1>9, <1>13, <1>15, <2>3
<1>17. Joined(pool) = FlattenSeq(parts)
  BY DEF Joined, parts, q, N
<1> QED
  BY <1>15, <1>16, <1>17

\* The segment an utterance is given says what the utterance does.
LEMMA WordsOwn ==
    ASSUME NEW pool \in SUBSET Utterance, Continuous(pool),
           NEW start, \A o \in pool : WindowOf(o) = start,
           NEW utterances, NEW u \in pool
    PROVE  Words(u, utterances, Segments(Joined(pool)), start) = u.sound
<1> DEFINE audio == Joined(pool)
           segments == Segments(audio)
           own == Aligned(u, utterances, segments, start)
           from == u.start - start
           to == u.end - start
<1>1. /\ u.start \in Nat /\ u.end \in Nat /\ u.start < u.end
      /\ start \in Int /\ start <= u.start
  BY ContinuousIs
<1>2. Span(u, start) = [from |-> from, to |-> to]
  <2>1. from \in Int /\ to \in Int /\ 0 <= from /\ from < to
    BY <1>1
  <2> HIDE DEF from, to
  <2>2. Max({0, from}) = from /\ Max({from, to}) = to
    BY <2>1, OfTwo
  <2> QED
    BY <2>2 DEF Span, from, to
<1> HIDE DEF segments
<1>3. ASSUME NEW s \in own PROVE s.sound = u.sound
  <2>1. s \in segments /\ CommonTime(Span(u, start), s) > 0
    BY DEF Aligned, Best
  <2>2. /\ s.from \in Nat /\ s.to \in Nat /\ s.from < s.to
        /\ \A p \in (s.from + 1)..s.to : audio[p] = s.sound
    <3> DEFINE X == UNION {ToSet(Slice(o)) : o \in pool}
    <3>1. audio \in Seq(X)
      BY JoinedIs
    <3> HIDE DEF X, audio, own
    <3> QED
      BY <2>1, <3>1, SegmentIs DEF segments
  <2> DEFINE m == Max({from, s.from})
             n == Min({to, s.to})
  <2>3. CommonTime(Span(u, start), s) = Max({0, n - m})
    <3> DEFINE span == [from |-> from, to |-> to]
    <3>1. span.from = from /\ span.to = to /\ Span(u, start) = span
      BY <1>2
    <3> HIDE DEF span, from, to, own
    <3> QED
      BY <3>1 DEF CommonTime
  <2>4. from \in Int /\ to \in Int
    BY <1>1
  <2> HIDE DEF from, to, own
  <2>5. /\ m \in Int /\ from <= m /\ s.from <= m
        /\ n \in Int /\ n <= to /\ n <= s.to
    <3> DEFINE a == s.from
               b == s.to
    <3>1. a \in Int /\ b \in Int
      BY <2>2
    <3> HIDE DEF a, b
    <3>2. Max({from, a}) \in Int /\ from <= Max({from, a}) /\ a <= Max({from, a})
      BY <2>4, <3>1, OfTwo
    <3>3. Min({to, b}) \in Int /\ Min({to, b}) <= to /\ Min({to, b}) <= b
      <4>1. Min({to, b}) = IF to <= b THEN to ELSE b
        BY <2>4, <3>1, OfTwo
      <4> QED
        BY <2>4, <3>1, <4>1
    <3> QED
      BY <3>2, <3>3 DEF a, b
  <2> HIDE DEF m, n
  <2>6. m < n
    <3> DEFINE d == n - m
    <3>1. d \in Int
      BY <2>5
    <3> HIDE DEF d
    <3>2. Max({0, d}) > 0
      BY <2>1, <2>3 DEF d
    <3>3. d > 0
      BY <3>1, <3>2, OfTwo
    <3> QED
      BY <2>5, <3>3 DEF d
  <2>7. audio[m + 1] = s.sound
    BY <2>2, <2>5, <2>6
  <2>8. audio[m + 1] = u.sound
    <3> DEFINE t == m + start
    <3>1. t \in Int /\ u.start <= t /\ t < u.end /\ t - start + 1 = m + 1
      BY <1>1, <2>5, <2>6 DEF from, to
    <3> HIDE DEF t
    <3>2. Joined(pool)[t - start + 1] = u.sound
      BY <3>1, JoinedAt
    <3> QED
      BY <3>1, <3>2
  <2> QED
    BY <2>7, <2>8
<1>4. Words(u, utterances, segments, start) =
         IF own = {} THEN u.sound ELSE (CHOOSE s \in own : TRUE).sound
  BY DEF Words
<1> HIDE DEF own
<1>5. own # {} => (CHOOSE s \in own : TRUE) \in own
  OBVIOUS
<1> QED
  BY <1>3, <1>4, <1>5 DEF segments

\* A row of a window with continuous audio has the words of its utterance.
LEMMA RowsOwnWords ==
    ASSUME Shape, NameInv, NEW r \in Run, stage[r] = "asking", NEW identities,
           Continuous(read[r].pool), NEW e \in Enrichments(r, identities)
    PROVE  e.words = e.utterance.sound
<1> DEFINE w == Head(todo[r])
           pool == read[r].pool
<1>1. Asking(r)
  BY DEF NameInv
<1>2. pool \in Pool /\ pool \in SUBSET Utterance
      /\ (\A o \in pool : WindowOf(o) = w.start) /\ w.utterances \subseteq pool
  BY <1>1 DEF Asking, Shape
<1>3. PICK u \in w.utterances :
         e.utterance = u /\ e.words = Words(u, w.utterances, SegmentsOf[pool], w.start)
  BY DEF Enrichments
<1>4. SegmentsOf[pool] = Segments(Joined(pool))
  BY <1>2 DEF SegmentsOf
<1> HIDE DEF w, pool
<1>5. Continuous(pool) /\ u \in pool
  BY <1>2, <1>3 DEF pool
<1>6. Words(u, w.utterances, Segments(Joined(pool)), w.start) = u.sound
  BY <1>2, <1>5, WordsOwn
<1> QED
  BY <1>3, <1>4, <1>6

\* What an action of a run adds to the uncommitted rows.
LEMMA NextWords ==
    Shape /\ NameInv /\ [Next]_vars =>
        \A r \in Run : \A e \in held'[r] \ held[r] :
            Continuous(read[r].pool) => e.words = e.utterance.sound
<1> SUFFICES ASSUME Shape, NameInv, [Next]_vars, NEW r \in Run, NEW e \in held'[r] \ held[r],
                    Continuous(read[r].pool)
             PROVE  e.words = e.utterance.sound
  OBVIOUS
<1>1. ASSUME NEW o \in Run, EndRun(o) PROVE FALSE
  <2>1. held'[r] = {} \/ held'[r] = held[r]
    BY <1>1 DEF EndRun, Shape
  <2> QED
    BY <2>1
<1>2. ASSUME NEW o \in Run, NEW identities, stage[o] = "asking", Flush(o, identities)
      PROVE  e.words = e.utterance.sound
  <2>1. held' = [held EXCEPT ![o] = @ \cup Enrichments(o, identities)]
    BY <1>1, <1>2 DEF Flush
  <2>2. o = r /\ e \in Enrichments(r, identities)
    BY <2>1 DEF Shape
  <2> QED
    BY <1>2, <2>2, RowsOwnWords
<1>3. ASSUME NEW b \in Batch, Publish(b) PROVE FALSE
  BY <1>3 DEF Publish
<1>4. ASSUME NEW o \in Run, Load(o) \/ Read(o) PROVE FALSE
  BY <1>4 DEF Load, Read
<1>5. ASSUME NEW o \in Run, Resolve(o) PROVE e.words = e.utterance.sound
  BY <1>2, <1>5 DEF Resolve
<1>6. ASSUME NEW o \in Run, FallBack(o) PROVE e.words = e.utterance.sound
  BY <1>2, <1>6 DEF FallBack
<1>7. ASSUME NEW o \in Run, Abort(o) \/ Commit(o) PROVE FALSE
  BY <1>1, <1>7 DEF Abort, Commit
<1>8. CASE UNCHANGED vars
  BY <1>8 DEF vars
<1> QED
  BY <1>3, <1>4, <1>5, <1>6, <1>7, <1>8 DEF Next

\* Where the audio of a window has no pauses to lose, every utterance of it gets its own
\* words, for any batches and any runs, also those that have loaded only a part of the
\* window (align_retranscribed_segments, enrich_room_utterances).
THEOREM WordsCorrect == Spec => OwnWordsWithoutGaps
<1>1. Init => OnceInv /\ NameInv
  BY InitOnce, InitName
<1>2. OnceInv /\ NameInv /\ [Next]_vars => (OnceInv /\ NameInv)'
  BY NextOnce, NextName DEF OnceInv
<1>3. OnceInv /\ NameInv /\ [Next]_vars =>
        [\A r \in Run : \A e \in held'[r] \ held[r] :
            Continuous(read[r].pool) => e.words = e.utterance.sound]_vars
  BY NextWords DEF OnceInv
<1> QED
  BY <1>1, <1>2, <1>3, PTL DEF Spec, OwnWordsWithoutGaps
================================================================================
