------------------------------ MODULE WorkerProofs -----------------------------
(***************************************************************************)
(* Theorems about Worker, for any set of chunks, any way of cutting them   *)
(* into windows and batches that satisfies WorkerAssumption, and any       *)
(* number of faults.                                                       *)
(***************************************************************************)
EXTENDS Worker, SequenceTheorems, FiniteSetTheorems, TLAPS

\* The units of a pass are sets of pending chunks, and no chunk is in two of them.
LEMMA UnitsCutPending ==
    ASSUME NEW S \in SUBSET Chunk, NEW t \in 0..MaxNow
    PROVE  Cuts(Units(S, t), S)
<1> DEFINE A == Windows(S \ Room)
<1> DEFINE B == Batches(S \cap Room, t)
<1>1. Cuts(A, S \ Room) /\ Cuts(B, S \cap Room)
  BY WorkerAssumption DEF WorkerAssumption
<1>2. A \in Seq(SUBSET S) /\ B \in Seq(SUBSET S)
  <2>1. SUBSET (S \ Room) \subseteq SUBSET S /\ SUBSET (S \cap Room) \subseteq SUBSET S
    OBVIOUS
  <2>2. A \in Seq(SUBSET (S \ Room)) /\ B \in Seq(SUBSET (S \cap Room))
    BY <1>1 DEF Cuts
  <2> QED
    BY <2>1, <2>2, SeqMonotonic
<1> HIDE DEF A, B
<1>3. /\ A \o B \in Seq(SUBSET S)
      /\ Len(A \o B) = Len(A) + Len(B)
      /\ \A i \in 1..Len(A \o B) :
             (A \o B)[i] = IF i <= Len(A) THEN A[i] ELSE B[i - Len(A)]
  BY <1>2
<1>4. ASSUME NEW i \in 1..Len(A \o B), NEW j \in 1..Len(A \o B), i # j
      PROVE  (A \o B)[i] \cap (A \o B)[j] = {}
  <2>1. \A k \in 1..Len(A) : A[k] \subseteq S \ Room
    BY <1>1 DEF Cuts
  <2>2. \A k \in 1..Len(B) : B[k] \subseteq S \cap Room
    BY <1>1 DEF Cuts
  <2>3. CASE i <= Len(A) /\ j <= Len(A)
    BY <1>1, <1>2, <1>3, <1>4, <2>3 DEF Cuts
  <2>4. CASE i > Len(A) /\ j > Len(A)
    <3>1. i - Len(A) \in 1..Len(B) /\ j - Len(A) \in 1..Len(B) /\ i - Len(A) # j - Len(A)
      BY <1>2, <1>3, <1>4, <2>4
    <3> QED
      <4>1. (A \o B)[i] = B[i - Len(A)] /\ (A \o B)[j] = B[j - Len(A)]
        BY <1>2, <1>3, <1>4, <2>4
      <4> QED
        BY <1>1, <3>1, <4>1 DEF Cuts
  <2>5. CASE i <= Len(A) /\ j > Len(A)
    <3>1. i \in 1..Len(A) /\ j - Len(A) \in 1..Len(B)
      BY <1>2, <1>3, <1>4, <2>5
    <3> QED
      BY <1>3, <2>1, <2>2, <2>5, <3>1
  <2>6. CASE i > Len(A) /\ j <= Len(A)
    <3>1. i - Len(A) \in 1..Len(B) /\ j \in 1..Len(A)
      BY <1>2, <1>3, <1>4, <2>6
    <3> QED
      BY <1>3, <2>1, <2>2, <2>6, <3>1
  <2> QED
    BY <1>2, <2>3, <2>4, <2>5, <2>6
<1> QED
  BY <1>3, <1>4 DEF Cuts, Units, A, B

--------------------------------------------------------------------------------
\* Type correctness.

LEMMA InitType == Init => TypeOK
BY WorkerAssumption, EmptySeq DEF WorkerAssumption, Init, TypeOK

\* Advancing leaves a well-typed pass.
LEMMA AdvanceType ==
    ASSUME TypeOK, NEW w \in Worker, pc[w] \in {"work", "failing"}, Advance(w)
    PROVE  /\ todo[w] \in Seq(SUBSET Chunk) /\ todo[w] # <<>>
           /\ Unit(w) \in SUBSET Chunk
           /\ pc' \in [Worker -> {"down", "idle", "work", "failing"}]
           /\ todo' \in [Worker -> Seq(SUBSET Chunk)]
           /\ \A v \in Worker : todo'[v] = <<>> <=> pc'[v] \in {"down", "idle"}
<1>1. todo[w] \in Seq(SUBSET Chunk) /\ todo[w] # <<>>
  BY DEF TypeOK
<1>2. /\ Tail(todo[w]) \in Seq(SUBSET Chunk)
      /\ Len(Tail(todo[w])) = Len(todo[w]) - 1
      /\ Unit(w) \in SUBSET Chunk
  BY <1>1, HeadTailProperties DEF Unit
<1>3. Tail(todo[w]) = <<>> <=> Len(todo[w]) = 1
  <2>1. Len(todo[w]) \in Nat
    BY <1>1, LenProperties
  <2>2. Tail(todo[w]) = <<>> <=> Len(Tail(todo[w])) = 0
    BY <1>2, EmptySeq
  <2> QED
    BY <1>2, <2>1, <2>2
<1> QED
  BY <1>1, <1>2, <1>3 DEF Advance, TypeOK

LEMMA NextType == TypeOK /\ [Next]_vars => TypeOK'
<1> SUFFICES ASSUME TypeOK, [Next]_vars PROVE TypeOK'
  OBVIOUS
<1> USE WorkerAssumption DEF WorkerAssumption, TypeOK
<1>1. CASE Tick
  BY <1>1 DEF Tick
<1>2. ASSUME NEW c \in Chunk, Register(c) PROVE TypeOK'
  BY <1>2 DEF Register
<1>3. ASSUME NEW c \in Chunk, Requeue(c) PROVE TypeOK'
  BY <1>3 DEF Requeue, Fault
<1>4. ASSUME NEW w \in Worker, Start(w) PROVE TypeOK'
  BY <1>4 DEF Start
<1>5. ASSUME NEW w \in Worker, Load(w) PROVE TypeOK'
  <2>1. PICK units : /\ units = Units(Pending, now) /\ units # <<>>
                     /\ todo' = [todo EXCEPT ![w] = units]
    BY <1>5 DEF Load
  <2>2. units \in Seq(SUBSET Chunk)
    <3>1. Pending \in SUBSET Chunk
      BY DEF Pending
    <3>2. units \in Seq(SUBSET Pending)
      BY <2>1, <3>1, UnitsCutPending DEF Cuts
    <3>3. SUBSET Pending \subseteq SUBSET Chunk
      BY <3>1
    <3> QED
      BY <3>2, <3>3, SeqMonotonic
  <2> QED
    BY <1>5, <2>1, <2>2 DEF Load
<1>6. ASSUME NEW w \in Worker, Publish(w) PROVE TypeOK'
  BY <1>6, AdvanceType DEF Publish, Transaction, Marked
<1>7. ASSUME NEW w \in Worker, Skip(w) PROVE TypeOK'
  BY <1>7, AdvanceType DEF Skip, SkipTransaction, Marked
<1>8. ASSUME NEW w \in Worker, GiveUp(w) PROVE TypeOK'
  BY <1>8, AdvanceType DEF GiveUp, Marked
<1>9. ASSUME NEW w \in Worker, Fail(w) PROVE TypeOK'
  BY <1>9 DEF Fail, Failing, Fault
<1>10. ASSUME NEW w \in Worker, LoseAck(w) PROVE TypeOK'
  <2>1. Unit(w) \in SUBSET Chunk
    BY <1>10, HeadTailProperties DEF LoseAck, Unit
  <2>2. /\ row' \in [Chunk -> {"none", "uploaded", "processed", "failed"}]
        /\ runs' \in [Chunk -> Nat] /\ skipped' \subseteq Chunk
    <3>1. CASE Transaction(w) /\ UNCHANGED skipped
      BY <2>1, <3>1 DEF Transaction, Marked
    <3>2. CASE SkipTransaction(w) /\ UNCHANGED runs
      BY <2>1, <3>2 DEF SkipTransaction, Marked
    <3> QED
      BY <1>10, <3>1, <3>2 DEF LoseAck
  <2> QED
    BY <1>10, <2>2 DEF LoseAck, Failing, Fault
<1>11. ASSUME NEW w \in Worker, Crash(w) PROVE TypeOK'
  BY <1>11, EmptySeq DEF Crash, Fault
<1>12. CASE UNCHANGED vars
  BY <1>12 DEF vars
<1> QED
  BY <1>1, <1>2, <1>3, <1>4, <1>5, <1>6, <1>7, <1>8, <1>9, <1>10, <1>11, <1>12
  DEF Next, Step

\* Every variable keeps its type, for any number of workers and faults (worker.py).
THEOREM TypeCorrect == Spec => []TypeOK
BY InitType, NextType, PTL DEF Spec

--------------------------------------------------------------------------------
\* What is processed is accounted for, for any number of workers, with lost answers.

LEMMA NextAccounted ==
    ASSUME TypeOK, ProcessedIsAccounted, [Next]_vars
    PROVE  ProcessedIsAccounted'
<1> USE DEF ProcessedIsAccounted, TypeOK
<1>1. CASE Tick
  BY <1>1 DEF Tick
<1>2. ASSUME NEW c \in Chunk, Register(c) PROVE ProcessedIsAccounted'
  BY <1>2 DEF Register
<1>3. ASSUME NEW c \in Chunk, Requeue(c) PROVE ProcessedIsAccounted'
  BY <1>3 DEF Requeue
<1>4. ASSUME NEW w \in Worker, Start(w) \/ Load(w) \/ Fail(w) \/ Crash(w)
      PROVE  ProcessedIsAccounted'
  BY <1>4 DEF Start, Load, Fail, Crash
<1>5. ASSUME NEW w \in Worker, Transaction(w), UNCHANGED skipped
      PROVE  ProcessedIsAccounted'
  BY <1>5 DEF Transaction, Marked
<1>6. ASSUME NEW w \in Worker, SkipTransaction(w), UNCHANGED runs
      PROVE  ProcessedIsAccounted'
  BY <1>6 DEF SkipTransaction, Marked
<1>7. ASSUME NEW w \in Worker, GiveUp(w) PROVE ProcessedIsAccounted'
  BY <1>7 DEF GiveUp, Marked
<1>8. CASE UNCHANGED vars
  BY <1>8 DEF vars
<1> QED
  BY <1>1, <1>2, <1>3, <1>4, <1>5, <1>6, <1>7, <1>8
  DEF Next, Step, Publish, Skip, LoseAck

\* No processed row is a lost chunk, however many workers mark it and whichever
\* commits lose their answer (_mark_chunk_rows, _process_window).
THEOREM AccountedCorrect == Spec => []ProcessedIsAccounted
<1>1. Init => ProcessedIsAccounted
  BY DEF Init, ProcessedIsAccounted
<1> QED
  BY <1>1, NextAccounted, TypeCorrect, PTL DEF Spec

--------------------------------------------------------------------------------
\* One worker and commits that answer: the units ahead are still pending, they share
\* no chunk, and nothing is published but what is processed.

Ahead ==
    \A w \in Worker : \A i \in 1..Len(todo[w]) :
        /\ \A c \in todo[w][i] : row[c] = "uploaded"
        /\ \A j \in 1..Len(todo[w]) : i # j => todo[w][i] \cap todo[w][j] = {}

Unpublished == \A c \in Chunk : row[c] # "processed" => runs[c] = 0

AtMostOnce == \A c \in Chunk : runs[c] <= 1

SoleInv == TypeOK /\ Ahead /\ Unpublished /\ AtMostOnce

\* What is left after the unit in work is unaffected by what becomes of it.
LEMMA AheadAdvance ==
    ASSUME NEW sole, Worker = {sole}, SoleInv, pc[sole] \in {"work", "failing"},
           Advance(sole), NEW status, row' = Marked(Unit(sole), status)
    PROVE  /\ Ahead'
           /\ Unit(sole) \subseteq Chunk
           /\ \A c \in Unit(sole) : row[c] = "uploaded"
<1> USE DEF SoleInv
<1> DEFINE s == todo[sole]
<1>1. s \in Seq(SUBSET Chunk) /\ s # <<>> /\ todo'[sole] = Tail(s)
  BY DEF TypeOK, Advance
<1>2. Len(s) \in Nat \ {0} /\ Head(s) = s[1] /\ s[1] \in SUBSET Chunk
  BY <1>1, EmptySeq, ElementOfSeq
<1>3. /\ Len(Tail(s)) = Len(s) - 1
      /\ \A i \in 1..Len(Tail(s)) : Tail(s)[i] = s[i + 1] /\ s[i + 1] \in SUBSET Chunk
  BY <1>1, <1>2, HeadTailProperties, ElementOfSeq
<1>4. \A i \in 1..Len(s) : /\ \A c \in s[i] : row[c] = "uploaded"
                           /\ \A j \in 1..Len(s) : i # j => s[i] \cap s[j] = {}
  BY DEF Ahead
<1> HIDE DEF s
<1>5. ASSUME NEW i \in 1..Len(Tail(s))
      PROVE  /\ \A c \in Tail(s)[i] : row'[c] = "uploaded"
             /\ \A j \in 1..Len(Tail(s)) : i # j => Tail(s)[i] \cap Tail(s)[j] = {}
  <2>1. i + 1 \in 1..Len(s) /\ i + 1 # 1 /\ 1 \in 1..Len(s)
    BY <1>2, <1>3
  <2>2. s[i + 1] \cap s[1] = {} /\ s[i + 1] \subseteq Chunk
    BY <1>3, <1>4, <2>1
  <2>3. \A c \in s[i + 1] : row'[c] = row[c]
    BY <1>2, <2>2 DEF Marked, Unit, s
  <2>4. \A j \in 1..Len(Tail(s)) : i # j => j + 1 \in 1..Len(s) /\ j + 1 # i + 1
    BY <1>2, <1>3
  <2> QED
    BY <1>3, <1>4, <2>1, <2>3, <2>4
<1>6. Ahead'
  BY <1>1, <1>5 DEF Ahead
<1> QED
  BY <1>2, <1>4, <1>6 DEF Unit, s

LEMMA NextSole ==
    ASSUME NEW sole, Worker = {sole}, ~AckLost, SoleInv, [Next]_vars
    PROVE  SoleInv'
<1>1. TypeOK'
  BY NextType DEF SoleInv
<1> USE DEF SoleInv
<1>2. CASE Tick
  BY <1>1, <1>2 DEF Tick, Ahead, Unpublished, AtMostOnce
<1>3. ASSUME NEW c \in Chunk, Register(c) PROVE SoleInv'
  BY <1>1, <1>3 DEF Register, TypeOK, Ahead, Unpublished, AtMostOnce
<1>4. ASSUME NEW c \in Chunk, Requeue(c) PROVE SoleInv'
  BY <1>1, <1>4 DEF Requeue, TypeOK, Ahead, Unpublished, AtMostOnce
<1>5. CASE Start(sole) \/ Fail(sole)
  BY <1>1, <1>5 DEF Start, Fail, Ahead, Unpublished, AtMostOnce
<1>6. CASE Load(sole)
  <2>1. PICK units : units = Units(Pending, now) /\ todo' = [todo EXCEPT ![sole] = units]
    BY <1>6 DEF Load
  <2>2. Cuts(units, Pending)
    BY <2>1, UnitsCutPending DEF Pending, TypeOK
  <2>3. todo'[sole] = units
    BY <2>1 DEF TypeOK
  <2>4. \A i \in 1..Len(units) : units[i] \subseteq Pending
    BY <2>2, ElementOfSeq DEF Cuts
  <2>5. Ahead'
    BY <1>6, <2>2, <2>3, <2>4 DEF Ahead, Cuts, Pending, Load
  <2> QED
    BY <1>1, <1>6, <2>5 DEF Load, Unpublished, AtMostOnce
<1>7. CASE Publish(sole)
  <2>1. Ahead' /\ Unit(sole) \subseteq Chunk /\ \A c \in Unit(sole) : row[c] = "uploaded"
    BY <1>7, AheadAdvance DEF Publish, Transaction
  <2>2. Unpublished' /\ AtMostOnce'
    BY <1>7, <2>1 DEF Publish, Transaction, Marked, Unpublished, AtMostOnce, TypeOK
  <2> QED
    BY <1>1, <2>1, <2>2
<1>8. CASE Skip(sole)
  <2>1. Ahead'
    BY <1>8, AheadAdvance DEF Skip, SkipTransaction
  <2>2. Unpublished' /\ AtMostOnce'
    BY <1>8 DEF Skip, SkipTransaction, Marked, Unpublished, AtMostOnce, TypeOK
  <2> QED
    BY <1>1, <2>1, <2>2
<1>9. CASE GiveUp(sole)
  <2>1. Ahead' /\ \A c \in Unit(sole) : row[c] = "uploaded"
    BY <1>9, AheadAdvance DEF GiveUp
  <2>2. Unpublished' /\ AtMostOnce'
    BY <1>9, <2>1 DEF GiveUp, Marked, Unpublished, AtMostOnce, TypeOK
  <2> QED
    BY <1>1, <2>1, <2>2
<1>10. CASE Crash(sole)
  <2>1. todo'[sole] = <<>> /\ Len(<<>>) = 0
    BY <1>10, EmptySeq DEF Crash, TypeOK
  <2> QED
    BY <1>1, <1>10, <2>1 DEF Crash, Ahead, Unpublished, AtMostOnce
<1>11. CASE UNCHANGED vars
  BY <1>1, <1>11 DEF vars, Ahead, Unpublished, AtMostOnce
<1> QED
  BY <1>2, <1>3, <1>4, <1>5, <1>6, <1>7, <1>8, <1>9, <1>10, <1>11
  DEF Next, Step, LoseAck

LEMMA SoleInductive ==
    ASSUME NEW sole, Worker = {sole}, ~AckLost
    PROVE  Spec => []SoleInv
<1>1. Init => SoleInv
  <2> SUFFICES ASSUME Init PROVE SoleInv
    OBVIOUS
  <2>1. \A w \in Worker : Len(todo[w]) = 0
    BY EmptySeq DEF Init
  <2> QED
    BY <2>1, InitType DEF Init, SoleInv, Ahead, Unpublished, AtMostOnce
<1>2. SoleInv /\ [Next]_vars => SoleInv'
  BY NextSole
<1> QED
  BY <1>1, <1>2, PTL DEF Spec

\* With one worker, and commits that answer, the transcripts of a chunk are committed
\* once at most, whatever fails, crashes or is registered again (run_once).
THEOREM OnceCorrect ==
    ASSUME NEW sole, Worker = {sole}, ~AckLost
    PROVE  Spec => []PublishedOncePerWorker
<1>1. SoleInv => PublishedOncePerWorker
  <2>1. Cardinality(Worker) = 1
    BY FS_Singleton
  <2> QED
    BY <2>1 DEF SoleInv, AtMostOnce, PublishedOncePerWorker
<1> QED
  BY <1>1, SoleInductive, PTL

\* A failed chunk has no transcripts: a unit is published as a whole or not at all
\* (_process_window, _process_room_batch).
THEOREM FailedCorrect ==
    ASSUME NEW sole, Worker = {sole}, ~AckLost
    PROVE  Spec => []FailedPublishedNothing
<1>1. SoleInv => FailedPublishedNothing
  BY DEF SoleInv, Unpublished, FailedPublishedNothing
<1> QED
  BY <1>1, SoleInductive, PTL

\* What one step can do to a row.
LEMMA RowSteps ==
    ASSUME NEW sole, Worker = {sole}, ~AckLost, SoleInv, [Next]_vars, NEW c \in Chunk
    PROVE  \/ row'[c] = row[c]
           \/ row[c] \in {"none", "failed"} /\ row'[c] = "uploaded"
           \/ row[c] = "uploaded" /\ row'[c] \in {"processed", "failed"}
<1> USE DEF SoleInv, TypeOK
<1>1. ASSUME row' = Marked(Unit(sole), "processed") \/ row' = Marked(Unit(sole), "failed"),
             \A d \in Unit(sole) : row[d] = "uploaded"
      PROVE  row'[c] = row[c] \/ (row[c] = "uploaded" /\ row'[c] \in {"processed", "failed"})
  BY <1>1 DEF Marked
<1>2. ASSUME NEW d \in Chunk, Register(d) \/ Requeue(d)
      PROVE  row'[c] = row[c] \/ (row[c] \in {"none", "failed"} /\ row'[c] = "uploaded")
  BY <1>2 DEF Register, Requeue
<1>3. CASE Tick \/ Start(sole) \/ Load(sole) \/ Fail(sole) \/ Crash(sole) \/ UNCHANGED vars
  BY <1>3 DEF Tick, Start, Load, Fail, Crash, vars
<1>4. CASE Publish(sole)
  BY <1>1, <1>4, AheadAdvance DEF Publish, Transaction
<1>5. CASE Skip(sole)
  BY <1>1, <1>5, AheadAdvance DEF Skip, SkipTransaction
<1>6. CASE GiveUp(sole)
  BY <1>1, <1>6, AheadAdvance DEF GiveUp
<1> QED
  BY <1>2, <1>3, <1>4, <1>5, <1>6 DEF Next, Step, LoseAck

LEMMA LedgerMove ==
    ASSUME TypeOK, TypeOK', NEW c \in Chunk,
           \/ row'[c] = row[c]
           \/ row[c] \in {"none", "failed"} /\ row'[c] = "uploaded"
           \/ row[c] = "uploaded" /\ row'[c] \in {"processed", "failed"}
    PROVE  [Ledger(c)!Next]_(StageOf(c))
<1>1. ASSUME NEW from, NEW to, StageOf(c)[c] = from, StageOf(c)'[c] = to
      PROVE  Ledger(c)!Move(c, from, to)
  BY <1>1 DEF StageOf, Ledger!Move
<1>2. CASE row'[c] = row[c]
  BY <1>2 DEF StageOf
<1>3. CASE row[c] = "none" /\ row'[c] = "uploaded"
  BY <1>1, <1>3 DEF StageOf, Ledger!Next, Ledger!Register
<1>4. CASE row[c] = "failed" /\ row'[c] = "uploaded"
  BY <1>1, <1>4 DEF StageOf, Ledger!Next, Ledger!Requeue
<1>5. CASE row[c] = "uploaded" /\ row'[c] = "processed"
  BY <1>1, <1>5 DEF StageOf, Ledger!Next, Ledger!Finish
<1>6. CASE row[c] = "uploaded" /\ row'[c] = "failed"
  BY <1>1, <1>6 DEF StageOf, Ledger!Next, Ledger!GiveUp
<1> QED
  BY <1>2, <1>3, <1>4, <1>5, <1>6

\* One worker keeps the ledger: a step settles many chunks, but each of them once, and
\* nothing follows processed (_mark_chunk_rows).
THEOREM LedgerKept ==
    ASSUME NEW sole, Worker = {sole}, ~AckLost
    PROVE  Spec => KeepsLedger
<1>1. SoleInv /\ SoleInv' /\ [Next]_vars =>
          [\A c \in Chunk : [Ledger(c)!Next]_(StageOf(c))]_vars
  BY RowSteps, LedgerMove DEF SoleInv
<1> QED
  BY <1>1, SoleInductive, PTL DEF Spec, KeepsLedger

--------------------------------------------------------------------------------
\* Any number of workers, where nobody registers a failed chunk again.

\* Unit i of w may still be published with chunk c.
MayPublish(w, i, c) == (i > 1 \/ pc[w] = "work") /\ c \in todo[w][i]

\* The workers that will not publish c any more, unless they load it once more.
DoneWith(c) == {w \in Worker : \A i \in 1..Len(todo[w]) : ~MayPublish(w, i, c)}

Disjoint ==
    \A w \in Worker : \A i, j \in 1..Len(todo[w]) : i # j => todo[w][i] \cap todo[w][j] = {}

OncePending == \A c \in Chunk : row[c] = "none" \/ row[c] = "uploaded" => runs[c] = 0

OnceEach == \A c \in Chunk : runs[c] <= Cardinality(DoneWith(c))

ManyInv == TypeOK /\ Disjoint /\ OncePending /\ OnceEach

LEMMA DoneIsFinite ==
    \A c \in Chunk : IsFiniteSet(DoneWith(c)) /\ Cardinality(DoneWith(c)) \in Nat
<1> SUFFICES ASSUME NEW c \in Chunk
             PROVE  IsFiniteSet(DoneWith(c)) /\ Cardinality(DoneWith(c)) \in Nat
  OBVIOUS
<1>1. IsFiniteSet(Worker) /\ DoneWith(c) \in SUBSET Worker
  BY WorkerAssumption DEF WorkerAssumption, DoneWith
<1> QED
  BY <1>1, FS_Subset, FS_CardinalityType

\* A chunk keeps its bound while no worker that was done with it takes it up again.
LEMMA DoneGrows ==
    ASSUME TypeOK, TypeOK', NEW c \in Chunk, DoneWith(c) \subseteq DoneWith(c)',
           runs[c] <= Cardinality(DoneWith(c)), runs'[c] = runs[c]
    PROVE  runs'[c] <= Cardinality(DoneWith(c)')
<1>1. IsFiniteSet(Worker) /\ DoneWith(c)' \in SUBSET Worker
  BY WorkerAssumption DEF WorkerAssumption, DoneWith
<1>2. IsFiniteSet(DoneWith(c)')
  BY <1>1, FS_Subset
<1>3. Cardinality(DoneWith(c)) <= Cardinality(DoneWith(c)') /\ Cardinality(DoneWith(c)') \in Nat
  BY <1>2, FS_Subset, FS_CardinalityType
<1> QED
  BY <1>3, DoneIsFinite DEF TypeOK

\* A worker that publishes a chunk was not done with it, and is so from then on.
LEMMA DoneByOneMore ==
    ASSUME TypeOK, TypeOK', NEW c \in Chunk, NEW w \in Worker,
           DoneWith(c) \subseteq DoneWith(c)', w \notin DoneWith(c), w \in DoneWith(c)',
           runs[c] <= Cardinality(DoneWith(c)), runs'[c] = runs[c] + 1
    PROVE  runs'[c] <= Cardinality(DoneWith(c)')
<1>1. IsFiniteSet(Worker) /\ DoneWith(c)' \in SUBSET Worker
  BY WorkerAssumption DEF WorkerAssumption, DoneWith
<1>2. IsFiniteSet(DoneWith(c)') /\ DoneWith(c) \cup {w} \in SUBSET DoneWith(c)'
  BY <1>1, FS_Subset
<1>3. Cardinality(DoneWith(c) \cup {w}) = Cardinality(DoneWith(c)) + 1
  BY DoneIsFinite, FS_AddElement
<1>4. /\ Cardinality(DoneWith(c) \cup {w}) <= Cardinality(DoneWith(c)')
      /\ Cardinality(DoneWith(c)') \in Nat
  BY <1>2, FS_Subset, FS_CardinalityType
<1> QED
  BY <1>3, <1>4, DoneIsFinite DEF TypeOK

\* What becomes of the units of a worker that goes on to the next one.
LEMMA AdvanceUnits ==
    ASSUME ManyInv, NEW w \in Worker, pc[w] \in {"work", "failing"}, Advance(w)
    PROVE  /\ Disjoint'
           /\ Unit(w) = todo[w][1] /\ Unit(w) \subseteq Chunk /\ 1 \in 1..Len(todo[w])
           /\ \A c \in Chunk : DoneWith(c) \subseteq DoneWith(c)'
           /\ \A c \in Unit(w) : w \in DoneWith(c)'
<1> USE DEF ManyInv
<1> DEFINE s == todo[w]
<1>1. s \in Seq(SUBSET Chunk) /\ s # <<>> /\ todo'[w] = Tail(s)
  BY DEF TypeOK, Advance
<1>2. Len(s) \in Nat \ {0} /\ Head(s) = s[1] /\ s[1] \in SUBSET Chunk
  BY <1>1, EmptySeq, ElementOfSeq
<1>3. /\ Len(Tail(s)) = Len(s) - 1
      /\ \A i \in 1..Len(Tail(s)) : Tail(s)[i] = s[i + 1]
  BY <1>1, <1>2, HeadTailProperties
<1>4. \A v \in Worker \ {w} : todo'[v] = todo[v] /\ pc'[v] = pc[v]
  BY DEF TypeOK, Advance
<1>5. \A i, j \in 1..Len(s) : i # j => s[i] \cap s[j] = {}
  BY DEF Disjoint
<1>6. \A i \in 1..Len(Tail(s)) : i + 1 \in 1..Len(s) /\ i + 1 # 1
  BY <1>2, <1>3
<1> HIDE DEF s
<1>7. \A i, j \in 1..Len(Tail(s)) : i # j => Tail(s)[i] \cap Tail(s)[j] = {}
  BY <1>3, <1>5, <1>6
<1>8. Disjoint'
  <2> SUFFICES ASSUME NEW v \in Worker
               PROVE  \A i, j \in 1..Len(todo'[v]) : i # j => todo'[v][i] \cap todo'[v][j] = {}
    BY DEF Disjoint
  <2>1. CASE v = w
    BY <1>1, <1>7, <2>1
  <2>2. CASE v # w
    BY <1>4, <2>2 DEF Disjoint
  <2> QED
    BY <2>1, <2>2
<1>9. \A c \in Chunk : DoneWith(c) \subseteq DoneWith(c)'
  <2> SUFFICES ASSUME NEW c \in Chunk, NEW v \in DoneWith(c) PROVE v \in DoneWith(c)'
    OBVIOUS
  <2>1. CASE v = w
    <3>1. \A i \in 1..Len(Tail(s)) : c \notin Tail(s)[i]
      BY <1>3, <1>6, <2>1 DEF DoneWith, MayPublish, s
    <3> QED
      BY <1>1, <2>1, <3>1 DEF DoneWith, MayPublish
  <2>2. CASE v # w
    BY <1>4, <2>2 DEF DoneWith, MayPublish
  <2> QED
    BY <2>1, <2>2
<1>10. \A c \in s[1] : w \in DoneWith(c)'
  <2> SUFFICES ASSUME NEW c \in s[1] PROVE w \in DoneWith(c)'
    OBVIOUS
  <2>1. \A i \in 1..Len(Tail(s)) : c \notin Tail(s)[i]
    BY <1>2, <1>3, <1>5, <1>6
  <2> QED
    BY <1>1, <2>1 DEF DoneWith, MayPublish
<1> QED
  BY <1>2, <1>8, <1>9, <1>10 DEF Unit, s

LEMMA NextMany == ASSUME ~MayRequeue, ManyInv, [Next]_vars PROVE ManyInv'
<1>1. TypeOK'
  BY NextType DEF ManyInv
<1> USE DEF ManyInv
<1>2. ASSUME UNCHANGED <<runs, pc, todo>>, OncePending' PROVE ManyInv'
  BY <1>1, <1>2 DEF Disjoint, OnceEach, DoneWith, MayPublish
<1>3. CASE Tick
  BY <1>2, <1>3 DEF Tick, OncePending
<1>4. ASSUME NEW c \in Chunk, Register(c) PROVE ManyInv'
  BY <1>2, <1>4 DEF Register, OncePending, TypeOK
<1>5. ASSUME NEW w \in Worker, Start(w) PROVE ManyInv'
  <2>1. todo[w] = <<>> /\ Len(todo[w]) = 0
    BY <1>5, EmptySeq DEF Start, TypeOK
  <2>2. \A c \in Chunk : DoneWith(c) \subseteq DoneWith(c)'
    BY <1>5, <2>1 DEF Start, DoneWith, MayPublish, TypeOK
  <2>3. OnceEach'
    BY <1>1, <1>5, <2>2, DoneGrows DEF Start, OnceEach
  <2> QED
    BY <1>1, <1>5, <2>3 DEF Start, Disjoint, OncePending
<1>6. ASSUME NEW w \in Worker, Load(w) PROVE ManyInv'
  <2>1. PICK units : units = Units(Pending, now) /\ todo' = [todo EXCEPT ![w] = units]
    BY <1>6 DEF Load
  <2>2. Cuts(units, Pending)
    BY <2>1, UnitsCutPending DEF Pending, TypeOK
  <2>3. todo'[w] = units /\ \A v \in Worker \ {w} : todo'[v] = todo[v] /\ pc'[v] = pc[v]
    BY <1>6, <2>1 DEF TypeOK, Load
  <2>4. \A i \in 1..Len(units) : units[i] \subseteq Pending
    BY <2>2, ElementOfSeq DEF Cuts
  <2>5. Disjoint'
    BY <2>2, <2>3 DEF Disjoint, Cuts
  <2>6. ASSUME NEW c \in Chunk PROVE runs'[c] <= Cardinality(DoneWith(c)')
    <3>1. CASE c \in Pending
      <4>1. runs'[c] = 0
        BY <1>6, <3>1 DEF Load, OncePending, Pending
      <4>2. IsFiniteSet(Worker) /\ DoneWith(c)' \in SUBSET Worker
        BY WorkerAssumption DEF WorkerAssumption, DoneWith
      <4>3. Cardinality(DoneWith(c)') \in Nat
        BY <4>2, FS_Subset, FS_CardinalityType
      <4> QED
        BY <4>1, <4>3
    <3>2. CASE c \notin Pending
      <4>1. \A i \in 1..Len(units) : c \notin units[i]
        BY <2>4, <3>2
      <4>2. DoneWith(c) \subseteq DoneWith(c)'
        BY <2>3, <4>1 DEF DoneWith, MayPublish
      <4> QED
        BY <1>1, <1>6, <4>2, DoneGrows DEF Load, OnceEach
    <3> QED
      BY <3>1, <3>2
  <2> QED
    BY <1>1, <1>6, <2>5, <2>6 DEF Load, OncePending, OnceEach
<1>7. ASSUME NEW w \in Worker, Publish(w) PROVE ManyInv'
  <2>1. /\ Disjoint'
        /\ Unit(w) = todo[w][1] /\ Unit(w) \subseteq Chunk /\ 1 \in 1..Len(todo[w])
        /\ \A c \in Chunk : DoneWith(c) \subseteq DoneWith(c)'
        /\ \A c \in Unit(w) : w \in DoneWith(c)'
    BY <1>7, AdvanceUnits DEF Publish
  <2>2. \A c \in Unit(w) : w \notin DoneWith(c) /\ runs'[c] = runs[c] + 1
    BY <1>7, <2>1 DEF Publish, Transaction, DoneWith, MayPublish
  <2>3. \A c \in Chunk \ Unit(w) : runs'[c] = runs[c]
    BY <1>7 DEF Publish, Transaction
  <2>4. ASSUME NEW c \in Chunk PROVE runs'[c] <= Cardinality(DoneWith(c)')
    <3>1. CASE c \in Unit(w)
      BY <1>1, <2>1, <2>2, <3>1, DoneByOneMore DEF OnceEach
    <3>2. CASE c \notin Unit(w)
      BY <1>1, <2>1, <2>3, <3>2, DoneGrows DEF OnceEach
    <3> QED
      BY <3>1, <3>2
  <2>5. OncePending'
    BY <1>7 DEF Publish, Transaction, Marked, OncePending
  <2> QED
    BY <1>1, <2>1, <2>4, <2>5 DEF OnceEach
<1>8. ASSUME NEW w \in Worker, Skip(w) \/ GiveUp(w) PROVE ManyInv'
  <2>1. Disjoint' /\ \A c \in Chunk : DoneWith(c) \subseteq DoneWith(c)'
    BY <1>8, AdvanceUnits DEF Skip, GiveUp
  <2>2. OnceEach'
    BY <1>1, <1>8, <2>1, DoneGrows DEF Skip, GiveUp, OnceEach
  <2>3. OncePending'
    BY <1>8 DEF Skip, SkipTransaction, GiveUp, Marked, OncePending
  <2> QED
    BY <1>1, <2>1, <2>2, <2>3
<1>9. ASSUME NEW w \in Worker, pc[w] = "work", Failing(w), UNCHANGED todo
      PROVE  /\ Disjoint' /\ 1 \in 1..Len(todo[w])
             /\ Unit(w) = todo[w][1] /\ Unit(w) \subseteq Chunk
             /\ \A c \in Chunk : DoneWith(c) \subseteq DoneWith(c)'
             /\ \A c \in Unit(w) : w \notin DoneWith(c) /\ w \in DoneWith(c)'
  <2>1. todo[w] \in Seq(SUBSET Chunk) /\ todo[w] # <<>>
    BY <1>9 DEF TypeOK
  <2>2. /\ Len(todo[w]) \in Nat \ {0} /\ Head(todo[w]) = todo[w][1]
        /\ todo[w][1] \in SUBSET Chunk
    BY <2>1, EmptySeq, ElementOfSeq
  <2>3. \A v \in Worker \ {w} : pc'[v] = pc[v]
    BY <1>9 DEF Failing, TypeOK
  <2>4. pc'[w] = "failing"
    BY <1>9 DEF Failing, TypeOK
  <2>5. \A c \in Chunk : DoneWith(c) \subseteq DoneWith(c)'
    BY <1>9, <2>3, <2>4 DEF DoneWith, MayPublish
  <2>6. ASSUME NEW c \in Unit(w) PROVE w \notin DoneWith(c) /\ w \in DoneWith(c)'
    <3>1. \A i \in 1..Len(todo[w]) : i # 1 => c \notin todo[w][i]
      BY <2>2, <2>6 DEF Disjoint, Unit
    <3> QED
      BY <1>9, <2>2, <2>4, <2>6, <3>1 DEF DoneWith, MayPublish, Unit
  <2> QED
    BY <1>9, <2>2, <2>5, <2>6 DEF Disjoint, Unit
<1>10. ASSUME NEW w \in Worker, Fail(w) PROVE ManyInv'
  <2>1. Disjoint' /\ \A c \in Chunk : DoneWith(c) \subseteq DoneWith(c)'
    BY <1>9, <1>10 DEF Fail
  <2>2. OnceEach'
    BY <1>1, <1>10, <2>1, DoneGrows DEF Fail, OnceEach
  <2> QED
    BY <1>1, <1>10, <2>1, <2>2 DEF Fail, OncePending
<1>11. ASSUME NEW w \in Worker, LoseAck(w) PROVE ManyInv'
  <2>1. /\ Disjoint'
        /\ \A c \in Chunk : DoneWith(c) \subseteq DoneWith(c)'
        /\ \A c \in Unit(w) : w \notin DoneWith(c) /\ w \in DoneWith(c)'
    BY <1>9, <1>11 DEF LoseAck
  <2>2. \/ row' = Marked(Unit(w), "processed") /\ UNCHANGED runs
        \/ Transaction(w)
    BY <1>11 DEF LoseAck, SkipTransaction
  <2>3. ASSUME NEW c \in Chunk PROVE runs'[c] <= Cardinality(DoneWith(c)')
    <3>1. CASE runs'[c] = runs[c]
      BY <1>1, <2>1, <3>1, DoneGrows DEF OnceEach
    <3>2. CASE c \in Unit(w) /\ runs'[c] = runs[c] + 1
      BY <1>1, <2>1, <3>2, DoneByOneMore DEF OnceEach
    <3> QED
      BY <2>2, <3>1, <3>2 DEF Transaction
  <2>4. OncePending'
    BY <2>2 DEF Transaction, Marked, OncePending
  <2> QED
    BY <1>1, <2>1, <2>3, <2>4 DEF OnceEach
<1>12. ASSUME NEW w \in Worker, Crash(w) PROVE ManyInv'
  <2>1. todo'[w] = <<>> /\ Len(<<>>) = 0
    BY <1>12, EmptySeq DEF Crash, TypeOK
  <2>2. \A v \in Worker \ {w} : todo'[v] = todo[v] /\ pc'[v] = pc[v]
    BY <1>12 DEF Crash, TypeOK
  <2>3. \A c \in Chunk : DoneWith(c) \subseteq DoneWith(c)'
    BY <2>1, <2>2 DEF DoneWith, MayPublish
  <2>4. OnceEach'
    BY <1>1, <1>12, <2>3, DoneGrows DEF Crash, OnceEach
  <2>5. Disjoint'
    BY <2>1, <2>2 DEF Disjoint
  <2> QED
    BY <1>1, <1>12, <2>4, <2>5 DEF Crash, OncePending
<1>13. CASE UNCHANGED vars
  BY <1>2, <1>13 DEF vars, OncePending
<1> QED
  BY <1>3, <1>4, <1>5, <1>6, <1>7, <1>8, <1>10, <1>11, <1>12, <1>13
  DEF Next, Step, Requeue

\* Where nobody registers a failed chunk again, any number of workers, with commits that
\* lose their answer, publish a chunk once each at most: a worker publishes only what it
\* has loaded, and what was ever published is never loaded again (run_once).
THEOREM OncePerWorkerCorrect ==
    ASSUME ~MayRequeue
    PROVE  Spec => []PublishedOncePerWorker
<1>1. Init => ManyInv
  <2> SUFFICES ASSUME Init PROVE ManyInv
    OBVIOUS
  <2>1. \A w \in Worker : Len(todo[w]) = 0
    BY EmptySeq DEF Init
  <2> QED
    BY <2>1, InitType, DoneIsFinite DEF Init, ManyInv, Disjoint, OncePending, OnceEach
<1>2. ManyInv /\ [Next]_vars => ManyInv'
  BY NextMany
<1>3. ManyInv => PublishedOncePerWorker
  <2> SUFFICES ASSUME ManyInv, NEW c \in Chunk PROVE runs[c] <= Cardinality(Worker)
    BY DEF PublishedOncePerWorker
  <2>1. IsFiniteSet(Worker) /\ DoneWith(c) \in SUBSET Worker
    BY WorkerAssumption DEF WorkerAssumption, DoneWith
  <2>2. Cardinality(DoneWith(c)) <= Cardinality(Worker) /\ Cardinality(Worker) \in Nat
    BY <2>1, FS_Subset, FS_CardinalityType
  <2> QED
    BY <2>2, DoneIsFinite DEF ManyInv, OnceEach, TypeOK
<1> QED
  BY <1>1, <1>2, <1>3, PTL DEF Spec
================================================================================
