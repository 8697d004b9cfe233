--------------------------------- MODULE Worker --------------------------------
(***************************************************************************)
(* The pipeline worker: a pass loads the rows of aa_audio_chunks that are  *)
(* uploaded, cuts them into units of work (windows of the ordinary sources *)
(* and batches of the room), and settles one unit after the other in       *)
(* transactions of their own.  Between the load and a unit's transaction   *)
(* lie minutes of vendor calls, so that chunks arrive, other workers work  *)
(* and crashes happen in between.  The launchd job, a manual `worker       *)
(* run-once` and the prompt after an import are workers of one database,   *)
(* and nothing claims a chunk.                                             *)
(***************************************************************************)
EXTENDS Naturals, FiniteSets, Sequences

CONSTANTS
    Worker,       \* worker processes on the database
    Chunk,        \* chunks, of all sources
    Room,         \* those of the room source
    EndOf(_),     \* the end of a chunk
    Windows(_),   \* windows of a set of ordinary chunks, in the order of work
    Batches(_,_), \* batches of a set of room chunks that are ready at a time
    AckLost,      \* whether the answer to a COMMIT can be lost
    MayRequeue,   \* whether an uploader registers a failed chunk again
    MaxNow,       \* bound: the clock
    MaxFaults     \* bound: errors and crashes in one behaviour

\* What the proofs need of windows and batches: they are made of chunks of the pass,
\* and no chunk is in two of them.
Cuts(units, S) ==
    /\ units \in Seq(SUBSET S)
    /\ \A i, j \in 1..Len(units) : i # j => units[i] \cap units[j] = {}

ASSUME WorkerAssumption ==
    /\ IsFiniteSet(Worker)
    /\ Room \subseteq Chunk
    /\ \A c \in Chunk : EndOf(c) \in Nat
    /\ \A S \in SUBSET (Chunk \ Room) : Cuts(Windows(S), S)
    /\ \A S \in SUBSET Room : \A t \in 0..MaxNow : Cuts(Batches(S, t), S)
    /\ AckLost \in BOOLEAN
    /\ MayRequeue \in BOOLEAN
    /\ MaxNow \in Nat
    /\ MaxFaults \in Nat

VARIABLES
    now,      \* the clock of the workers
    row,      \* status of a chunk's row, "none" when there is none
    runs,     \* transactions that committed transcripts of a chunk
    skipped,  \* chunks settled in a batch without speech or without utterances
    pc,       \* "down", "idle", "work" on the first unit, or "failing" with it
    todo,     \* the units of the pass that are left
    faults    \* how many faults have happened (bounded by MaxFaults)

vars == <<now, row, runs, skipped, pc, todo, faults>>

Pending == {c \in Chunk : row[c] = "uploaded"}

Unit(w) == Head(todo[w])

Init ==
    /\ now = 0
    /\ row = [c \in Chunk |-> "none"]
    /\ runs = [c \in Chunk |-> 0]
    /\ skipped = {}
    /\ pc = [w \in Worker |-> "down"]
    /\ todo = [w \in Worker |-> <<>>]
    /\ faults = 0

Fault == faults < MaxFaults /\ faults' = faults + 1

--------------------------------------------------------------------------------
\* An uploader registers a chunk that has ended, or one that failed meanwhile whose
\* registration it believes lost.

Register(c) ==
    /\ row[c] = "none"
    /\ EndOf(c) <= now
    /\ row' = [row EXCEPT ![c] = "uploaded"]
    /\ UNCHANGED <<now, runs, skipped, pc, todo, faults>>

Requeue(c) ==
    /\ MayRequeue
    /\ row[c] = "failed"
    /\ Fault
    /\ row' = [row EXCEPT ![c] = "uploaded"]
    /\ UNCHANGED <<now, runs, skipped, pc, todo>>

Tick ==
    /\ now < MaxNow
    /\ now' = now + 1
    /\ UNCHANGED <<row, runs, skipped, pc, todo, faults>>

--------------------------------------------------------------------------------
\* One pass.

Start(w) ==
    /\ pc[w] = "down"
    /\ pc' = [pc EXCEPT ![w] = "idle"]
    /\ UNCHANGED <<now, row, runs, skipped, todo, faults>>

Units(S, t) == Windows(S \ Room) \o Batches(S \cap Room, t)

\* A pass that finds nothing to do leaves no trace.
Load(w) ==
    /\ pc[w] = "idle"
    /\ \E units \in {Units(Pending, now)} :
          /\ units # <<>>
          /\ todo' = [todo EXCEPT ![w] = units]
    /\ pc' = [pc EXCEPT ![w] = "work"]
    /\ UNCHANGED <<now, row, runs, skipped, faults>>

\* The unit is done with; the pass goes on with the next one or ends.
Advance(w) ==
    /\ todo' = [todo EXCEPT ![w] = Tail(@)]
    /\ pc' = [pc EXCEPT ![w] = IF Len(todo[w]) = 1 THEN "idle" ELSE "work"]

\* _mark_chunk_rows: the status is set whatever it has become since the load.
Marked(S, status) == [c \in Chunk |-> IF c \in S THEN status ELSE row[c]]

\* A variant of Transaction: the status is left for the next pass to set.
TransactionUnmarked(w) ==
    /\ runs' = [c \in Chunk |-> IF c \in Unit(w) THEN runs[c] + 1 ELSE runs[c]]
    /\ UNCHANGED row

\* The transaction of a unit: candidates, canonical rows and the status of all of its
\* chunks (what the rows say is in PassOutput and RoomTranscript).
Transaction(w) ==
    /\ row' = Marked(Unit(w), "processed")
    /\ runs' = [c \in Chunk |-> IF c \in Unit(w) THEN runs[c] + 1 ELSE runs[c]]

Publish(w) ==
    /\ pc[w] = "work"
    /\ Transaction(w)
    /\ Advance(w)
    /\ UNCHANGED <<now, skipped, faults>>

\* A variant of Skip: the batch is passed over.
SkipUnmarked(w) ==
    /\ pc[w] = "work"
    /\ Unit(w) \subseteq Room
    /\ Advance(w)
    /\ UNCHANGED <<now, row, runs, skipped, faults>>

\* The transaction of a batch with too little speech, or in which the vendor heard
\* nothing.
SkipTransaction(w) ==
    /\ Unit(w) \subseteq Room
    /\ row' = Marked(Unit(w), "processed")
    /\ skipped' = skipped \cup Unit(w)

Skip(w) ==
    /\ pc[w] = "work"
    /\ SkipTransaction(w)
    /\ Advance(w)
    /\ UNCHANGED <<now, runs, faults>>

Failing(w) == pc' = [pc EXCEPT ![w] = "failing"]

\* A variant of Fail: a transaction for each chunk, some of them committed.
FailHalfway(w) ==
    /\ pc[w] = "work"
    /\ Fault
    /\ \E done \in SUBSET Unit(w) :
          /\ row' = Marked(done, "processed")
          /\ runs' = [c \in Chunk |-> IF c \in done THEN runs[c] + 1 ELSE runs[c]]
    /\ Failing(w)
    /\ UNCHANGED <<now, skipped, todo>>

\* Anything raised before the commit: the transaction is rolled back.
Fail(w) ==
    /\ pc[w] = "work"
    /\ Fault
    /\ Failing(w)
    /\ UNCHANGED <<now, row, runs, skipped, todo>>

\* The commit takes effect, but raises.
LoseAck(w) ==
    /\ AckLost
    /\ pc[w] = "work"
    /\ Fault
    /\ \/ Transaction(w) /\ UNCHANGED skipped
       \/ SkipTransaction(w) /\ UNCHANGED runs
    /\ Failing(w)
    /\ UNCHANGED <<now, todo>>

\* Variants of GiveUp: a status nothing else knows, and one that hides the failure.
GiveUpUnknown(w) ==
    /\ pc[w] = "failing"
    /\ row' = Marked(Unit(w), "error")
    /\ Advance(w)
    /\ UNCHANGED <<now, runs, skipped, faults>>

GiveUpSilently(w) ==
    /\ pc[w] = "failing"
    /\ row' = Marked(Unit(w), "processed")
    /\ Advance(w)
    /\ UNCHANGED <<now, runs, skipped, faults>>

\* The whole unit is marked as failed, in a transaction of its own.
GiveUp(w) ==
    /\ pc[w] = "failing"
    /\ row' = Marked(Unit(w), "failed")
    /\ Advance(w)
    /\ UNCHANGED <<now, runs, skipped, faults>>

\* Also what an error in the load or in marking the failed unit comes to: run()
\* catches nothing but the keyboard interrupt.
Crash(w) ==
    /\ pc[w] # "down"
    /\ Fault
    /\ pc' = [pc EXCEPT ![w] = "down"]
    /\ todo' = [todo EXCEPT ![w] = <<>>]
    /\ UNCHANGED <<now, row, runs, skipped>>

--------------------------------------------------------------------------------
Step(w) == Load(w) \/ Publish(w) \/ Skip(w) \/ GiveUp(w)

Next ==
    \/ Tick
    \/ \E c \in Chunk : Register(c) \/ Requeue(c)
    \/ \E w \in Worker : Start(w) \/ Step(w) \/ Fail(w) \/ LoseAck(w) \/ Crash(w)

Spec == Init /\ [][Next]_vars

\* launchd restarts a worker, its thread runs, and time goes on.
Fairness == WF_vars(Tick) /\ \A w \in Worker : WF_vars(Start(w)) /\ WF_vars(Step(w))

FairSpec == Spec /\ Fairness

--------------------------------------------------------------------------------
TypeOK ==
    /\ now \in 0..MaxNow
    /\ row \in [Chunk -> {"none", "uploaded", "processed", "failed"}]
    /\ runs \in [Chunk -> Nat]
    /\ skipped \subseteq Chunk
    /\ pc \in [Worker -> {"down", "idle", "work", "failing"}]
    /\ todo \in [Worker -> Seq(SUBSET Chunk)]
    /\ \A w \in Worker : todo[w] = <<>> <=> pc[w] \in {"down", "idle"}
    /\ faults \in 0..MaxFaults

\* A processed row is never a lost one: its transcripts were committed, or its batch
\* had none.  It holds for any number of workers, lost answers and crashes, although
\* marking ignores what the status has become (_mark_chunk_rows).
ProcessedIsAccounted ==
    \A c \in Chunk : row[c] = "processed" => runs[c] > 0 \/ c \in skipped

\* The transcripts of a chunk are committed once per worker at most: a crash or a
\* failure between load and commit repeats work but no output.  With one worker
\* there are no duplicates; two make them, since nothing claims a chunk (run_once).
PublishedOncePerWorker == \A c \in Chunk : runs[c] <= Cardinality(Worker)

\* A failed unit left nothing behind: what is published in part is rolled back
\* before the unit is marked (_process_window, _process_room_batch).
FailedPublishedNothing == \A c \in Chunk : row[c] = "failed" => runs[c] = 0

\* Every registered chunk is processed or failed in the end, also one of the room
\* that waits for its window to fill (run, select_room_windows).
SettlesEventually ==
    \A c \in Chunk : row[c] = "uploaded" ~> row[c] \in {"processed", "failed"}

\* "if transcription fails for a chunk, the chunk is retried without losing the raw
\* audio": a failed chunk is worked on again.
FailedIsRetried == \A c \in Chunk : row[c] = "failed" ~> row[c] # "failed"

\* The stage of a chunk; what comes before its registration is not the worker's.
StageOf(c) == [x \in {c} |-> IF row[x] = "none" THEN "spooled" ELSE row[x]]

Ledger(c) ==
    INSTANCE ChunkLedger WITH Chunk <- {c}, Quiet <- {}, ledger <- StageOf(c)

\* The worker keeps the ledger of every chunk: one transaction settles many chunks,
\* but each is settled once, and nothing follows processed.
KeepsLedger == [][\A c \in Chunk : [Ledger(c)!Next]_(StageOf(c))]_vars
================================================================================
