----------------------------- MODULE CaptureUpload -----------------------------
(***************************************************************************)
(* The path of a recorded chunk out of one capture machine: ffmpeg writes  *)
(* it into the local spool, the agent's upload pass puts it in S3,         *)
(* registers it in aa_audio_chunks and deletes the file, or moves it to    *)
(* the retry directory and tries again in a later pass.                    *)
(*                                                                         *)
(* The agent is one thread; its statements that touch the disk, S3 or the  *)
(* database are separate actions, so that ffmpeg, the worker, a crash, an  *)
(* outage or a shutdown signal can come between any two of them.  ffmpeg   *)
(* runs in a session of its own, so it goes on writing when the agent      *)
(* dies.  Every file that is not a chunk of this machine is left out, and  *)
(* a file's content is its length in blocks: that is all the stable-poll   *)
(* test and the properties tell apart.                                     *)
(***************************************************************************)
EXTENDS Naturals, FiniteSets

CONSTANTS
    Chunk,           \* the chunk files this machine records
    Quiet,           \* those whose peak volume is under the silence threshold
    FilterSilence,   \* silence_filter_enabled
    WriterMayStall,  \* whether ffmpeg may leave its open file unchanged for a
                     \* whole poll interval (a hung device, a suspended process)
    MaxBacklog,      \* max_backlog_files
    MaxSize,         \* bound: blocks of audio in a file
    MaxFaults,       \* bound: outages, crashes and signals in one behaviour
    NoChunk          \* no entry is being uploaded

ASSUME CaptureAssumption ==
    /\ IsFiniteSet(Chunk)
    /\ Quiet \subseteq Chunk
    /\ FilterSilence \in BOOLEAN
    /\ WriterMayStall \in BOOLEAN
    /\ MaxBacklog \in Nat \ {0}
    /\ MaxSize \in Nat \ {0}
    /\ MaxFaults \in Nat
    /\ NoChunk \notin Chunk

VARIABLES
    loc,      \* where the wav is: "unborn", "root", "retry" or "gone"
    writing,  \* the files some ffmpeg still holds open
    size,     \* blocks ffmpeg has written to the file
    due,      \* the chunks whose start lies at least one segment back
    sidecar,  \* the retry metadata file: "none", "torn" (not valid JSON) or "whole"
    object,   \* blocks in the S3 object of the chunk, 0 when there is none
    row,      \* status of its aa_audio_chunks row, "none" when there is none
    pc,       \* the statement the agent executes next, "down" when it is not running
    batch,    \* entries of the current upload pass not handled yet
    cur,      \* the entry being uploaded
    from,     \* the directory cur was in when the pass listed it
    read,     \* the status register_uploaded_chunk read for cur
    seen,     \* length at the last poll of a file in root, 0 when not observed
    shutdown, \* "pending" once a signal reached the agent and it went on
    faults    \* how many faults have happened (bounded by MaxFaults)

disk == <<loc, writing, size, due, sidecar>>
cloud == <<object, row>>
agent == <<pc, batch, cur, from, read, seen, shutdown>>
vars == <<loc, writing, size, due, sidecar, object, row,
          pc, batch, cur, from, read, seen, shutdown, faults>>

InRoot == {c \in Chunk : loc[c] = "root"}
InRetry == {c \in Chunk : loc[c] = "retry"}

\* Statements inside the try block of _upload_entry: whatever is raised there,
\* a shutdown signal included, is caught and leads to mark_failed.
TryBlock == {"put", "lookup", "commit", "remove", "sweep"}

Statement ==
    TryBlock \cup {"down", "idle", "discard", "sweepQuiet", "fail", "note", "write"}

Init ==
    /\ loc = [c \in Chunk |-> "unborn"]
    /\ writing = {}
    /\ size = [c \in Chunk |-> 0]
    /\ due = {}
    /\ sidecar = [c \in Chunk |-> "none"]
    /\ object = [c \in Chunk |-> 0]
    /\ row = [c \in Chunk |-> "none"]
    /\ pc = "down"
    /\ batch = {}
    /\ cur = NoChunk
    /\ from = "root"
    /\ read = "none"
    /\ seen = [c \in Chunk |-> 0]
    /\ shutdown = "none"
    /\ faults = 0

Fault == faults < MaxFaults /\ faults' = faults + 1

--------------------------------------------------------------------------------
\* ffmpeg and the clock (external): a segment is opened in root, grows and is
\* closed, at its end or when the recorder is stopped or dies.

Record(c) ==
    /\ loc[c] = "unborn"
    /\ loc' = [loc EXCEPT ![c] = "root"]
    /\ writing' = writing \cup {c}
    /\ UNCHANGED <<size, due, sidecar, cloud, agent, faults>>

Grow(c) ==
    /\ c \in writing
    /\ size[c] < MaxSize
    /\ size' = [size EXCEPT ![c] = @ + 1]
    /\ UNCHANGED <<loc, writing, due, sidecar, cloud, agent, faults>>

Close(c) ==
    /\ c \in writing
    /\ writing' = writing \ {c}
    /\ UNCHANGED <<loc, size, due, sidecar, cloud, agent, faults>>

Age(c) ==
    /\ loc[c] # "unborn"
    /\ c \notin due
    /\ due' = due \cup {c}
    /\ UNCHANGED <<loc, writing, size, sidecar, cloud, agent, faults>>

\* The pipeline worker settles a chunk it found uploaded.
Settle(c) ==
    /\ row[c] = "uploaded"
    /\ \E s \in {"processed", "failed"} : row' = [row EXCEPT ![c] = s]
    /\ UNCHANGED <<disk, object, agent, faults>>

--------------------------------------------------------------------------------
\* The agent starts (launchd's KeepAlive starts it again after every exit) and
\* ends; what it knew of the files in root is gone with it.

Start ==
    /\ pc = "down"
    /\ pc' = "idle"
    /\ UNCHANGED <<disk, cloud, batch, cur, from, read, seen, shutdown, faults>>

Die ==
    /\ pc' = "down"
    /\ batch' = {}
    /\ cur' = NoChunk
    /\ from' = "root"
    /\ read' = "none"
    /\ seen' = [c \in Chunk |-> 0]
    /\ shutdown' = "none"

Crash ==
    /\ pc # "down"
    /\ Fault
    /\ Die
    /\ UNCHANGED <<disk, cloud>>

--------------------------------------------------------------------------------
\* One upload pass: iter_ready lists the entries, then each is uploaded.

\* A variant of Candidates: retry files are never listed again.
RootOnly == InRoot

\* With the retry directory full, only what is in it is looked at.
Candidates ==
    IF Cardinality(InRetry) >= MaxBacklog THEN InRetry ELSE InRoot \cup InRetry

\* Not empty and not written to for settle_seconds; of the files still open, those
\* in paused happen to look so.
Settled(paused) == {c \in Candidates : size[c] > 0 /\ (c \in writing => c \in paused)}

\* A variant of RequiresAdditionalPoll: the modification time alone decides.
SettledIsEnough(c) == FALSE

\* A file in root must look the same as at the previous poll.
RequiresAdditionalPoll(c) == loc[c] = "root" /\ seen[c] # size[c]

Ready(paused) == {c \in Settled(paused) : ~RequiresAdditionalPoll(c)}

\* A recorder that does not stall changes its file between any two polls.
WritersProgressed ==
    WriterMayStall \/ \A c \in writing : seen[c] > 0 => seen[c] # size[c]

Observe(paused) ==
    [c \in Chunk |-> IF loc[c] # "root" THEN 0
                     ELSE IF c \in Settled(paused) THEN size[c] ELSE seen[c]]

\* Metadata that does not parse raises out of the pass and ends the agent.
Poll ==
    /\ pc = "idle" /\ batch = {}
    /\ WritersProgressed
    /\ \E paused \in SUBSET writing :
          \/ /\ \E c \in Ready(paused) : sidecar[c] = "torn"
             /\ Die
          \/ /\ \A c \in Ready(paused) : sidecar[c] # "torn"
             /\ batch' = Ready(paused) \cap due
             /\ seen' = Observe(paused)
             /\ UNCHANGED <<pc, cur, from, read, shutdown>>
    /\ UNCHANGED <<disk, cloud, faults>>

\* A variant of IsSilent: any analysed chunk counts as silent.
EverySilenceCheckHits(c) == FilterSilence

\* The peak volume is below the threshold (_is_silent).
IsSilent(c) == FilterSilence /\ c \in Quiet

\* Silence analysis of the next entry.  A failed analysis, and a shutdown signal
\* that arrives during it, count as not silent.
Screen(c) ==
    /\ pc = "idle" /\ c \in batch
    /\ cur' = c
    /\ from' = loc[c]
    /\ \/ /\ IsSilent(c)
          /\ pc' = "discard"
          /\ UNCHANGED <<shutdown, faults>>
       \/ /\ ~IsSilent(c)
          /\ pc' = "put"
          /\ UNCHANGED <<shutdown, faults>>
       \/ /\ FilterSilence
          /\ Fault
          /\ pc' = "put"
          /\ shutdown' \in {shutdown, "pending"}
    /\ UNCHANGED <<disk, cloud, batch, read, seen>>

\* A variant of PutObject: an error of the S3 client is not noticed.
PutSwallowingErrors ==
    /\ pc = "put"
    /\ object' \in {object, [object EXCEPT ![cur] = size[cur]]}
    /\ pc' = "lookup"
    /\ UNCHANGED <<disk, row, batch, cur, from, read, seen, shutdown, faults>>

\* The file's bytes as they are now become the object (upload_chunk).
PutObject ==
    /\ pc = "put"
    /\ object' = [object EXCEPT ![cur] = size[cur]]
    /\ pc' = "lookup"
    /\ UNCHANGED <<disk, row, batch, cur, from, read, seen, shutdown, faults>>

\* register_uploaded_chunk selects the row by bucket and key ...
Lookup ==
    /\ pc = "lookup"
    /\ read' = row[cur]
    /\ pc' = "commit"
    /\ UNCHANGED <<disk, cloud, batch, cur, from, seen, shutdown, faults>>

\* Variants of Registered: the status is written whatever it was read as, or with
\* a value that the worker does not look for.
RegisteredFromStaleRead ==
    [row EXCEPT ![cur] = IF read = "processed" THEN @ ELSE "uploaded"]

RegisteredAsNew ==
    [row EXCEPT ![cur] = IF read \in {"none", "failed"} THEN "new" ELSE @]

\* ... and the transaction writes the columns that differ from what was read: a
\* missing row is inserted, a failed one is reset, any other keeps its status.
Registered ==
    [row EXCEPT ![cur] = IF read \in {"none", "failed"} THEN "uploaded" ELSE @]

Commit ==
    /\ pc = "commit"
    /\ row' = Registered
    /\ pc' = "remove"
    /\ UNCHANGED <<disk, object, batch, cur, from, read, seen, shutdown, faults>>

\* mark_uploaded: the wav, then its metadata.  A silent chunk takes the same
\* path outside the try block.
RemoveAudio ==
    /\ pc \in {"remove", "discard"}
    /\ loc' = [loc EXCEPT ![cur] = "gone"]
    /\ seen' = [seen EXCEPT ![cur] = 0]
    /\ pc' = IF pc = "remove" THEN "sweep" ELSE "sweepQuiet"
    /\ UNCHANGED <<writing, size, due, sidecar, cloud, batch, cur, from, read, shutdown, faults>>

Release ==
    /\ pc' = "idle"
    /\ cur' = NoChunk
    /\ from' = "root"
    /\ read' = "none"

NextEntry == Release /\ batch' = batch \ {cur}

RemoveSidecar ==
    /\ pc \in {"sweep", "sweepQuiet"}
    /\ sidecar' = [sidecar EXCEPT ![cur] = "none"]
    /\ NextEntry
    /\ UNCHANGED <<loc, writing, size, due, cloud, seen, shutdown, faults>>

\* An S3, database or file error inside the try block.  A request whose answer
\* is lost may have taken effect.
Raise ==
    /\ pc \in TryBlock
    /\ Fault
    /\ object' \in {object} \cup
           IF pc = "put" THEN {[object EXCEPT ![cur] = size[cur]]} ELSE {}
    /\ row' \in {row} \cup IF pc = "commit" THEN {Registered} ELSE {}
    /\ pc' = "fail"
    /\ UNCHANGED <<disk, batch, cur, from, read, seen, shutdown>>

\* SIGINT or SIGTERM raises CaptureAgentShutdown wherever the agent is.  Only
\* outside the try block does it reach run(), which returns.
Signal ==
    /\ pc # "down"
    /\ Fault
    /\ \/ /\ pc \in TryBlock
          /\ pc' = "fail"
          /\ shutdown' = "pending"
          /\ UNCHANGED <<batch, cur, from, read, seen>>
       \/ /\ pc \notin TryBlock
          /\ Die
    /\ UNCHANGED <<disk, cloud>>

\* A variant of HasRetryRoom: no limit.
UnboundedRetry == TRUE

HasRetryRoom == Cardinality(InRetry) < MaxBacklog

\* mark_failed: a file in root moves to the retry directory if that has room,
\* else SpoolBacklogFullError ends the pass.  A file that the interrupted
\* mark_uploaded has already removed cannot be moved, which ends the agent.
MarkFailed ==
    /\ pc = "fail"
    /\ \/ /\ from = "retry"
          /\ pc' = "note"
          /\ UNCHANGED <<loc, batch, cur, from, read, seen, shutdown>>
       \/ /\ from = "root" /\ ~HasRetryRoom
          /\ Release
          /\ batch' = {}
          /\ UNCHANGED <<loc, seen, shutdown>>
       \/ /\ from = "root" /\ HasRetryRoom
          /\ loc[cur] = "gone"
          /\ Die
          /\ UNCHANGED loc
       \/ /\ from = "root" /\ HasRetryRoom
          /\ loc[cur] = "root"
          /\ loc' = [loc EXCEPT ![cur] = "retry"]
          /\ seen' = [seen EXCEPT ![cur] = 0]
          /\ pc' = "note"
          /\ UNCHANGED <<batch, cur, from, read, shutdown>>
    /\ UNCHANGED <<writing, size, due, sidecar, cloud, faults>>

\* write_text truncates the metadata file before it writes it.
TruncateSidecar ==
    /\ pc = "note"
    /\ sidecar' = [sidecar EXCEPT ![cur] = "torn"]
    /\ pc' = "write"
    /\ UNCHANGED <<loc, writing, size, due, cloud, batch, cur, from, read, seen, shutdown, faults>>

WriteSidecar ==
    /\ pc = "write"
    /\ sidecar' = [sidecar EXCEPT ![cur] = "whole"]
    /\ NextEntry
    /\ UNCHANGED <<loc, writing, size, due, cloud, seen, shutdown, faults>>

--------------------------------------------------------------------------------
Recorder == \E c \in Chunk : Record(c) \/ Grow(c) \/ Close(c) \/ Age(c)

Environment == Recorder \/ \E c \in Chunk : Settle(c)

Upload ==
    \/ Poll \/ PutObject \/ Lookup \/ Commit \/ RemoveAudio \/ RemoveSidecar
    \/ MarkFailed \/ TruncateSidecar \/ WriteSidecar
    \/ \E c \in Chunk : Screen(c)

Next == Environment \/ Start \/ Upload \/ Raise \/ Signal \/ Crash

Spec == Init /\ [][Next]_vars

\* The agent's thread runs, launchd restarts it, time passes, and a segment ends.
Fairness ==
    /\ WF_vars(Upload)
    /\ WF_vars(Start)
    /\ \A c \in Chunk : WF_vars(Age(c)) /\ WF_vars(Close(c))

FairSpec == Spec /\ Fairness

--------------------------------------------------------------------------------
TypeOK ==
    /\ loc \in [Chunk -> {"unborn", "root", "retry", "gone"}]
    /\ writing \subseteq Chunk
    /\ size \in [Chunk -> 0..MaxSize]
    /\ due \subseteq Chunk
    /\ sidecar \in [Chunk -> {"none", "torn", "whole"}]
    /\ object \in [Chunk -> 0..MaxSize]
    /\ row \in [Chunk -> {"none", "uploaded", "processed", "failed"}]
    /\ pc \in Statement
    /\ batch \subseteq Chunk
    /\ cur \in Chunk \cup {NoChunk}
    /\ from \in {"root", "retry"}
    /\ read \in {"none", "uploaded", "processed", "failed"}
    /\ seen \in [Chunk -> 0..MaxSize]
    /\ shutdown \in {"none", "pending"}
    /\ faults \in 0..MaxFaults

\* The retry directory never outgrows max_backlog_files, however the failures of
\* a pass that was listed while it had room add up (iter_ready, mark_failed).
RetryBounded == Cardinality(InRetry) <= MaxBacklog

\* A row points at audio: whatever failed, was retried or crashed in between, a
\* registered chunk has an S3 object with data in it (_upload_entry).
RegisteredHasObject == \A c \in Chunk : row[c] # "none" => object[c] > 0

\* Audio is deleted locally only when S3 and the registry hold all of it, or
\* because it was quiet (_upload_entry, _skip_silent_entry, mark_uploaded).  The
\* two-poll test makes this depend on ffmpeg not stalling on an open file.
AudioKept ==
    \A c \in Chunk : loc[c] = "gone" =>
        \/ FilterSilence /\ c \in Quiet
        \/ row[c] # "none" /\ object[c] = size[c]

\* Registering the same chunk again, after a commit whose answer was lost, never
\* takes a processed row back to the queue, although the status is read before
\* the worker may change it and written after (register_uploaded_chunk).
ProcessedIsFinal == [][\A c \in Chunk : row[c] = "processed" => row'[c] = "processed"]_vars

\* A torn metadata file that no write under way is going to complete.
TornAtRest(d) == sidecar[d] = "torn" /\ loc[d] = "retry" /\ ~(pc = "write" /\ cur = d)

Waiting(c) == loc[c] \in {"root", "retry"} /\ c \notin writing /\ size[c] > 0

\* Once outages and crashes end, the upload passes empty the spool of every
\* closed, non-empty chunk (upload_ready), unless a torn metadata file is there.
DrainsUnlessTorn ==
    \A c \in Chunk : Waiting(c) ~> (loc[c] = "gone" \/ \E d \in Chunk : TornAtRest(d))

\* "The MVP must tolerate long-running ambient capture without manual
\* babysitting ... if upload fails locally, the capture agent retries": every
\* closed chunk leaves the spool, also after a crash in mark_failed.
EveryChunkDrains == \A c \in Chunk : Waiting(c) ~> loc[c] = "gone"

\* The promise of the ingestion path, for this machine's chunks.
Stages ==
    [c \in Chunk |-> IF row[c] # "none" THEN row[c]
                     ELSE IF loc[c] = "unborn" THEN "unborn"
                     ELSE IF loc[c] = "gone" THEN "discarded"
                     ELSE "spooled"]

Ledger == INSTANCE ChunkLedger WITH ledger <- Stages

\* The upload path implements the ledger: a chunk that is not quiet is never
\* discarded, and a registration is never undone.
ImplementsLedger == Ledger!Spec
================================================================================
