-------------------------- MODULE CaptureUploadProofs --------------------------
(***************************************************************************)
(* Theorems about CaptureUpload, for any set of chunks, any backlog limit  *)
(* and any number of faults.                                               *)
(***************************************************************************)
EXTENDS CaptureUpload, FiniteSetTheorems, TLAPS

USE CaptureAssumption DEF CaptureAssumption, Statement, TryBlock

\* The statements that handle the entry cur.
Busy == Statement \ {"down", "idle"}

\* What the agent may rely on while it handles an entry: the entries of the pass
\* still to come are non-empty files in the spool, and cur is one of them until
\* its own removal.
EntryInv ==
    /\ pc \in Busy => cur \in Chunk /\ loc[cur] # "unborn" /\ size[cur] > 0
    /\ pc \notin Busy => cur = NoChunk
    /\ pc \in {"put", "lookup", "commit", "remove", "discard"} =>
           loc[cur] \in {"root", "retry"}
    /\ pc \in {"discard", "sweepQuiet"} => FilterSilence /\ cur \in Quiet
    /\ \A c \in batch \ {cur} : loc[c] \in {"root", "retry"} /\ size[c] > 0

\* What is already stored remotely when the registry and the disk are touched.
RegistryInv ==
    /\ \A c \in Chunk : row[c] # "none" => object[c] > 0 /\ loc[c] # "unborn"
    /\ \A c \in Chunk : loc[c] = "gone" /\ row[c] = "none" =>
           FilterSilence /\ c \in Quiet
    /\ pc \in {"lookup", "commit"} => object[cur] > 0
    /\ pc \in {"remove", "sweep"} => row[cur] # "none"
    /\ pc = "commit" /\ read \in {"none", "failed"} => row[cur] = read
    /\ pc = "commit" /\ read \in {"uploaded", "processed"} => row[cur] # "none"

IndInv == TypeOK /\ EntryInv /\ RegistryInv

LEMMA InitIndInv == Init => IndInv
<1> SUFFICES ASSUME Init PROVE IndInv
  OBVIOUS
<1>1. TypeOK
  BY DEF Init, TypeOK
<1>2. EntryInv
  BY DEF Init, EntryInv, Busy
<1>3. RegistryInv
  BY DEF Init, RegistryInv
<1> QED
  BY <1>1, <1>2, <1>3 DEF IndInv

\* The agent may end anywhere: what it leaves in S3, the registry and the spool
\* satisfies the invariant on its own.
LEMMA DieIndInv ==
    ASSUME IndInv, Die, UNCHANGED <<disk, cloud>>, faults' \in 0..MaxFaults
    PROVE  IndInv'
<1> USE DEF IndInv, Die, disk, cloud
<1>1. TypeOK'
  BY DEF TypeOK
<1>2. EntryInv'
  BY DEF EntryInv, Busy
<1>3. RegistryInv'
  BY DEF RegistryInv
<1> QED
  BY <1>1, <1>2, <1>3

LEMMA NextIndInv == IndInv /\ [Next]_vars => IndInv'
<1> SUFFICES ASSUME IndInv, [Next]_vars PROVE IndInv'
  OBVIOUS
<1> USE DEF IndInv, TypeOK, EntryInv, RegistryInv, Busy, disk, cloud, agent
<1>1. ASSUME NEW c \in Chunk, Record(c) PROVE IndInv'
  BY <1>1 DEF Record
<1>2. ASSUME NEW c \in Chunk, Grow(c) PROVE IndInv'
  BY <1>2 DEF Grow
<1>3. ASSUME NEW c \in Chunk, Close(c) PROVE IndInv'
  BY <1>3 DEF Close
<1>4. ASSUME NEW c \in Chunk, Age(c) PROVE IndInv'
  BY <1>4 DEF Age
<1>5. ASSUME NEW c \in Chunk, Settle(c) PROVE IndInv'
  BY <1>5 DEF Settle
<1>6. CASE Start
  BY <1>6 DEF Start
<1>7. CASE Poll
  <2>1. CASE Die /\ UNCHANGED <<disk, cloud, faults>>
    BY <2>1, DieIndInv
  <2>2. ASSUME NEW paused \in SUBSET writing,
               batch' = Ready(paused) \cap due,
               seen' = Observe(paused),
               UNCHANGED <<pc, cur, from, read, shutdown, disk, cloud, faults>>
        PROVE  IndInv'
    <3>1. seen' \in [Chunk -> 0..MaxSize]
      BY <2>2 DEF Observe
    <3>2. batch' \subseteq Chunk
      BY <2>2
    <3>3. \A c \in batch' : loc[c] \in {"root", "retry"} /\ size[c] > 0
      BY <2>2 DEF Ready, Settled, Candidates, InRoot, InRetry
    <3> QED
      BY <2>2, <3>1, <3>2, <3>3
  <2> QED
    BY <1>7, <2>1, <2>2 DEF Poll
<1>8. ASSUME NEW c \in Chunk, Screen(c) PROVE IndInv'
  <2>1. TypeOK'
    BY <1>8 DEF Screen, IsSilent, Fault
  <2>2. EntryInv'
    BY <1>8 DEF Screen, IsSilent, Fault
  <2>3. RegistryInv'
    BY <1>8 DEF Screen, IsSilent, Fault
  <2> QED
    BY <2>1, <2>2, <2>3
<1>9. CASE PutObject
  BY <1>9 DEF PutObject
<1>10. CASE Lookup
  BY <1>10 DEF Lookup
<1>11. CASE Commit
  <2>1. TypeOK'
    BY <1>11 DEF Commit, Registered
  <2>2. EntryInv'
    BY <1>11 DEF Commit, Registered
  <2>3. RegistryInv'
    BY <1>11 DEF Commit, Registered
  <2> QED
    BY <2>1, <2>2, <2>3
<1>12. CASE RemoveAudio
  BY <1>12 DEF RemoveAudio
<1>13. CASE RemoveSidecar
  BY <1>13 DEF RemoveSidecar, NextEntry, Release
<1>14. CASE MarkFailed
  <2>1. CASE Die /\ UNCHANGED loc
    BY <1>14, <2>1, DieIndInv DEF MarkFailed
  <2>2. CASE ~Die
    <3>1. TypeOK'
      BY <1>14, <2>2 DEF MarkFailed, Release
    <3>2. EntryInv'
      BY <1>14, <2>2 DEF MarkFailed, Release
    <3>3. RegistryInv'
      BY <1>14, <2>2 DEF MarkFailed, Release
    <3> QED
      BY <3>1, <3>2, <3>3
  <2> QED
    BY <1>14, <2>1, <2>2 DEF MarkFailed, Release, Die
<1>15. CASE TruncateSidecar
  BY <1>15 DEF TruncateSidecar
<1>16. CASE WriteSidecar
  BY <1>16 DEF WriteSidecar, NextEntry, Release
<1>17. CASE Raise
  BY <1>17 DEF Raise, Registered, Fault
<1>18. CASE Signal
  <2>1. CASE Die
    BY <1>18, <2>1, DieIndInv DEF Signal, Fault
  <2>2. CASE ~Die
    BY <1>18, <2>2 DEF Signal, Fault
  <2> QED
    BY <2>1, <2>2
<1>19. CASE Crash
  BY <1>19, DieIndInv DEF Crash, Fault
<1>20. CASE UNCHANGED vars
  BY <1>20 DEF vars
<1> QED
  BY <1>1, <1>2, <1>3, <1>4, <1>5, <1>6, <1>7, <1>8, <1>9, <1>10, <1>11, <1>12,
     <1>13, <1>14, <1>15, <1>16, <1>17, <1>18, <1>19, <1>20
     DEF Next, Environment, Recorder, Upload

LEMMA Inductive == Spec => []IndInv
BY InitIndInv, NextIndInv, PTL DEF Spec

\* Every variable keeps its type through every step of the upload path.
THEOREM TypeCorrect == Spec => []TypeOK
BY Inductive, PTL DEF IndInv

\* A row in aa_audio_chunks always points at an S3 object that holds data: the
\* object is put before the row is committed, and nothing undoes it.
THEOREM RegisteredCorrect == Spec => []RegisteredHasObject
<1>1. IndInv => RegisteredHasObject
  BY DEF IndInv, RegistryInv, RegisteredHasObject
<1> QED
  BY <1>1, Inductive, PTL

--------------------------------------------------------------------------------
\* The retry directory.

LEMMA RetryIsFinite == TypeOK => IsFiniteSet(InRetry) /\ Cardinality(InRetry) \in Nat
BY FS_Subset, FS_CardinalityType DEF InRetry

LEMMA RetryShrinks ==
    ASSUME TypeOK, TypeOK', InRetry' \subseteq InRetry, RetryBounded
    PROVE  RetryBounded'
<1>1. Cardinality(InRetry') <= Cardinality(InRetry)
  BY RetryIsFinite, FS_Subset
<1>2. Cardinality(InRetry') \in Nat
  BY <1>1, RetryIsFinite, FS_Subset, FS_CardinalityType
<1> QED
  BY <1>1, <1>2, RetryIsFinite DEF RetryBounded

\* max_backlog_files bounds the retry directory in every reachable state.
THEOREM RetryCorrect == Spec => []RetryBounded
<1>1. Init => RetryBounded
  <2> SUFFICES ASSUME Init PROVE RetryBounded
    OBVIOUS
  <2>1. InRetry = {}
    BY DEF Init, InRetry
  <2> QED
    BY <2>1, FS_EmptySet DEF RetryBounded
<1>2. IndInv /\ IndInv' /\ RetryBounded /\ [Next]_vars => RetryBounded'
  <2> SUFFICES ASSUME IndInv, IndInv', RetryBounded, [Next]_vars PROVE RetryBounded'
    OBVIOUS
  <2> USE DEF IndInv, disk, cloud, agent
  <2>1. CASE InRetry' \subseteq InRetry
    BY <2>1, RetryShrinks
  <2>2. CASE MarkFailed /\ ~(InRetry' \subseteq InRetry)
    <3>1. HasRetryRoom /\ loc[cur] = "root" /\ loc' = [loc EXCEPT ![cur] = "retry"]
      BY <2>2 DEF MarkFailed, InRetry
    <3>2. cur \in Chunk
      BY <2>2 DEF MarkFailed, EntryInv, Busy
    <3>3. InRetry' = InRetry \cup {cur} /\ cur \notin InRetry
      BY <3>1, <3>2 DEF InRetry, TypeOK
    <3>4. Cardinality(InRetry') = Cardinality(InRetry) + 1
      BY <3>3, RetryIsFinite, FS_AddElement
    <3> QED
      BY <3>1, <3>4, RetryIsFinite DEF HasRetryRoom, RetryBounded
  <2>3. CASE UNCHANGED loc
    BY <2>1, <2>3 DEF InRetry
  <2>4. ASSUME NEW c \in Chunk, Record(c) PROVE InRetry' \subseteq InRetry
    BY <2>4 DEF Record, InRetry, TypeOK
  <2>5. CASE RemoveAudio
    BY <2>1, <2>5 DEF RemoveAudio, InRetry, TypeOK
  <2>6. Next /\ ~MarkFailed /\ ~RemoveAudio /\ ~(\E c \in Chunk : Record(c))
        => UNCHANGED loc
    BY DEF Next, Environment, Recorder, Upload, Grow, Close, Age, Settle, Start, Poll,
           Screen, PutObject, Lookup, Commit, RemoveSidecar, TruncateSidecar,
           WriteSidecar, Raise, Signal, Crash
  <2> QED
    BY <2>1, <2>2, <2>3, <2>4, <2>5, <2>6 DEF vars
<1> QED
  BY <1>1, <1>2, Inductive, PTL DEF Spec

--------------------------------------------------------------------------------
\* What a registration may do to a row that is there already.

\* A processed row is never reset by a late or repeated registration.
THEOREM ProcessedCorrect == Spec => ProcessedIsFinal
<1>1. ASSUME IndInv, [Next]_vars, NEW c \in Chunk, row[c] = "processed"
      PROVE  row'[c] = "processed"
  <2> USE <1>1 DEF IndInv, TypeOK, RegistryInv, Registered
  <2>1. CASE Commit
    BY <2>1 DEF Commit
  <2>2. CASE Raise
    BY <2>2 DEF Raise
  <2>3. ASSUME NEW d \in Chunk, Settle(d) PROVE row'[c] = "processed"
    BY <2>3 DEF Settle
  <2>4. CASE UNCHANGED row
    BY <2>4
  <2>5. Next /\ ~Commit /\ ~Raise /\ ~(\E d \in Chunk : Settle(d)) => UNCHANGED row
    BY DEF Next, Environment, Recorder, Upload, Record, Grow, Close, Age, Start, Poll,
           Screen, PutObject, Lookup, RemoveAudio, RemoveSidecar, MarkFailed,
           TruncateSidecar, WriteSidecar, Signal, Crash, cloud
  <2> QED
    BY <2>1, <2>2, <2>3, <2>4, <2>5 DEF vars
<1>2. IndInv /\ [Next]_vars =>
          [\A c \in Chunk : row[c] = "processed" => row'[c] = "processed"]_vars
  BY <1>1
<1> QED
  BY <1>2, Inductive, PTL DEF Spec, ProcessedIsFinal

--------------------------------------------------------------------------------
\* No audio is lost by a recorder that keeps writing to its open file.

\* An entry the agent handles is closed, so what was read of it is all of it.
SteadyInv ==
    /\ \A c \in writing : loc[c] = "root" /\ row[c] = "none"
    /\ batch \cap writing = {}
    /\ pc \in Busy => cur \notin writing
    /\ pc \in {"lookup", "commit", "remove", "sweep"} => object[cur] = size[cur]
    /\ \A c \in Chunk : row[c] # "none" => object[c] = size[c]

LEMMA PollListsClosedFiles ==
    ASSUME ~WriterMayStall, IndInv, SteadyInv, WritersProgressed,
           NEW paused \in SUBSET writing
    PROVE  Ready(paused) \cap writing = {}
<1> SUFFICES ASSUME NEW c \in writing, c \in Ready(paused) PROVE FALSE
  OBVIOUS
<1>1. loc[c] = "root" /\ seen[c] = size[c] /\ size[c] > 0
  BY DEF SteadyInv, Ready, Settled, RequiresAdditionalPoll
<1> QED
  BY <1>1 DEF WritersProgressed

LEMMA NextSteadyInv ==
    ASSUME ~WriterMayStall, IndInv, IndInv', SteadyInv, [Next]_vars
    PROVE  SteadyInv'
<1> USE DEF IndInv, TypeOK, EntryInv, RegistryInv, SteadyInv, Busy, disk, cloud, agent
<1>1. ASSUME NEW c \in Chunk, Record(c) PROVE SteadyInv'
  BY <1>1 DEF Record
<1>2. ASSUME NEW c \in Chunk, Grow(c) PROVE SteadyInv'
  BY <1>2 DEF Grow
<1>3. ASSUME NEW c \in Chunk, Close(c) PROVE SteadyInv'
  BY <1>3 DEF Close
<1>4. ASSUME NEW c \in Chunk, Age(c) PROVE SteadyInv'
  BY <1>4 DEF Age
<1>5. ASSUME NEW c \in Chunk, Settle(c) PROVE SteadyInv'
  BY <1>5 DEF Settle
<1>6. CASE Start
  BY <1>6 DEF Start
<1>7. CASE Poll
  <2>1. CASE Die /\ UNCHANGED <<disk, cloud>>
    BY <2>1 DEF Die
  <2>2. CASE \E paused \in SUBSET writing :
               batch' = Ready(paused) \cap due /\ UNCHANGED <<pc, cur, disk, cloud>>
    <3>1. batch' \cap writing = {}
      BY <1>7, <2>2, PollListsClosedFiles DEF Poll
    <3> QED
      BY <2>2, <3>1
  <2> QED
    BY <1>7, <2>1, <2>2 DEF Poll
<1>8. ASSUME NEW c \in Chunk, Screen(c) PROVE SteadyInv'
  BY <1>8 DEF Screen
<1>9. CASE PutObject
  BY <1>9 DEF PutObject
<1>10. CASE Lookup
  BY <1>10 DEF Lookup
<1>11. CASE Commit
  BY <1>11 DEF Commit, Registered
<1>12. CASE RemoveAudio
  BY <1>12 DEF RemoveAudio
<1>13. CASE RemoveSidecar
  BY <1>13 DEF RemoveSidecar, NextEntry, Release
<1>14. CASE MarkFailed
  BY <1>14 DEF MarkFailed, Die, Release
<1>15. CASE TruncateSidecar
  BY <1>15 DEF TruncateSidecar
<1>16. CASE WriteSidecar
  BY <1>16 DEF WriteSidecar, NextEntry, Release
<1>17. CASE Raise
  BY <1>17 DEF Raise, Registered
<1>18. CASE Signal
  BY <1>18 DEF Signal, Die
<1>19. CASE Crash
  BY <1>19 DEF Crash, Die
<1>20. CASE UNCHANGED vars
  BY <1>20 DEF vars
<1> QED
  BY <1>1, <1>2, <1>3, <1>4, <1>5, <1>6, <1>7, <1>8, <1>9, <1>10, <1>11, <1>12,
     <1>13, <1>14, <1>15, <1>16, <1>17, <1>18, <1>19, <1>20
     DEF Next, Environment, Recorder, Upload

\* If ffmpeg changes its open file between any two polls, a file is deleted from
\* the spool only when all its audio is in S3 and registered, or it was quiet.
THEOREM AudioCorrect ==
    ASSUME ~WriterMayStall
    PROVE  Spec => []AudioKept
<1>1. Init => SteadyInv
  BY DEF Init, SteadyInv, Busy
<1>2. IndInv /\ IndInv' /\ SteadyInv /\ [Next]_vars => SteadyInv'
  BY NextSteadyInv
<1>3. IndInv /\ SteadyInv => AudioKept
  BY DEF IndInv, RegistryInv, SteadyInv, AudioKept
<1> QED
  BY <1>1, <1>2, <1>3, Inductive, PTL DEF Spec

--------------------------------------------------------------------------------
\* The upload path implements the ledger.

\* To move a chunk is to change its stage and leave every other stage alone.
LEMMA MovesOne ==
    ASSUME NEW c \in Chunk, NEW f, NEW t,
           Stages[c] = f, Stages'[c] = t,
           \A d \in Chunk \ {c} : Stages'[d] = Stages[d]
    PROVE  Ledger!Move(c, f, t)
<1>1. Stages' = [Stages EXCEPT ![c] = t]
  BY DEF Stages
<1> QED
  BY <1>1 DEF Ledger!Move

\* Every step moves at most one chunk, and along an edge of the ledger: into the
\* spool, out of it by registration or (quiet chunks only) removal, and between
\* the stages of a registered chunk.
LEMMA LedgerStep == IndInv /\ IndInv' /\ [Next]_vars => [Ledger!Next]_Stages
<1> SUFFICES ASSUME IndInv, IndInv', [Next]_vars PROVE [Ledger!Next]_Stages
  OBVIOUS
<1> USE DEF IndInv, TypeOK, EntryInv, RegistryInv, Busy, Stages, disk, cloud
<1>1. ASSUME NEW c \in Chunk, Record(c) PROVE Ledger!Capture(c)
  <2>1. Stages[c] = "unborn" /\ Stages'[c] = "spooled"
    BY <1>1 DEF Record
  <2>2. \A d \in Chunk \ {c} : Stages'[d] = Stages[d]
    BY <1>1 DEF Record
  <2> QED
    BY <2>1, <2>2, MovesOne DEF Ledger!Capture
<1>2. ASSUME NEW c \in Chunk, Settle(c) PROVE Ledger!Finish(c) \/ Ledger!GiveUp(c)
  <2>1. Stages[c] = "uploaded" /\ Stages'[c] \in {"processed", "failed"}
    BY <1>2 DEF Settle
  <2>2. \A d \in Chunk \ {c} : Stages'[d] = Stages[d]
    BY <1>2 DEF Settle
  <2> QED
    BY <2>1, <2>2, MovesOne DEF Ledger!Finish, Ledger!GiveUp
<1>3. ASSUME NEW c \in Chunk, c = cur,
             row' = Registered, UNCHANGED loc, pc = "commit"
      PROVE  Ledger!Register(c) \/ Ledger!Requeue(c) \/ UNCHANGED Stages
  <2>1. \A d \in Chunk \ {c} : Stages'[d] = Stages[d]
    BY <1>3 DEF Registered
  <2>2. CASE read = "none"
    <3>1. Stages[c] = "spooled" /\ Stages'[c] = "uploaded"
      BY <1>3, <2>2 DEF Registered
    <3> QED
      BY <2>1, <3>1, MovesOne DEF Ledger!Register
  <2>3. CASE read = "failed"
    <3>1. Stages[c] = "failed" /\ Stages'[c] = "uploaded"
      BY <1>3, <2>3 DEF Registered
    <3> QED
      BY <2>1, <3>1, MovesOne DEF Ledger!Requeue
  <2>4. CASE read \notin {"none", "failed"}
    <3>1. UNCHANGED row
      BY <1>3, <2>4 DEF Registered
    <3> QED
      BY <1>3, <3>1
  <2> QED
    BY <2>2, <2>3, <2>4
<1>4. CASE RemoveAudio
  <2>1. cur \in Chunk /\ UNCHANGED row /\ loc' = [loc EXCEPT ![cur] = "gone"]
    BY <1>4 DEF RemoveAudio
  <2>2. \A d \in Chunk \ {cur} : Stages'[d] = Stages[d]
    BY <2>1
  <2>3. CASE row[cur] = "none"
    <3>1. Stages[cur] = "spooled" /\ Stages'[cur] = "discarded" /\ cur \in Quiet
      BY <1>4, <2>1, <2>3 DEF RemoveAudio
    <3> QED
      BY <2>1, <2>2, <3>1, MovesOne DEF Ledger!Next, Ledger!Discard
  <2>4. CASE row[cur] # "none"
    BY <2>1, <2>4
  <2> QED
    BY <2>3, <2>4
<1>5. CASE MarkFailed
  <2>1. UNCHANGED row /\ (UNCHANGED loc \/ (/\ loc[cur] = "root"
                                          /\ loc' = [loc EXCEPT ![cur] = "retry"]))
    BY <1>5 DEF MarkFailed, Release, Die
  <2> QED
    BY <2>1
<1>6. CASE UNCHANGED <<loc, row>>
  BY <1>6
<1>7. CASE Commit \/ Raise
  <2>1. UNCHANGED loc /\ (UNCHANGED row \/ (pc = "commit" /\ row' = Registered))
    BY <1>7 DEF Commit, Raise
  <2>2. CASE UNCHANGED row
    BY <1>6, <2>1, <2>2
  <2>3. CASE pc = "commit" /\ row' = Registered
    <3>1. PICK c \in Chunk : c = cur
      BY <2>3
    <3>2. Ledger!Register(c) \/ Ledger!Requeue(c) \/ UNCHANGED Stages
      BY <1>3, <2>1, <2>3, <3>1
    <3> QED
      BY <3>2 DEF Ledger!Next
  <2> QED
    BY <2>1, <2>2, <2>3
<1>8. Next /\ ~(\E c \in Chunk : Record(c) \/ Settle(c)) /\ ~Commit /\ ~Raise
          /\ ~RemoveAudio /\ ~MarkFailed
      => UNCHANGED <<loc, row>>
  BY DEF Next, Environment, Recorder, Upload, Grow, Close, Age, Start, Poll, Screen,
         PutObject, Lookup, RemoveSidecar, TruncateSidecar, WriteSidecar, Signal, Crash
<1> QED
  BY <1>1, <1>2, <1>4, <1>5, <1>6, <1>7, <1>8 DEF vars, Ledger!Next

\* Every behaviour of the upload path is a behaviour of ChunkLedger: whatever
\* crashes, fails or is repeated, a chunk that is not quiet is never discarded
\* and a registration is never undone.
THEOREM LedgerCorrect == Spec => ImplementsLedger
<1>1. Init => Ledger!Init
  BY DEF Init, Stages, Ledger!Init
<1> QED
  BY <1>1, LedgerStep, Inductive, PTL DEF Spec, ImplementsLedger, Ledger!Spec
================================================================================
