----------------------------- MODULE RoomAssembly ------------------------------
(***************************************************************************)
(* The room source over many passes of the worker: chunks are recorded and *)
(* reach the registry with some delay while passes cut what is pending     *)
(* into batches at arbitrary moments.  Only the room's share of a pass is  *)
(* here, with every batch settled; Worker.tla has the rest of the pass.    *)
(***************************************************************************)
EXTENDS RoomWindows

CONSTANTS
    MaxDelay,  \* bound: time from a chunk's end to its registration
    Prompt,    \* a delay after which no idle flush comes between two chunks in a row
    MaxNow     \* bound: the clock

ASSUME AssemblyAssumption ==
    /\ \A c \in RoomChunk : c.end - c.start < RoomWindow
    /\ MaxDelay \in Nat /\ MaxNow \in Nat
    /\ Prompt \in Nat
    /\ \A c \in RoomChunk : c.end - c.start + RoomAdjacency + Prompt < IdleFlush
    /\ \A c \in RoomChunk : c.end + MaxDelay + IdleFlush <= MaxNow

\* What TimingIndependent rests on: a span that ended before another began is flushed
\* before the other fills a window.
ASSUME TimingAssumption ==
    /\ \A c \in RoomChunk : c.start <= c.end
    /\ IdleFlush <= RoomWindow + RoomAdjacency

VARIABLES
    now,      \* the worker's clock
    waiting,  \* registered chunks no batch was made of yet
    batches,  \* the batches made so far, in order
    late      \* whether a chunk has been registered later than Prompt after its end,
              \* or overtaken by the chunks around it

vars == <<now, waiting, batches, late>>

Batched == UNION {ToSet(batches[n]) : n \in DOMAIN batches}

Registered == waiting \cup Batched

Init ==
    /\ now = 0
    /\ waiting = {}
    /\ batches = <<>>
    /\ late = FALSE

\* The chunks before and after c are registered and follow each other without it, as
\* they may when a recorder was restarted in mid-chunk: a pass does not wait for c.
Overtaken(c) ==
    \E d, e \in Registered : Earlier(d, c) /\ Earlier(c, e) /\ Contiguous(d, e)

Arrive(c) ==
    /\ c \notin Registered
    /\ c.end <= now
    /\ waiting' = waiting \cup {c}
    /\ late' = (late \/ now > c.end + Prompt \/ Overtaken(c))
    /\ UNCHANGED <<now, batches>>

Tick ==
    /\ now < MaxNow
    /\ \A c \in RoomChunk \ Registered : now < c.end + MaxDelay
    /\ now' = now + 1
    /\ UNCHANGED <<waiting, batches, late>>

\* One pass: the registered chunks are loaded, cut, and the ready batches worked on.
Pass ==
    /\ \E ready \in {ReadyBatches(s, now) : s \in {RoomOrder(waiting)}} :
          /\ ready # <<>>
          /\ batches' = batches \o ready
          /\ waiting' = waiting \ UNION {ToSet(ready[n]) : n \in DOMAIN ready}
    /\ UNCHANGED <<now, late>>

Next == (\E c \in RoomChunk : Arrive(c)) \/ Tick \/ Pass

Spec == Init /\ [][Next]_vars

\* The worker goes on making passes, time goes on, and uploads succeed in the end.
FairSpec ==
    /\ Spec
    /\ WF_vars(Pass)
    /\ WF_vars(Tick)
    /\ \A c \in RoomChunk : WF_vars(Arrive(c))

--------------------------------------------------------------------------------
\* No audio is published twice: every chunk is in one batch at most, once, and then
\* no longer waits.
BatchedOnce ==
    /\ \A n, m \in DOMAIN batches : \A i \in DOMAIN batches[n], j \in DOMAIN batches[m] :
          batches[n][i] = batches[m][j] => n = m /\ i = j
    /\ waiting \cap Batched = {}

\* A batch is stitched into one recording with no silence in place of gaps, so its
\* chunks follow each other within the adjacency (_group_contiguous_spans).
NoGapInBatch ==
    \A n \in DOMAIN batches : \A i \in 1..(Len(batches[n]) - 1) :
        batches[n][i + 1].start <= batches[n][i].end + RoomAdjacency

\* A batch ends with the chunk that fills the window: what a vendor request can cost
\* is bounded, however much audio a returning machine uploads at once.
BatchBounded ==
    \A n \in DOMAIN batches :
        LET b == batches[n] IN Len(b) > 1 => Length(b, 1, Len(b) - 1) < RoomWindow

\* One late pass over all of the audio.
OneLatePass == ReadyBatches(RoomOrder(RoomChunk), MaxNow + IdleFlush)

\* As long as chunks arrive soon after they end, and not after two others that follow
\* each other without them, it does not matter when the passes happen: the batches are
\* those one late pass over all of the audio would cut.
TimingIndependent ==
    ~late /\ (\A c \in RoomChunk \ Registered : now <= c.end + Prompt /\ ~Overtaken(c))
        => IsPrefix(batches, OneLatePass)

\* No chunk is left pending for ever, also when it arrives so late that the chunks
\* around it were published without it.
EveryChunkBatched == \A c \in RoomChunk : c \in waiting ~> c \in Batched
================================================================================
