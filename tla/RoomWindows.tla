------------------------------ MODULE RoomWindows ------------------------------
(***************************************************************************)
(* How the worker cuts the pending chunks of the room source into batches  *)
(* of about RoomWindow of audio (select_room_windows).  A chunk is a       *)
(* record [id, start, end] with numbers as identifiers.                    *)
(***************************************************************************)
EXTENDS Integers, FiniteSets, SequencesExt

CONSTANTS
    RoomChunk,      \* the chunks of the room that there may be
    RoomWindow,     \* window_seconds
    IdleFlush,      \* idle_flush_seconds
    RoomAdjacency   \* adjacency_seconds

ASSUME RoomWindowAssumption ==
    /\ IsFiniteSet(RoomChunk)
    /\ \A c \in RoomChunk : c.start \in Nat /\ c.end \in Nat /\ c.id \in Nat
    /\ \A c, d \in RoomChunk : c.id = d.id => c = d
    /\ RoomWindow \in Nat \ {0}
    /\ IdleFlush \in Nat
    /\ RoomAdjacency \in Nat

RoomKey(c) == <<c.start, c.end, c.id>>

Earlier(c, d) ==
    LET k == RoomKey(c)
        l == RoomKey(d)
    IN  \E i \in 1..3 : k[i] < l[i] /\ \A j \in 1..(i - 1) : k[j] = l[j]

\* The chunks in the order of the key.
RoomOrder(chunks) ==
    [n \in 1..Cardinality(chunks) |->
        CHOOSE c \in chunks : Cardinality({d \in chunks : Earlier(d, c)}) = n - 1]

\* A variant of Contiguous: no limit on the gap.
AnyGap(c, d) == TRUE

Contiguous(c, d) == d.start <= c.end + RoomAdjacency

\* The last position of the span of s that position i is in.
SpanEnd(s, i) == Min({j \in i..Len(s) : j = Len(s) \/ ~Contiguous(s[j], s[j + 1])})

\* The time from the start of chunk i to the latest end of chunks i to n of s.
Length(s, i, n) == Max({s[j].end : j \in i..n}) - s[i].start

\* A variant of ClosedBy: a window that is filled exactly goes on.
ClosedBeyond(s, i, last) == {n \in i..last : Length(s, i, n) > RoomWindow}

\* The positions up to last by which the chunks from i on fill a window.
ClosedBy(s, i, last) == {n \in i..last : Length(s, i, n) >= RoomWindow}

\* A variant of Idle: counted from the first chunk of the rest.
IdleSinceFirst(s, i, last, time) == time - s[i].end >= IdleFlush

\* A variant of Idle: only full windows are made batches of.
NeverIdle(s, i, last, time) == FALSE

\* The end of the last chunk, not the latest end, is what counts.
Idle(s, i, last, time) == time - s[last].end >= IdleFlush

\* A variant of Rest: the flush takes the batch cut before it as well.
WholeSpan(s, i, last) == SubSeq(s, Max({1, i - 1}), last)

Rest(s, i, last) == SubSeq(s, i, last)

\* The batches that are cut off from each position of s on.  As soon as the leading
\* chunks of a span fill a window they are cut off; what remains of the span is flushed
\* when idle and otherwise stays pending.  A chunk as long as the window is outside this
\* definition: with one at the head of the rest the loop appends empty batches for ever.
BatchesFrom(s, time) ==
    LET from[i \in 1..(Len(s) + 1)] ==
            IF i > Len(s) THEN <<>>
            ELSE LET last == SpanEnd(s, i)
                     closed == ClosedBy(s, i, last)
                 IN  IF closed # {} THEN <<SubSeq(s, i, Min(closed))>> \o from[Min(closed) + 1]
                     ELSE IF Idle(s, i, last, time) THEN <<Rest(s, i, last)>> \o from[last + 1]
                     ELSE from[last + 1]
    IN  from

\* The batches of the pending chunks, which are in order.
ReadyBatches(s, time) == BatchesFrom(s, time)[1]
================================================================================
