--------------------------- MODULE ProcessingWindows ---------------------------
(***************************************************************************)
(* How the worker groups the pending chunks of all sources but the room    *)
(* into windows (group_processing_windows).  Duplicates are merged only    *)
(* inside one window, so where the windows are cut decides which sources   *)
(* are compared with each other.  A chunk is a record [id, source, start,  *)
(* end]; identifiers and sources are numbers, times are in any unit.       *)
(***************************************************************************)
EXTENDS Integers, FiniteSets, SequencesExt

CONSTANTS
    OrdinaryChunk,  \* the chunks that there may be
    Adjacency,      \* adjacency_seconds
    MaxWindow       \* max_window_seconds

ASSUME WindowAssumption ==
    /\ IsFiniteSet(OrdinaryChunk)
    /\ \A c \in OrdinaryChunk :
          c.start \in Nat /\ c.end \in Nat /\ c.source \in Nat /\ c.id \in Nat
    /\ \A c, d \in OrdinaryChunk : c.id = d.id => c = d
    /\ Adjacency \in Nat
    /\ MaxWindow \in Nat \ {0}

SortKey(c) == <<c.start, c.end, c.source, c.id>>

Before(c, d) ==
    LET k == SortKey(c)
        l == SortKey(d)
    IN  \E i \in 1..4 : k[i] < l[i] /\ \A j \in 1..(i - 1) : k[j] = l[j]

\* The elements of a set from the least to the greatest of a strict total order.
InOrder(S, Less(_, _)) ==
    [n \in 1..Cardinality(S) |->
        CHOOSE x \in S : Cardinality({y \in S : Less(y, x)}) = n - 1]

Ordered(chunks) == InOrder(chunks, Before)

Window(chunks, start, end) == [chunks |-> chunks, start |-> start, end |-> end]

JointEnd(w, c) == Max({w.end, c.end})

\* A variant of CanMerge: windows of one source.
CanMergeSameSource(w, c) ==
    /\ c.start <= w.end + Adjacency
    /\ JointEnd(w, c) - w.start <= MaxWindow
    /\ c.source = Last(w.chunks).source

CanMerge(w, c) ==
    /\ c.start <= w.end + Adjacency
    /\ JointEnd(w, c) - w.start <= MaxWindow

\* The windows with one more chunk: it joins the last window or opens one.
Extend(windows, c) ==
    IF windows # <<>> /\ CanMerge(Last(windows), c)
    THEN LET w == Last(windows) IN
         Append(Front(windows), Window(Append(w.chunks, c), w.start, JointEnd(w, c)))
    ELSE Append(windows, Window(<<c>>, c.start, c.end))

\* A variant of GroupWindows: from the newest chunk to the oldest.
GroupWindowsBackward(chunks) ==
    LET prepend(c, windows) ==
            IF windows # <<>> /\ CanMerge(Window(<<c>>, c.start, c.end), windows[1])
            THEN LET w == windows[1] IN
                 <<Window(<<c>> \o w.chunks, c.start, w.end)>> \o Tail(windows)
            ELSE <<Window(<<c>>, c.start, c.end)>> \o windows
    IN  FoldRight(prepend, Ordered(chunks), <<>>)

\* The windows of the first chunks of s, for every number of them.
WindowsUpTo(s) ==
    LET upTo[n \in 0..Len(s)] == IF n = 0 THEN <<>> ELSE Extend(upTo[n - 1], s[n])
    IN  upTo

GroupWindows(chunks) == WindowsUpTo(Ordered(chunks))[Cardinality(chunks)]

\* The order in which a pass works on them (_group_windows): the key is
\* (start, end), and Python's sort is stable when reversed.
NewestFirst(windows) ==
    LET later(i, j) == \/ windows[i].start > windows[j].start
                       \/ windows[i].start = windows[j].start /\ windows[i].end > windows[j].end
                       \/ /\ windows[i].start = windows[j].start
                          /\ windows[i].end = windows[j].end
                          /\ i < j
        order == InOrder(DOMAIN windows, later)
    IN  [n \in DOMAIN windows |-> windows[order[n]]]
================================================================================
