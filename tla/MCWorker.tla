-------------------------------- MODULE MCWorker -------------------------------
(***************************************************************************)
(* Workers over a short recording, cut by the real windows and batches.    *)
(* The unit of time is one chunk: a window has at most two chunk lengths,  *)
(* a full room batch two chunks, and a rest is flushed two units after its *)
(* end.                                                                    *)
(***************************************************************************)
EXTENDS Worker, ProcessingWindows, RoomWindows

Row(id, source, start) == [id |-> id, source |-> source, start |-> start, end |-> start + 1]

OneDesk == {Row(1, 1, 0), Row(2, 1, 2)}
Desk == {Row(1, 1, 0)}

RoomRecording == {Row(11, 9, 0), Row(12, 9, 1), Row(13, 9, 2)}
RoomTail == {Row(11, 9, 0), Row(12, 9, 1)}

Recorded == OrdinaryChunk \cup RoomChunk

RecordedEnd(c) == c.end

\* Tables, so that TLC computes each grouping once.
WindowTable ==
    [S \in SUBSET OrdinaryChunk |->
        LET windows == NewestFirst(GroupWindows(S)) IN
        [n \in DOMAIN windows |-> ToSet(windows[n].chunks)]]

BatchTable ==
    [S \in SUBSET RoomChunk, t \in 0..MaxNow |->
        LET batches == ReadyBatches(RoomOrder(S), t) IN
        [n \in DOMAIN batches |-> ToSet(batches[n])]]

GroupedWindows(S) == WindowTable[S]

RoomBatches(S, t) == BatchTable[S, t]
================================================================================
