---------------------------- MODULE MCRoomEnrichment ---------------------------
(***************************************************************************)
(* A room of two teammates and a guest for TLC, in units of five seconds:  *)
(* three batches in two windows.  The labels of the first two batches mean *)
(* different voices, the second has a gap of one unit between its chunks   *)
(* and an utterance across it, and in the third a teammate is recognised.  *)
(***************************************************************************)
EXTENDS RoomEnrichment, TLC

CONSTANTS r1, r2, r3

Chunk(id, start) == [id |-> id, start |-> start, end |-> start + 6]

First == <<Chunk(1, 0), Chunk(2, 6)>>
Second == <<Chunk(3, 12), Chunk(4, 19)>>
Third == <<Chunk(5, 27)>>

Batches == {First, Second, Third}

Recorded == <<
    <<"d1", "d1", "d1", "a1", "a1", "a1">>,
    <<"d2", "d2", "g1", "g1", "g1", "g1">>,
    <<"g2", "g2", "g2", "none", "a2", "a2">>,
    <<"a2", "a2", "d3", "d3", "d3", "none">>,
    <<"a3", "a3", "a3", "d4", "d4", "d4">> >>

Sounds(chunk) == Recorded[chunk.id]

Voice(sound) ==
    CASE sound \in {"d1", "d2", "d3", "d4"} -> "dylan"
      [] sound \in {"a1", "a2", "a3"} -> "alex"
      [] sound \in {"g1", "g2"} -> "guest"

Recognised(batch) == IF batch = Third THEN {"alex"} ELSE {}

\* The guest sounds rather like dylan.
Alike(voice, label) ==
    IF voice = label THEN 90 ELSE IF <<voice, label>> = <<"guest", "dylan">> THEN 60 ELSE 20

Runs == {r1, r2, r3}

\* r1 and r2 differ in nothing.
Symmetry == Permutations({r1, r2})

Version(run) == IF run = r3 THEN "v2" ELSE "v1"
================================================================================
