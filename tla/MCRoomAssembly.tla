----------------------------- MODULE MCRoomAssembly ----------------------------
(***************************************************************************)
(* A room recording for TLC, in quarters of a chunk: one chunk, another of *)
(* a recorder restarted within the adjacency, which the next two follow in *)
(* a row, one after a gap of one unit, and one after a long gap.           *)
(***************************************************************************)
EXTENDS RoomAssembly

Row(id, start) == [id |-> id, start |-> start, end |-> start + 4]

Recording == {Row(1, 0), Row(2, 1), Row(3, 5), Row(4, 9), Row(5, 14), Row(6, 28)}
================================================================================
