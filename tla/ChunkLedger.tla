------------------------------ MODULE ChunkLedger ------------------------------
(***************************************************************************)
(* What the ingestion path promises about one recorded chunk, whatever     *)
(* processes, files and tables carry it: a captured chunk is held until it *)
(* is registered, only a quiet one may be discarded, and a registered one  *)
(* is never unregistered.  The worker settles a registered chunk as        *)
(* processed or failed; nothing follows processed, and only a fresh        *)
(* registration leads out of failed.                                       *)
(***************************************************************************)
CONSTANTS
    Chunk,  \* the chunk files a machine records
    Quiet   \* the chunks whose peak volume is under the silence threshold

VARIABLE
    ledger  \* [Chunk -> Stage]

Stage == {"unborn", "spooled", "discarded", "uploaded", "processed", "failed"}

TypeOK == ledger \in [Chunk -> Stage]

Init == ledger = [c \in Chunk |-> "unborn"]

Move(c, from, to) ==
    /\ ledger[c] = from
    /\ ledger' = [ledger EXCEPT ![c] = to]

Capture(c) == Move(c, "unborn", "spooled")

Discard(c) == c \in Quiet /\ Move(c, "spooled", "discarded")

Register(c) == Move(c, "spooled", "uploaded")

Requeue(c) == Move(c, "failed", "uploaded")

Finish(c) == Move(c, "uploaded", "processed")

GiveUp(c) == Move(c, "uploaded", "failed")

Next ==
    \E c \in Chunk :
        \/ Capture(c) \/ Discard(c) \/ Register(c)
        \/ Requeue(c) \/ Finish(c) \/ GiveUp(c)

Spec == Init /\ [][Next]_ledger
================================================================================
