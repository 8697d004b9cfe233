\* Chunks may reach the registry long after their end, in any order.
SPECIFICATION FairSpec
CONSTANTS
    RoomWindow = 13
    IdleFlush = 14
    RoomAdjacency = 1
    RoomChunk <- Recording
    MaxDelay = 16
    Prompt = 8
    MaxNow = 62
INVARIANTS
    BatchedOnce
    NoGapInBatch
    BatchBounded
    TimingIndependent
PROPERTIES
    EveryChunkBatched
CHECK_DEADLOCK FALSE
