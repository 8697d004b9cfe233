\* Failures, with every fault bounded.
SPECIFICATION FairSpec
CONSTANTS
    Worker = {w1}
    Chunk <- Recorded
    OrdinaryChunk <- Desk
    Room <- RoomTail
    RoomChunk <- RoomTail
    EndOf <- RecordedEnd
    Windows <- GroupedWindows
    Batches <- RoomBatches
    Adjacency = 0
    RoomAdjacency = 0
    MaxWindow = 2
    RoomWindow = 2
    IdleFlush = 2
    AckLost = FALSE
    MayRequeue = TRUE
    MaxNow = 3
    MaxFaults = 2
PROPERTIES
    FailedIsRetried
CHECK_DEADLOCK FALSE
