\* Two workers on one database, commits whose answer may be lost.
SPECIFICATION Spec
CONSTANTS
    Worker = {w1, w2}
    Chunk <- Recorded
    OrdinaryChunk <- OneDesk
    Room <- RoomTail
    RoomChunk <- RoomTail
    EndOf <- RecordedEnd
    Windows <- GroupedWindows
    Batches <- RoomBatches
    Adjacency = 0
    RoomAdjacency = 0
    MaxWindow = 2
    RoomWindow = 2
    IdleFlush = 2
    AckLost = TRUE
    MayRequeue = FALSE
    MaxNow = 4
    MaxFaults = 2
INVARIANTS
    ProcessedIsAccounted
    PublishedOncePerWorker
CHECK_DEADLOCK FALSE
