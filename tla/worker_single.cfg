\* One worker, commits that answer.
SPECIFICATION FairSpec
CONSTANTS
    Worker = {w1}
    Chunk <- Recorded
    OrdinaryChunk <- Desk
    Room <- RoomRecording
    RoomChunk <- RoomRecording
    EndOf <- RecordedEnd
    Windows <- GroupedWindows
    Batches <- RoomBatches
    Adjacency = 0
    RoomAdjacency = 0
    MaxWindow = 2
    RoomWindow = 2
    IdleFlush = 2
    AckLost = FALSE
    MayRequeue = TRUE
    MaxNow = 5
    MaxFaults = 2
INVARIANTS
    TypeOK
    PublishedOncePerWorker
    FailedPublishedNothing
PROPERTIES
    KeepsLedger
    SettlesEventually
CHECK_DEADLOCK FALSE
