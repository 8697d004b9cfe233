\* A crash between truncating and writing the retry metadata.
SPECIFICATION FairSpec
CONSTANTS
    Chunk = {c1, c2}
    Quiet = {c2}
    FilterSilence = TRUE
    WriterMayStall = FALSE
    MaxBacklog = 1
    MaxSize = 1
    MaxFaults = 2
    NoChunk = NoChunk
PROPERTIES
    EveryChunkDrains
