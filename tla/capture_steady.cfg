\* A recorder that keeps writing: the safety properties of the upload path, and that
\* the spool drains once the faults are over.
SPECIFICATION FairSpec
CONSTANTS
    Chunk = {c1, c2}
    Quiet = {c2}
    FilterSilence = TRUE
    WriterMayStall = FALSE
    MaxBacklog = 1
    MaxSize = 2
    MaxFaults = 3
    NoChunk = NoChunk
INVARIANTS
    TypeOK
    RetryBounded
    RegisteredHasObject
    AudioKept
PROPERTIES
    ProcessedIsFinal
    ImplementsLedger
    DrainsUnlessTorn
