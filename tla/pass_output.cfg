\* Every subset of eleven chunks; windows of twelve units, adjacency and tolerance one.
SPECIFICATION Spec
CONSTANTS
    OrdinaryChunk <- Recorded
    Adjacency = 1
    MaxWindow = 12
    Informative <- Telling
    Negation <- Denying
    Tolerance = 1
    ShortTolerance = 0
    Nobody = "nobody"
    PlainName <- Plain
    EmptyName = ""
    Heard <- Spoken
    Matches <- Recognised
    Untimed <- Unbounded
    OwnerOf <- Owner
    TypeOf <- Type
INVARIANTS
    HeardOnce
    OverlapTogether
    OneSpeaker
    DenialKept
    MergedAcrossSources
    OwnMicrophone
PROPERTIES
    OnlyLastWindowGrows
CHECK_DEADLOCK FALSE
