\* One agent under launchd; the window wraps around midnight.
SPECIFICATION FairSpec
CONSTANTS
    Day = 3
    ActiveStart = 2
    ActiveEnd = 1
    StallTimeout = 3
    MaxBacklog = 2
    MaxPerPass = 1
    MaxFaults = 3
INVARIANTS
    TypeOK
    SpoolBounded
    LostToFaults
    RecordsInWindow
PROPERTIES
    HungIsReplaced
    RecordsAgain
    ImplementsAgent
