\* Two agents, finitely many faults.
SPECIFICATION DualFairSpec
CONSTANTS
    Role = {teammate, room}
    First = teammate
    MaxFaults = 3
INVARIANTS
    TypeOK
    NoAgentLeft
PROPERTIES
    BothOrNone
