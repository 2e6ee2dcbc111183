SPECIFICATION FairSpec
CONSTANTS
    Sessions = {x1, x2}
    Servers = {s1, s2}
    None = None
INVARIANTS
    RefsExact
    InUseNotClosed
    NoRacedInsert
PROPERTIES
    SuccessorKept
    
CHECK_DEADLOCK FALSE
