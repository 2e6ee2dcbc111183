SPECIFICATION FairSpec
CONSTANTS
    Callers = {c1, c2, c3, c4}
    Limit = 2
INVARIANTS
    SlotsAccounted
PROPERTIES
    WaiterServed
    Refines
