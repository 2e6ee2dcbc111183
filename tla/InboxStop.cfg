SPECIFICATION FairSpec
CONSTANTS
    Users = {u1, u2}
    Lines = {}
    Injects = {i1}
    Answers = {}
    Keepalives = {}
    Wakes = {}
    Durables = {}
    Controls = {}
    Asks = {a1}
    AskOf <- NoAskOf
    Typed = {u1}
    Steerable = {}
    Backends = {TRUE}
    Limiters = 2
    ChanSize = 2
    Events = {"stop", "compacting", "ask", "plan"}
    MaxEvents = 2
    Nothing = Nothing
INVARIANTS
    ExactlyOnce
    SlotDiscipline
PROPERTIES
    
    
    
    ProactiveServed
CHECK_DEADLOCK FALSE
