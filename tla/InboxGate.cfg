SPECIFICATION FairSpec
CONSTANTS
    Users = {u1}
    Lines = {}
    Injects = {i1, i2, k1}
    Answers = {}
    Keepalives = {k1}
    Wakes = {}
    Durables = {}
    Controls = {}
    Asks = {}
    AskOf <- NoAskOf
    Typed = {}
    Steerable = {}
    Backends = {TRUE}
    Limiters = 0
    ChanSize = 3
    Events = {"work", "adopted"}
    MaxEvents = 1
    Nothing = Nothing
INVARIANTS
    ClassFIFO
PROPERTIES
    ProactiveServed
CHECK_DEADLOCK FALSE
