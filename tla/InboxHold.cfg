SPECIFICATION Spec
CONSTANTS
    Users = {u1}
    Lines = {l1}
    Injects = {d1, r1}
    Answers = {}
    Keepalives = {}
    Wakes = {r1}
    Durables = {d1}
    Controls = {}
    Asks = {}
    AskOf <- NoAskOf
    Typed = {}
    Steerable = {u1}
    Backends = {TRUE}
    Limiters = 1
    ChanSize = 4
    Events = {"usage", "crash", "stop", "lookup"}
    MaxEvents = 3
    Nothing = Nothing
INVARIANTS
    HeldStored
CHECK_DEADLOCK FALSE
