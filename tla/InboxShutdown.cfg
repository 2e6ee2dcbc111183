SPECIFICATION ClosedSpec
CONSTANTS
    Users = {u1}
    Lines = {}
    Injects = {i1, n1}
    Answers = {n1}
    Keepalives = {}
    Wakes = {}
    Durables = {}
    Controls = {}
    Asks = {}
    AskOf <- NoAskOf
    Typed = {u1}
    Steerable = {n1}
    Backends = {TRUE, FALSE}
    Limiters = 1
    ChanSize = 3
    Events = {"shutdown", "cancel", "relogin", "capture", "silent", "work"}
    MaxEvents = 2
    Nothing = Nothing
INVARIANTS
    ExactlyOnce
    LoginNotStranded
    WatchCovers
PROPERTIES
    WorkerExits
CHECK_DEADLOCK FALSE
