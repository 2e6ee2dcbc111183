SPECIFICATION Spec
CONSTANTS
    a1 = a1 a2 = a2
    k1 = k1 k2 = k2 k3 = k3
    u1 = u1 u2 = u2 s1 = s1 s2 = s2
    NoOne = NoOne
    Agents = {a1, a2}
    Keys = {k1, k2, k3}
    Callers = {u1, u2, s1, s2}
    AgentOf <- MCAgentOf
    KeyOf <- MCKeyOf
    AgentCap <- MCAgentCap
    Users = {u1, u2}
    GlobalCap = 1
    Events = {"die", "reset", "bounce", "reap", "finished", "cancel", "fail", "work", "shutdown"}
    MaxEvents = 1
INVARIANTS PlacesExact NoOrphan NothingOutlives NoIdlePlace
PROPERTIES NoOvertaking UsedNotEvicted
CHECK_DEADLOCK FALSE
