SPECIFICATION FairSpec
CONSTANTS
    a1 = a1 a2 = a2 g1 = g1 g2 = g2 sp = sp bw = bw w1 = w1 w2 = w2
    Windows = {w1}
    Agents = {a1, a2}
    Observers = {g1, g2}
    Spawns = {sp}
    Works = {bw}
    AgentOf <- MCAgentOf
    Reports = {"reached", "high", "low", "unclear", "endless"}
    MaxReports = 2
    MaxCrashes = 1
INVARIANTS PausedExact InterruptCovers
 
CHECK_DEADLOCK FALSE
