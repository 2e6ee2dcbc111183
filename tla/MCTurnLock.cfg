SPECIFICATION TurnFairSpec
CONSTANTS
    Turns = {t1, t2, t3}
    Sessions = {s1, s2}
    Mutexes = {m1, m2, m3}
    MaxDrops = 2
    NoOne = NoOne
PROPERTIES
    TurnRuns
    TurnRefines
