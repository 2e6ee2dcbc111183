SPECIFICATION Spec
CONSTANTS
    Callers = {c1, c2, c3}
    Keys = {a, b}
    Entries = {e1, e2, e3}
    Nobody = Nobody
INVARIANTS
    CountExact
PROPERTIES
    Refines
