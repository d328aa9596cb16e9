SPECIFICATION Spec
CONSTANTS
    k1 = k1
    k2 = k2
    t1 = t1
    t2 = t2
    t3 = t3
    e1 = e1
    e2 = e2
    e3 = e3
    e4 = e4
    None = None
    Key = {k1, k2}
    Turn = {t1, t2, t3}
    Entry = {e1, e2, e3, e4}
    MaxSessions = 1
    MaxPins = 3
    Deletes = TRUE
    Cancels = TRUE
SYMMETRY Symmetry
INVARIANTS
    Bounded
