SPECIFICATION FairSpec
CONSTANTS
    k1 = k1
    k2 = k2
    t1 = t1
    t2 = t2
    e1 = e1
    e2 = e2
    e3 = e3
    None = None
    Key = {k1, k2}
    Turn = {t1, t2}
    Entry = {e1, e2, e3}
    MaxSessions = 1
    MaxPins = 3
    Deletes = TRUE
    Cancels = TRUE
INVARIANTS
    StoreSafe
    BoundedButLeaks
PROPERTIES
    EveryTurnServed
