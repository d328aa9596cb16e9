SPECIFICATION FairSpec
CONSTANTS
    k1 = k1
    k2 = k2
    v1 = v1
    v2 = v2
    Null = Null
    Key = {k1, k2}
    Value = {v1, v2}
    Day = 1
    LateWindow = 1
    Base <- MCBase
    Delta <- MCDelta
    File = {1, 2}
    Overwrites = TRUE
    MaxDrops = 3
    MaxFailures = 2
    MaxRestarts = 2
CHECK_DEADLOCK FALSE
INVARIANTS
    DeltaSafe
PROPERTIES
    AtMostOnce
    EveryNewDeltaRead
