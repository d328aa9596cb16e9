SPECIFICATION Spec
CONSTANTS
    k1 = k1
    k2 = k2
    v1 = v1
    v2 = v2
    Null = Null
    Key = {k1, k2}
    Value = {v1, v2}
    Day = 1
    LateWindow = 1
    Base <- MCBase
    Delta <- MCDelta
    File = {1, 2}
    Overwrites = FALSE
    MaxDrops = 2
    MaxFailures = 1
    MaxRestarts = 0
CHECK_DEADLOCK FALSE
INVARIANTS
    CommittedWasIngested
