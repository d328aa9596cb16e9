SPECIFICATION FairSpec
CONSTANTS
    s1 = s1
    s2 = s2
    t1 = t1
    t2 = t2
    t3 = t3
    Nobody = Nobody
    Store = {s1, s2}
    Task = {t1, t2, t3}
    StoreOf <- MCStoreOf
    Rid = {r1}
    Status = {"accepted"}
    Stage = {"scheduled"}
    OnDisk = {TRUE}
    MaxCrashes = 1
CHECK_DEADLOCK FALSE
PROPERTIES
    ImplementsLog
    CallsEnd
