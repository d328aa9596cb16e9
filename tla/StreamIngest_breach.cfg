SPECIFICATION Spec
CONSTANTS
    Key = {k1, k2}
    Poison = bad
    MaxRecords = 2
    MaxLog = 2
    MaxLoads = 1
    MaxFailures = 1
    MaxRestarts = 1
CHECK_DEADLOCK FALSE
INVARIANT MetricBreachCounted
