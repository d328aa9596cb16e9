SPECIFICATION FairSpec
CONSTANTS
    MaxTurns = 2
    MaxSteps = 2
    MaxWork = 2
    MaxBatch = 2
CHECK_DEADLOCK FALSE
INVARIANTS
    StartsAreClosed
    EffectsAreGoverned
    SessionRemembers
PROPERTIES
    TurnEnds
