SPECIFICATION CoreSpec
CONSTANTS
    a = a
    b = b
    c = c
    r1 = r1
    r2 = r2
    r3 = r3
    r4 = r4
    r5 = r5
    r6 = r6
    NoKey = NoKey
    Request = {r1, r2, r3, r4, r5, r6}
    Key = {a, b, c}
    KeyOf <- MCKeyOf
    MaxEntries = 2
    Task = {a, b}
    Channel = {"x", "y", "interrupt"}
    Special = {"interrupt"}
    Writes <- MCWrites
    Suspending <- MCSuspending
    MaxPuts <- MCMaxPuts
    MaxCrashes = 1
    Process = {a, b}
    Session = {a}
    Lengths = {0, 2}
    MaxTurns = 4
    MaxDeletes = 1
    MaxFaults = 1
    Thread = {a, b, c}
    MaxCalls = 3
    Call = {r1, r2}
    Effectful = {"write", "send"}
    ReadOnly = {"look"}
    SkillTools <- MCSkillTools
    Runs = {r1, r2}
    Tenant = {a, b}
    Words <- MCWords
    MaxTries = 3
    RecallLimit = 1
    MaxRetries = 1
    MaxReflections = 2
    Limit = 2
    Cost = 1
    MaxAttempts = 2
    MaxSteps = 2
    MaxRuns = 3
    Size = 3
    Budgets = {0, 2, 4}
CHECK_DEADLOCK FALSE
INVARIANTS
    RepliesSafe
    NoSecondRun
    CheckpointWhole
    TurnsAreWhole
    ResumeKeepsQuestion
    ConsentedAndAudited
    LessonsApplied
    OverrunBounded
PROPERTIES
    NoTaskRunsTwice
    RunsEnd
    TeamAnswers
