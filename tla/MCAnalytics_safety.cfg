SPECIFICATION AnalyticsSpec
CONSTANTS
    k0 = k0
    k1 = k1
    k2 = k2
    k3 = k3
    v1 = v1
    v2 = v2
    Null = Null
    Key = {k0, k1, k2, k3}
    Value = {v1, v2}
    Feed = {"any", "events"}
    Base <- MCBase
    Batch <- MCBatch
    KeysGiven <- MCKeysGiven
    Modes <- MCModes
    Day = 2
    LateWindow = 2
    MaxBatches = 3
    Start <- DefaultThresholds
    MinSamples = 30
    MaxOutcomes = 1
    MaxTunings = 3
    Table = {"t1"}
    SynonymMaps = {"s1"}
    AskedTools <- ToolQuestions
    Worker = {1, 2}
    Columns = {"v", "w"}
    Backend = {"bounded"}
    Request <- ModelRequests
    TTL = 1
    MaxNow = 2
    MaxTampers = 1
    RecordKey = {1, 2}
    Poison = 0
    MaxRecords = 2
    MaxLog = 4
    MaxLoads = 1
    Tables <- JTables
    Role <- JRoles
    Databases <- JDatabases
    Questions <- JQuestions
    Gone <- JGone
    MaxJoinTables = 6
    MetricRef <- QMetrics
    DimensionRef <- QDims
    ColumnOf <- QColumns
    TimeColumn <- QTime
    Synonyms <- QSynonyms
    ValueSynonyms <- QValues
    BaseCatalog <- QBase
    DatasetCatalog <- QDataset
    Plain <- QPlain
    Escaped <- QEscaped
    Sentence <- QSentences
    Typed <- QTyped
    Upload <- Uploads
    Setting = {1, 2}
    MaxRuns = 4
    MaxImports = 3
    Arrival <- PBatches
    Forced <- PForced
    Hints <- PHints
    IdRows = 3
    SampleValues = 2
    MaxIngests = 2
    MaxRefreshes = 1
    Frames <- MFrames
    Setups <- MSetups
    Subsets <- MSubsets
    MinRows = 20
    ArmRows = 5
    MinPeriods = 4
    Months <- MMonths
    AskedTasks = {"auto", "regression"}
    LnMilli <- MLn
    MaxCalls = 2
    MaxChanges = 1
    MaxFaults = 1
    MaxRestarts = 1
CHECK_DEADLOCK FALSE
INVARIANTS
    FeedKeysUnique
    TuningIsAudited
    AnswersAreSupported
    LineageComplete
    CachedModelsSound
    PlansAreSound
    QueriesAreMeant
    ChartsAreOfTheQuestion
    ProfileFollows
    ShiftIsFlagged
PROPERTIES
    ResultAddsUp
    KeyLostForGood
    FeedMerges
    TuningIsMonotone
    StreamIsServed
