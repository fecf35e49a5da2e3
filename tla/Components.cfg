SPECIFICATION ComponentsSpec
CONSTANTS
    Producers = {p1, p2}
    CapacityArg = 1
    MaxPushes = 3
    Kinds = {"console", "file", "unique", "syslog", "eventlog", "debug"}
    Threads = {t1, t2}
    Configs <- SmallConfigs
    Levels = {0, 1}
    MaxCalls = 3
    MaxFaults = 1
    Sizes = {1, 3}
    MaxPayload = 2
    Queues = {1, 2}
    MaxInFlight = 1
    MaxBatch = 2
    Shapes <- SmallShapes
    MaxSequence = 1
    MaxQueue = 1
    ClearOptions = {{"records", "payloads", "sessions"}}
    MaxOpens = 2
    StoreCalls = 4
    MaxScrapeClock = 2
    Lengths = {1, 5}
    Capacities = {0, 4}
    Records <- SmallRecords
    Limits <- SmallLimits
    MaxCallbacks = 1
    MaxClock = 3
    Builds <- SmallBuilds
    JsonDocs <- SmallJsonDocs
    PairDocs <- SmallPairDocs
    LaterDocs <- SmallLaterDocs
    Documents <- SmallDocuments
    BindingSets <- SmallBindings
    Patterns <- SmallPatterns
    LogRecords <- SmallLogRecords
    SiteBuilds <- SmallSiteBuilds
    SiteLevels = {2, 3}
    EveryN = 2
    CountWidth = 2
    Period = 1
    MaxTime = 2
    Characters <- SmallCharacters
    MetricNames = {"x", "y"}
    LabelSets <- SmallLabelSets
    FileDays = {1, 2}
    MaxWritten = 2
    MaxFiles = 4
    MaxReads = 2
SYMMETRY ThreadSymmetry
INVARIANTS
    RingSafety BackendSafety ProgramOrder OtlpSafety MdbxSafety PrometheusSafety CrashSafety
    MemorySafety ConfigurationSafety FormatSafety CallSiteSafety TextSafety LogFilesSafety
PROPERTIES
    PushFailsOnlyWhenFull ImplementsMpscQueue
    WaitSettles LastFileIsOwn PhasesAreTransactional
CHECK_DEADLOCK FALSE
