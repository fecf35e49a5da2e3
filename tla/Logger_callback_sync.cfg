SPECIFICATION FairSpec
CONSTANTS
    Threads = {t1}
    LogCallers = {t1}
    SetupCallers = {t1}
    TuneCallers = {}
    WaitCallers = {}
    ClearCallers = {}
    ShutdownCallers = {}
    Strategies = {s1}
    Concurrent = {}
    Async = {}
    Subscribed = {s1}
    Levels = {0}
    RawLevel = 2
    MaxCalls = 2
    NoActor = NoActor
    s1 = s1
    t1 = t1
PROPERTIES CallbacksMayLog
CHECK_DEADLOCK FALSE
