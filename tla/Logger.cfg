SPECIFICATION FairSpec
CONSTANTS
    Threads = {t1, t2}
    LogCallers = {t1, t2}
    SetupCallers = {t1}
    TuneCallers = {t2}
    WaitCallers = {t2}
    ClearCallers = {t2}
    ShutdownCallers = {t1, t2}
    Strategies = {s1, s2}
    Concurrent = {s2}
    Async = {s1}
    Subscribed = {}
    Levels = {0, 1}
    RawLevel = 2
    MaxCalls = 4
    NoActor = NoActor
    s1 = s1
    s2 = s2
    t1 = t1
    t2 = t2
INVARIANT Safety
PROPERTIES WaitContract CallsReturn
CHECK_DEADLOCK FALSE
