SPECIFICATION ProgressSpec
CONSTANTS
    Kinds = {"console", "file", "unique", "syslog", "eventlog", "debug"}
    Threads = {t1, t2}
    Configs <- SmallConfigs
    Levels = {0}
    MaxCalls = 3
    SinkCalls = 2
    MaxFaults = 1
    Sizes = {1, 3}
    MaxPayload = 2
    Queues = {1, 2}
    MaxInFlight = 1
    MaxBatch = 2
    Shapes <- SmallShapes
    MaxSequence = 1
    MaxQueue = 1
    ClearOptions = {{"records", "payloads", "sessions"}}
    MaxOpens = 2
    MaxClock = 2
    Lengths = {1}
    Capacities = {0, 4}
    Producer = t1
    Waiter = t2
    Executor = executor
    MaxTasks = 3
PROPERTIES
    EveryCallReturns
    OutstandingWorkEnds
CHECK_DEADLOCK FALSE
