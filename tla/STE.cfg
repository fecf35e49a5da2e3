CONSTANTS
    Threads = {p1, p2, c1}
    Producers = {p1, p2}
    WaitCallers = {p2}
    Configurers = {c1}
    Worker = worker
    InitCapacity = 0
    InitPolicy = "Block"
    Capacities = {0, 1, 2}
    Policies = {"Block", "DropNewest", "DropOldest"}
    MaxTasks = 3
SPECIFICATION FairSpec
INVARIANTS Safety NoSilentLoss
PROPERTIES WaitContract ImplementsFifoExecutor Progress
CHECK_DEADLOCK FALSE
