SPECIFICATION FairSpec
CONSTANTS
    Threads = {t1, t2, t3}
    Producers = {t1, t2}
    WaitCallers = {t2}
    Configurers = {t3}
    Worker = worker
    Capacities = {0, 1, 2}
    Policies = {"Block", "DropNewest", "DropOldest"}
    MaxTasks = 3
INVARIANT Safety
PROPERTIES WaitContract NeverGrowsPastLimit ImplementsFifoExecutor Progress
CHECK_DEADLOCK FALSE
