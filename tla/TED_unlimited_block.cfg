SPECIFICATION FairSpec
CONSTANTS
    Threads = {t1, t2}
    Producers = {t1}
    WaitCallers = {}
    Configurers = {t2}
    Worker = worker
    Capacities = {0, 1}
    Policies = {"Block"}
    MaxTasks = 3
PROPERTIES
    UnlimitedQueueDoesNotBlock
CHECK_DEADLOCK FALSE
