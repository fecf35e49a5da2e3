CONSTANTS
    Threads = {p1, w1}
    Producers = {p1}
    WaitCallers = {w1}
    Configurers = {}
    Worker = worker
    InitCapacity = 0
    InitPolicy = "Block"
    Capacities = {}
    Policies = {}
    MaxTasks = 1
SPECIFICATION FairSpec
PROPERTIES WaitReturns
CHECK_DEADLOCK FALSE
