SPECIFICATION Spec
CONSTANTS
    Threads = {t1, t2}
    Producers = {t1, t2}
    WaitCallers = {t1}
    Configurers = {t2}
    Worker = worker
    DefaultCap = 2
    Capacities = {1, 3}
    Policies = {"DropNewest"}
    MaxTasks = 3
    MaxResizes = 1
INVARIANT Safety
PROPERTIES WaitContract ImplementsFifoExecutor
CHECK_DEADLOCK FALSE
