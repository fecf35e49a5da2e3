SPECIFICATION Spec
CONSTANTS
    Threads = {t1}
    Producers = {t1}
    WaitCallers = {}
    Configurers = {t1}
    Worker = worker
    DefaultCap = 2
    Capacities = {}
    Policies = {}
    MaxTasks = 1
    MaxResizes = 0
INVARIANTS
    NoTaskLeftBehind
CHECK_DEADLOCK FALSE
