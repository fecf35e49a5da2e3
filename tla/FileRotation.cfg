SPECIFICATION FairSpec
CONSTANTS
    Configs <- AllConfigs
    Days = {1, 2}
    Stamps = {1, 2}
    Sizes = {1, 3}
    MaxRecords = 3
    MaxClears = 1
    MaxFaults = 1
INVARIANT Safety
PROPERTIES RecordsAreKept Retention DestructorDrains
CHECK_DEADLOCK FALSE
