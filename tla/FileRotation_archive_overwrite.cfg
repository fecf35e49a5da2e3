SPECIFICATION Spec
CONSTANTS
    Configs <- CompressedUnlimited
    Days = {1}
    Stamps = {1}
    Sizes = {1, 2}
    MaxRecords = 4
    MaxClears = 0
    MaxFaults = 0
INVARIANTS UnlimitedKeepsRecords
CHECK_DEADLOCK FALSE
