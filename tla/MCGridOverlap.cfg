SPECIFICATION GridSpec
CONSTANTS
    Levels = 2
    Symmetric = TRUE
    GridTick = {t1, t2}
    GridKill = FALSE
    ForeignCancels = 0
    MaxSeq = 3
    MaxDrains = 1
    MaxGridFaults = 0
CHECK_DEADLOCK FALSE
INVARIANTS
    RemovedOnlyWhenClear
