SPECIFICATION SchedulerSpec
CONSTANTS
    dca = dca
    twap = twap
    sched = sched
    cond = cond
    o1 = o1
    Strategy = {dca, sched}
    Owner = {o1}
    KindOf <- MCKindOf
    OwnerOf <- MCOwnerOf
    Usdc <- MCUsdc
    FillSizes <- MCFillSizes
    Interval <- MCOne
    RunAt <- MCTwo
    Slices <- MCTwo
    MaxTotal <- MCZero
    Walk <- MCWalkCap
    NotionalCap <- MCOne
    DailyMax = 1
    GlobalKill = FALSE
    Tick = {t1, t2}
    DayLen = 10
    MaxClock = 4
    MaxFaults = 0
SYMMETRY Interchangeable
CHECK_DEADLOCK FALSE
INVARIANTS
    DailySpendCapHeld
