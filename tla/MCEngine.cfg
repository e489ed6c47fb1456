SPECIFICATION EngineSpec
CONSTANTS
    dca = dca
    twap = twap
    sched = sched
    cond = cond
    o1 = o1
    Strategy = {twap, cond}
    Owner = {o1}
    KindOf <- MCKindOf
    OwnerOf <- MCOwnerOf
    Usdc <- MCUsdc
    FillSizes <- MCFillSizes
    Interval <- MCOne
    RunAt <- MCTwo
    Slices <- MCTwo
    MaxTotal <- MCZero
    Walk <- MCWalk
    NotionalCap <- MCOne
    DailyMax = 9
    GlobalKill = FALSE
    Tick = {sweep1, sweep2}
    DayLen = 10
    MaxClock = 4
    MaxFaults = 2
    tpsl = tpsl
    trail = trail
    grid = grid
    long = long
    DmOwner = {o1}
    Beat = {b1, b2}
    MaxLag = 1
    TtlChoices = {2, 3}
    MaxPerDay = 1
    AlertAfter = 2
    DayTicks = 9
    Delegated = FALSE
    MaxTime = 9
    MaxDmFaults = 1
    MaxStops = 1
    MaxEdits = 1
    Wallet = {w1, w2}
    NonceTtl = 2
    SessionTtl = 3
    MaxNonces = 2
    MaxRequests = 3
    MaxAuthTime = 3
    AgentOwner = {"A", "B"}
    Device = {d1, d2}
    WalletOf <- MCWalletOf
    AgentTtl = 1
    TokenTtl = 1
    MaxKeys = 2
    MaxCalls = 1
    MaxAgTime = 1
    MaxSwitches = 1
    FeeCall = {c1, c2}
    PositiveTtl = 3
    NegativeTtl = 1
    MaxLatency = 2
    MaxFeeTime = 4
    MaxFlips = 1
    MaxFeeOrders = 2
    MaxFeeNets = 1
    PosStrategy <- MCPosStrategy
    PosKind <- MCPosKind
    CoinOf <- MCCoinOf
    TakeProfit = 3
    StopLoss = 1
    TrailPct = 40
    GridLevels = 3
    Price = {1, 3, 4}
    LowerPrice = 1
    GridStep = 1
    PerLevelUsdc = 4
    MIN_GRID_NOTIONAL = 2
    InitialPosition <- MCInitialPosition
    PosTick = {t1, t2}
    MaxTicks = 2
    MaxPosFaults = 1
SYMMETRY Interchangeable
CHECK_DEADLOCK FALSE
INVARIANTS
    NeverOverbuys
    StopLetsOneThrough
    TriggersWithinBudget
    ExposureIsAlerted
    NonceSpentOnce
    OrdersSignedByApprovedKey
    BuilderFeeWindow
    SizedFromItsTrades
PROPERTIES
    RecordsMoveForward
    OneMissTolerated
