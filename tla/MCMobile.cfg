SPECIFICATION MobileSpec
CONSTANTS
    Network = {"n1", "n2"}
    Cloid = {c1, c2}
    Call = {k1, k2}
    MaxLedgers = 2
    MaxTaps = 2
    TicketCoin = {"c1", "c2"}
    Typed = {10, 30}
    Mid = {20}
    TypedSize = {20}
    LotParts = 2
    MinNotional = 10
    MaxTicketEdits = 3
    MaxSubmits = 2
    FundNet = {"mainnet", "testnet"}
    Amount = {3, 6}
    Destination = {"self", "other", "bad"}
    ValidDest = {"self", "other"}
    MinDeposit = 5
    WithdrawFee = 1
    ChainUsdc = 7
    Withdrawable = 9
    MaxTransfers = 2
    MaxFundEdits = 3
    MaxNetSwitches = 1
    TypedNumber <- MCTyped
    MaxPanelTaps = 2
    MaxStrategies = 2
    FeedCoin = {"a", "b"}
    FeedNet = {"mainnet", "testnet"}
    MaxRuns = 4
    MaxFeedFaults = 1
    RouteUser = {"nobody", "u"}
    HashOf <- MCHash
    Delivered <- MCPool
    CooldownLen = 2
    MaxRtTime = 3
    MaxHttp = 2
    MaxWs = 1
    MaxRtTaps = 1
    TtlOption = {6, 12}
    BeatFloor = 2
    ArmsPerDay = 2
    UtcDay = 12
    MaxDelay = 1
    MaxMdTime = 20
    MaxMdFaults = 1
    MaxMdTaps = 3
    PsOwner = {"o1", "o2"}
    Category = {"fills", "alerts"}
    Hour = {0, 22}
    NotShown = NotShown
    MaxPsTaps = 3
    MaxPsFaults = 1
    MaxPsStarts = 1
SYMMETRY MCSymmetry
CHECK_DEADLOCK FALSE
INVARIANTS
    NothingForgotten
    LedgerHonest
    
    ReviewedIsSent
    FormsAreAccepted
    CooldownHonoured
    PresentUserKeepsOrders
    SettingsAgree
PROPERTIES
    LadderOfItsCoin
