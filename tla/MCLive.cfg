SPECIFICATION LiveSpec
CONSTANTS
    Instance = {i1, i2}
    NoHolder = NoHolder
    Ttl = 2
    MaxClock = 5
    MaxFaults = 2
    PushOwner = {"A"}
    Tokens = 2
    ChunkSize = 1
    BatchLimit = 1
    MaxAge = 2
    DayLen = 4
    QuietChoices <- MCQuiet
    MaxSends = 2
    MaxChanges = 3
    Secret = {s1}
    Pin = {q1, q2}
    MaxPinAttempts = 1
    MaxWalletFaults = 1
    Levels = 2
    Symmetric = TRUE
    GridTick = {t1}
    GridKill = FALSE
    ForeignCancels = 1
    MaxSeq = 4
    MaxDrains = 1
    MaxGridFaults = 2
    View = {v1, v2}
    Slices = 2
    MaxMonEvents = 1
CHECK_DEADLOCK FALSE
INVARIANTS
    EpochUnique
    LiveTokensKept
    RestingIsReachable
    RemovedClearUnlessOverlapped
PROPERTIES
    NewHolderNewEpoch
    LeadershipReturns
    ReceiptsSettle
    DeletedGridGoes
    PanelNeverGoesBack
    OvercountSettles
    NobodyIsLockedOut
