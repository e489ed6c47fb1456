SPECIFICATION ReconcilerFairSpec
CONSTANTS
    DayMs = 10
    k1 = k1
    k2 = k2
    o1 = o1
    Key = {k1, k2}
    Cloid = {c1}
    Digest = {d1}
    Owner = {o1}
    NoCloid = NoCloid
    NoDigest = NoDigest
    KeyOwner <- MCKeyOwner
    DailyCap <- MCDailyCap
    AddrCap <- MCAddrCap
    Notional = {0}
    Fence = {1}
    Report = {"submitted", "open", "filled", "canceled", "rejected"}
    MaxLag = 0
    MaxNow = 2
    Poller = {p1, p2}
    Accounts <- MCAccounts
    Lookback = 1
    MaxRecFaults = 1
INVARIANTS
    TerminalTruth
PROPERTIES
    EndedOrdersSettle
