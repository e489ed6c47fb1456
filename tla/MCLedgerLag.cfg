SPECIFICATION Spec
CONSTANTS
    DayMs = 2
    k1 = k1
    k2 = k2
    o1 = o1
    Key = {k1, k2}
    Cloid = {c1, c2, c3}
    Digest = {d1}
    Owner = {o1}
    NoCloid = NoCloid
    NoDigest = NoDigest
    KeyOwner <- MCKeyOwner
    DailyCap <- MCDailyCap
    AddrCap <- MCAddrCap
    Notional = {1}
    Fence = {1}
    Report = {"filled"}
    MaxNow = 2
    MaxLag = 1
SYMMETRY Interchangeable
VIEW WithoutUpdatedAt
CHECK_DEADLOCK FALSE
INVARIANTS
    DailyCapHeld
