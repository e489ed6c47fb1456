SPECIFICATION SignerSpec
CONSTANTS
    Instance = {i1, i2}
    NoHolder = NoHolder
    Ttl = 1
    MaxClock = 3
    MaxFaults = 1
    DayMs = 10
    k1 = k1
    o1 = o1
    Key = {k1}
    Cloid = {c1, c2}
    Digest = {d1, d2}
    Owner = {o1}
    NoCloid = NoCloid
    NoDigest = NoDigest
    KeyOwner <- MCKeyOwner
    DailyCap <- MCDailyCap
    AddrCap <- MCAddrCap
    Notional = {0}
    Fence = {1, 2, 3, 4}
    Report = {}
    MaxNow = 3
    MaxLag = 3
    NoCall = NoCall
SYMMETRY Interchangeable
VIEW WithoutUpdatedAt
INVARIANTS
    OneWriterPerEpoch
    OneIntentPerNonceAcrossInstances
PROPERTIES
    NoGrantFromThePast
