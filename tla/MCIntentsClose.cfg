SPECIFICATION IntentSpec
CONSTANTS
    n1 = n1
    n2 = n2
    c1 = c1
    c2 = c2
    k1 = k1
    Network = {n1, n2}
    Cloid = {c1, c2}
    Call = {k1}
    MaxLedgers = 1
    MaxTaps = 2
CHECK_DEADLOCK FALSE
INVARIANT
    CloseNotReissued
