SPECIFICATION OrdersSafety
CONSTANTS
    k1 = k1
    Workers = {w1, w2}
    OrderIds = {o1}
    Keys <- MCKeys
    Requests <- MCRequests
    MaxLots = 1
    InitLots <- MCInitLots
    InitOnHand <- MCInitOnHand
INVARIANT
    IssuedOnce
CHECK_DEADLOCK FALSE
