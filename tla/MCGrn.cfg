SPECIFICATION GrnSpec
CONSTANTS
    h1 = h1
    h2 = h2
    s1 = s1
    s2 = s2
    Workers = {w1, w2}
    GrnIds = {g1}
    LineNos = {1, 2}
    Warehouses = {h1, h2}
    Skus = {s1, s2}
    Keys <- MCKeys
    Receipts <- FirstLineReceipts
    Requests <- FirstLineRequests
    Payloads <- GrowingNote
    MaxLots = 2
    MaxRequests = 4
    InitLots <- MCInitLots
    InitOnHand <- MCInitOnHand
INVARIANTS
    TotalsBackedByStock
    StockCameInOnLines
    UncontendedNotesAgree
PROPERTIES
    ImplementsGrnLife
SYMMETRY Symmetry
CHECK_DEADLOCK FALSE
