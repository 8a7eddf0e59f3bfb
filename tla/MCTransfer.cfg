SPECIFICATION TransferSpec
CONSTANTS
    c1 = c1
    c2 = c2
    d1 = d1
    d2 = d2
    Workers = {w1, w2}
    TransferIds = {t1}
    LineNos = {1, 2}
    FromKey <- MCFromKey
    ToKey <- MCToKey
    Keys <- MCKeys
    Plans <- MCPlans
    Receipts <- MCReceipts
    Requests <- MCRequests
    MaxLots = 7
    InitLots <- MCInitLots
    InitOnHand <- MCInitOnHand
INVARIANTS
    StockIsAccountedFor
    TotalsBackedByBills
    UncontendedTransfersAgree
PROPERTIES
    ImplementsTransferLife
CHECK_DEADLOCK FALSE
