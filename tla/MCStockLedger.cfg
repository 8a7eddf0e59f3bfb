SPECIFICATION StockSpec
CONSTANTS
    k1 = k1
    k2 = k2
    Workers = {w1, w2}
    Keys <- MCKeys
    Requests <- MCRequests
    MaxLots = 4
    InitLots <- MCInitLots
    InitOnHand <- MCInitOnHand
INVARIANTS
    OnHandNeverNegative
    BalanceIsLedger
    LotsMatchBalance
    LotsCoveredUnlessRaced
PROPERTIES
    EarliestLotsFirst
    ImplementsStockBook
    TransactionsEnd
