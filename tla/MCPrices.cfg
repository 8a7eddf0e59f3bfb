SPECIFICATION ListsSpec
CONSTANTS
    Workers = {w1, w2}
    Lists = {1, 2}
    LastDay = 2
    MaxItems = 3
    Payloads <- MCPayloads
    Imports <- MCImports
    Contexts <- MCContexts
    Workbooks <- MCWorkbooks
    NewScopes <- MCNewScopes
    Starts <- MCStarts
    MaxScopes = 4
    MaxRequests = 4
INVARIANTS
    OnePricePerDay
    ShownIsCharged
PROPERTIES
    StoredAsAsked
SYMMETRY WorkerSymmetry
CHECK_DEADLOCK FALSE
