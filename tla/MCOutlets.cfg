SPECIFICATION MapsSpec
CONSTANTS
    o1 = o1
    o2 = o2
    Workers = {w1, w2}
    Outlets <- MCOutletSet
    LastDay = 3
    Lists <- MCLists
    MaxRows = 4
INVARIANTS
    OneRowPerDay
    ClosedRowsReplaced
    LookUpsFindTheRow
PROPERTIES
    PastIsKept
    RequestsEnd
CHECK_DEADLOCK FALSE
