SPECIFICATION MasterSpec
CONSTANTS
    Workers = {w1, w2}
    MaxRows = 3
    Codes = {"A", "B"}
    FirstRows <- MCFirstRows
    MaxRequests = 3
    Quantities = {1, 2, 9}
    LastDay = 2
INVARIANTS
    OneDefaultPerOwner
    DistributorsFormTrees
PROPERTIES
    DeletedStayDeleted
CHECK_DEADLOCK FALSE
