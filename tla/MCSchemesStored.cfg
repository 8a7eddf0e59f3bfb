SPECIFICATION SchemesSpec
CONSTANTS
    Workers = {w1, w2}
    Codes = {1, 2}
    MaxRows = 5
    MaxRequests = 5
    Stored <- MCStored
    Orders <- MCOrders
    NewRows <- MCNewRows
    Patches <- MCPatches
    Workbooks <- MCWorkbooks
PROPERTIES
    DiscountIsStored
CHECK_DEADLOCK FALSE
