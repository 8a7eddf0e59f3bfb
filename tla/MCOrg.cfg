SPECIFICATION MCSpec
CONSTANTS
    Workers = {w1, w2}
    Ids = {1, 2, 3, 4}
    MaxRequests = 3
    MaxRows = 2
INVARIANTS
    PathsTellNodesApart
    ExpansionsAgree
PROPERTIES
    PathsChangeAsAsked
    ImportsAreWhole
SYMMETRY WorkerSymmetry
CHECK_DEADLOCK FALSE
