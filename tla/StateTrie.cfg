SPECIFICATION Spec
CHECK_DEADLOCK FALSE
CONSTANTS
    Keys <- MCKeys
    Bytes = {0}
    Deleted = Deleted
    MaxCount = 2
    MaxIds = 3
    MaxCells = 2
    MaxLen = 1
    MaxIterators = 2
INVARIANTS
    Consistent
PROPERTIES
    ImplementsApi
