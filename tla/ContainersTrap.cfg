SPECIFICATION Spec
CHECK_DEADLOCK FALSE
CONSTANTS
    MapKeys = {1, 2}
    SetKeys = {1, 2}
    Bytes = {1}
    MaxSize = 2
    None = None
    MaxPrefix = 4
    MaxLocks = 1
INVARIANTS
    NoTrap
