SPECIFICATION Spec
CONSTANTS
    HeapBase = 3
    InitialPages = 1
    MaxPages = 3
    PageSize = 4
    UsizeMax = 15
    Sizes = {1, 3, 4}
    Aligns = {1, 4}
INVARIANTS
    LiveBlocksDisjoint
    LiveBlocksInMemory
    HeapReclaimed
