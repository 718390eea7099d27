SPECIFICATION MCSpec
CHECK_DEADLOCK FALSE
CONSTANTS
    Keys = {1, 2, 3, 4, 5, 6, 7, 8, 9, 10, 11, 12}
    M = 2
    MaxNodes = 20
    None = None
    Prologues <- MCPrologues
    MaxOps = 4
INVARIANTS
    WellFormed
    ContentsAgree
    LookupsAgree
    IterationOrdered
