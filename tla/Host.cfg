SPECIFICATION Spec
CONSTANTS
    Values = {v1, v2}
    NoValue = NoValue
    MaxDepth = 3
INVARIANTS
    ViewIsCurrent
    Consistent
