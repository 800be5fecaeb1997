CONSTANTS
    Pods = {a, b}
    None = None
    MaxDigest = 2
    PageSize = 1
    MaxRequests = 3
    MaxTerms = 2
    MaxCrashes = 1
SYMMETRY Symmetry
SPECIFICATION Spec
INVARIANTS TypeOK LacksOnlyDropped
CHECK_DEADLOCK FALSE
