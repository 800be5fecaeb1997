CONSTANTS
    Pods = {a, b}
    None = None
    Writes = {w}
    MaxTerms = 2
    MaxCrashes = 1
SYMMETRY Symmetry
SPECIFICATION Spec
INVARIANTS TypeOK LaterTermLargerCount FenceWithinTransitions
CHECK_DEADLOCK FALSE
PROPERTY FenceLoweredOnlyByPromotion
