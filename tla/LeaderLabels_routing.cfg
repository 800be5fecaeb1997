CONSTANTS
    Pods = {a, b, c}
    None = None
    MaxTerms = 3
    MaxReplacements = 1
    ApiFails = TRUE
SPECIFICATION LabelsSpec
INVARIANTS LabelsTypeOK 
CHECK_DEADLOCK FALSE
