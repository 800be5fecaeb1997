CONSTANTS
    Pods = {a, b}
    None = None
    Writes = {w}
    MaxTerms = 2
    MaxCrashes = 0
SPECIFICATION FairSpec
PROPERTY SettledLeaderUploads
CHECK_DEADLOCK FALSE
