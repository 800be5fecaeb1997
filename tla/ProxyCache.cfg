SPECIFICATION Spec
CONSTANTS
    Clients = {c1, c2}
    Paths = {a}
    Metadata = {a}
    Dated = {a}
    Configs <- MCConfigs
    MetadataTTL = 1
    ArtifactTTL = 0
    NegativeTTL = 1
    IdleTTL = 1
    BodySize = 2
    EvictBatch = 2
    EvictRounds = 1
    RetryAfters <- MCRetryAfters
    DefaultCooldown = 1
    MaxCooldown = 2
    MaxClock = 3
    MaxUpdates = 1
    MaxRequests = 3
    MaxReleases = 1
SYMMETRY Symmetry
INVARIANTS FlightSound AnswersAreCurrent
PROPERTIES CooldownShields
