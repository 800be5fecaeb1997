\* Two paths that may share a blob, a request racing the sweeper, a restart.
\* No symmetry: it is unsound for liveness.
CONSTANTS
    Repos = {r1}
    Paths = {p1, p2}
    Digests = {d1, d2}
    Writers = {w1}
    None = None
    SweepLimit = 2
    MaxCrashes = 1
SPECIFICATION FairSpec
INVARIANTS TypeOK RefCountSafe BytesLostOnlyByStaleSweep
PROPERTIES LeakOnlyByDeleteRepository ImplementsLedger UnreferencedReclaimed
CHECK_DEADLOCK FALSE
