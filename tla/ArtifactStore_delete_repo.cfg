\* Two repositories that share blobs, two requests racing the sweeper, a restart.
CONSTANTS
    Repos = {r1, r2}
    Paths = {p1, p2}
    Digests = {d1, d2}
    Writers = {w1, w2}
    None = None
    SweepLimit = 1
    MaxCrashes = 0
SYMMETRY Symmetry
SPECIFICATION Spec
INVARIANT RefCountExact
CHECK_DEADLOCK FALSE
