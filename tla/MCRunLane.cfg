CONSTANTS
    p = p
    m = m
    g = g
    Records = {p, m, g}
    ParseRejects = {p}
    MapRejects = {m}
    Retries = 1
    MaxFailures = 1
    MaxBundleRetries = 1
    MaxClears = 0
    MaxRebuilds = 0
SPECIFICATION FairSpec
INVARIANTS
    LaneTypeOK
    OneDoor
    NothingLost
PROPERTY RunEnds
CHECK_DEADLOCK FALSE
