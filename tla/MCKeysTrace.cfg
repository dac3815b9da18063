CONSTANTS
    p = p
    m = m
    g = g
    Records = {p, g}
    ParseRejects = {p}
    MapRejects = {}
    Retries = 1
    MaxFailures = 1
    MaxBundleRetries = 1
    MaxClears = 1
    MaxRebuilds = 1
SPECIFICATION Spec
INVARIANT KeysTraceBothWays
CHECK_DEADLOCK FALSE
