CONSTANTS
    p = p
    m = m
    g = g
    Records = {p, m, g}
    ParseRejects = {p}
    MapRejects = {m}
    Retries = 0
    MaxFailures = 1
    MaxBundleRetries = 1
    MaxClears = 1
    MaxRebuilds = 1
SPECIFICATION Spec
INVARIANTS
    OneDoor
PROPERTY PurgesItsOwn
CHECK_DEADLOCK FALSE
