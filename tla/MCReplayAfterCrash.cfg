CONSTANTS
    Keys = {k1, k2}
    Blank = blank
    Runs = {run}
    NoRun = noRun
    MaxForeign = 2
    MaxRestarts = 1
    MaxResets = 0
    MaxArmed = 1
    MaxLost = 1
SPECIFICATION TargetSpec
INVARIANT AppliedOnce
CHECK_DEADLOCK FALSE
