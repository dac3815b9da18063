CONSTANTS
    k1 = k1
    k2 = k2
    Keys = {k1, k2}
    Blank = blank
    Runs = {run, earlier}
    NoRun = noRun
    ThisRun = run
    Malformed = malformed
    Lines <- MCLines
    MaxForeign = 1
    MaxRestarts = 0
    MaxResets = 0
    MaxArmed = 0
    MaxLost = 0
    MaxAttempts = 1
SPECIFICATION Spec
INVARIANTS
    SatisfiedMeansSettled
CHECK_DEADLOCK FALSE
