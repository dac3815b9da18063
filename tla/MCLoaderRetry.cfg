CONSTANTS
    k1 = k1
    k2 = k2
    Keys = {k1}
    Blank = blank
    Runs = {run, earlier}
    NoRun = noRun
    ThisRun = run
    Malformed = malformed
    Lines <- MCOneKey
    MaxForeign = 0
    MaxRestarts = 1
    MaxResets = 0
    MaxArmed = 0
    MaxLost = 1
    MaxAttempts = 3
SPECIFICATION FairSpec
INVARIANTS
    CleanExitAnswered
    FlagNeverAhead
PROPERTIES
    AttemptEnds
    KeepsContract
CHECK_DEADLOCK FALSE
