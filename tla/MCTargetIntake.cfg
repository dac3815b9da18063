CONSTANTS
    Keys = {k1, k2}
    Blank = blank
    Runs = {run}
    NoRun = noRun
    MaxForeign = 2
    MaxRestarts = 1
    MaxResets = 1
    MaxArmed = 1
    MaxLost = 1
SPECIFICATION FairTargetSpec
INVARIANTS
    TargetTypeOK
    NothingSkipped
    CreatedOncePerLife
    DuplicateHasOriginal
    ConfirmedIsHeld
PROPERTY EveryDocumentReached
CHECK_DEADLOCK FALSE
