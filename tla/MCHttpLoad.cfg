SPECIFICATION FairSpec
CONSTANTS
    a = a
    Keys = {a}
    Malformed = Malformed
    Lines <- MCLines
    Deliveries <- MCDeliveries
    Instances = {i, h}
    Threads = 2
    MaxRetries = 1
    MaxRestarts = 1
    MaxAdmin = 1
    MaxLost = 1
INVARIANTS
    HttpTypeOK
    HeldIsStored
    CreatedOncePerMap
    AckedIsBacked
    ConfirmationsMatchWrites
    EveryLineSettled
PROPERTIES
    LoadEnds
    AckedGetsStored
CHECK_DEADLOCK FALSE
