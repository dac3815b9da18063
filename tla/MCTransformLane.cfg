SPECIFICATION Spec
CONSTANTS
    Graphs <- MCGraphs
    MaxCompiles = 1
    Curated = "account"
    N = 4
    MapRejects = {2}
    BatchSize = 2
    WriterLists <- MCWriters
    MaxStarts = 3
    MaxFaults = 2
INVARIANTS
    TransformTypeOK
    BuiltInOrder
    SuccessMeansDelivered
    NoFalseAlarm
CHECK_DEADLOCK FALSE
