SPECIFICATION Spec
CONSTANTS
    None = None
    Contracts <- MCCsv
    Sources <- MCSources
    Blank <- MCBlank
    BatchSize = 2
    SplitSize = 2
    RowBatch = 2
    BundleTries = 2
    MaxAttempts = 1
    MaxExtracts = 1
    MaxFaults = 0
INVARIANTS
    OnlyRecordErrors
CHECK_DEADLOCK FALSE
