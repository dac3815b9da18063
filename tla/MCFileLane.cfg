SPECIFICATION Spec
CONSTANTS
    None = None
    Contracts <- MCContracts
    Sources <- MCSources
    Blank <- MCBlank
    BatchSize = 2
    SplitSize = 2
    RowBatch = 2
    BundleTries = 2
    MaxAttempts = 2
    MaxExtracts = 2
    MaxFaults = 1
INVARIANTS
    FileLaneTypeOK
    ClaimHolds
    LedgerIsBacked
    BatchesPartition
    RouterAgrees
PROPERTIES
    YieldedBatchesStable
CHECK_DEADLOCK FALSE
