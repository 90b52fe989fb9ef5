SPECIFICATION FairSpec
CONSTANTS
    Rollouts = {r1, r2}
    Closer = closer
    MaxQueue = 2
    BatchSize = 2
    MaxBytes = 3
    MaxFiles = 2
    MaxEmits = 4
    MaxFaults = 1
INVARIANTS
    StreamIntact
    OnlyLastBatchAtRisk
    FlushedIsWritten
PROPERTIES
    FlushReachesTheFile
CHECK_DEADLOCK FALSE
