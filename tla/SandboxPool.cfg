SPECIFICATION FairPoolSpec
CONSTANTS
    r1 = r1
    r2 = r2
    r3 = r3
    Rollouts <- Batch
    MaxInFlight = 2
    MaxAttempts = 2
    MaxFaults = 1
INVARIANTS
    TrackedWhileUsed
PROPERTIES
    ImplementsLimiter
    EveryRolloutEnds
CHECK_DEADLOCK FALSE
