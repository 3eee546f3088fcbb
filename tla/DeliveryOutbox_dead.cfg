SPECIFICATION Spec
CONSTANTS
    Items <- TwoItems
    MaxAttempts = 5
    Lease = 2
    RetryDelay = 1
    BatchLimit = 2
    WatchMax = 1
    SlowSends = FALSE
INVARIANTS
    DeadWasTried
