SPECIFICATION FairSpec
CONSTANTS
    Items <- TwoItems
    MaxAttempts = 3
    Lease = 2
    RetryDelay = 1
    BatchLimit = 2
    WatchMax = 1
    SlowSends = TRUE
PROPERTIES
    EventuallySettled
