SPECIFICATION Spec
CONSTANTS
    Items <- ThreeItems
    MaxAttempts = 2
    Lease = 2
    RetryDelay = 1
    BatchLimit = 2
    WatchMax = 1
    SlowSends = FALSE
INVARIANTS
    TypeOK
    AttemptBudget
    ExclusiveLease
    SentFlagMatches
    DeadOnlyExhausted
    WatchBudget
PROPERTIES
    SettledIsFinal
    ImplementsDelivery
