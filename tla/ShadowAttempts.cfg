SPECIFICATION Spec
CONSTANTS
    Roots = {r1, r2}
    HighAt <- MCHighAt
    MaxAttempts = 1
    Ttl = 1
    Window = 1
    Lifetime = 1
    MaxHigh = 2
    MaxTime = 2
    MaxFaults = 1
    MaxWork = 4
    None = None
SYMMETRY Symmetry
INVARIANTS TypeOK LimitHolds LogTellsState RootBeforeAttempt
PROPERTY TerminalIsFinal
CHECK_DEADLOCK FALSE
