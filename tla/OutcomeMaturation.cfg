\* Any two of ten rows, batches of one, one fault, the retention evaluation.
SPECIFICATION FairSpec
CONSTANTS
    e1 = e1  e2 = e2  v1 = v1  l1 = l1  o1 = o1  o2 = o2  o3 = o3
    g1 = g1  g2 = g2  g3 = g3  a = a  b = b  c = c
    Rows = {e1, e2, v1, l1, o1, o2, o3, g1, g2, g3}
    Kind <- MCKind
    SymbolOf <- MCSymbol
    Unpriced = {o2}
    Width = 2
    Closes = {2, 4, 6, 8}
    Minutes <- MCMinutes
    Horizons = {3, 5}
    Coverage = 2
    SignalHorizon = 1
    SignalGrace = 1
    Window = 4
    Limit = 1
    MaxBatches = 1
    MaxDelay = 2
    MaxTime = 8
    MaxRows = 2
    MaxCycle = 1
    Anchors <- MCAnchors
    MaxFaults = 1
    FaultsUntil = 4
    None = None
INVARIANTS TypeOK
PROPERTIES ArchivedIsFinal EventuallyEnded
CHECK_DEADLOCK FALSE
