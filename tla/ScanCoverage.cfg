\* Three symbols, batches of one, two moves of the market, three faults.
SPECIFICATION FairSpec
CONSTANTS
    Symbols = {1, 2, 3}
    Markets <- MCMarkets
    BatchSize = 1
    Modes = {"SPOOL_SHADOW", "SPOOL_CANONICAL"}
    MaxActive = 1
    MaxMoves = 2
    MaxFaults = 3
    None = None
INVARIANTS TypeOK CompletedCoversItsUniverse
PROPERTIES EverySymbolScheduled IncidentTracksDisk
CHECK_DEADLOCK FALSE
