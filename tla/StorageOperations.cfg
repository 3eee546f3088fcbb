\* Two seconds, two months, two tables, two signals; three writes, two
\* commands, one end of the runtime; one rollover of a second.
SPECIFICATION Spec
CONSTANTS
    Segments <- MCSegments
    Months = {1, 2}
    Budget = 2
    MaxRolls = 1
    RowLimit = 2
    Tables <- MCTables
    Signals = {1, 2}
    MaxWork = 3
    MaxCommands = 2
    MaxStops = 1
    None = None
INVARIANTS SpoolKeepsRecords ArchiveIsSnapshot
PROPERTY ProvenanceInSight
CHECK_DEADLOCK FALSE
