\* Two connections of two topics, a window of two candles, two changes, one fault.
SPECIFICATION FairSpec
CONSTANTS
    Universes <- MCUniverses
    Feeds = {2}
    Streamed = {0, 1, 3, 4}
    Budget = 2
    Requests = 2
    MaxConnections = 2
    MaxAttempt = 1
    MaxChanges = 2
    MaxFaults = 1
    MaxRepairs = 1
    MaxCandles = 2
    MaxRepair = 2
    LastMinute = 4
    None = None
INVARIANTS TypeOK EligibleIsCurrent HolesAreKnown RepairClosesWhatFits
PROPERTIES EventuallySubscribed
CHECK_DEADLOCK FALSE
