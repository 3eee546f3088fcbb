\* One event id, detected twice; a fault of any kind.  Liveness.
SPECIFICATION FairSpec
CONSTANTS
    Events = {e1}
    MaxEpisodes = 2
    MaxRecords = 2
    MaxFaults = 1
    None = None
PROPERTIES CandidatesLeave
