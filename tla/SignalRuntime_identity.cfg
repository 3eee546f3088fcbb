\* No fault at all: one event id, detected twice.
SPECIFICATION Spec
CONSTANTS
    Events = {e1}
    MaxEpisodes = 2
    MaxRecords = 2
    MaxFaults = 0
    None = None
INVARIANTS BaselineIdentityUnique
