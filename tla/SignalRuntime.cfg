\* Two event ids, two detections, three signal rows, one fault.
SPECIFICATION Spec
CONSTANTS
    Events = {e1, e2}
    MaxEpisodes = 2
    MaxRecords = 3
    MaxFaults = 1
    None = None
SYMMETRY EventSymmetry
INVARIANTS TypeOK OneSignalPerEpisode IdentityUnique MarkMatchesSignal PoolFollowsState
PROPERTIES MarkIsKept
