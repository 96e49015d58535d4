SPECIFICATION Spec
CONSTANTS
    u1 = u1
    u2 = u2
    bad = bad
    h1 = h1
    h2 = h2
    MaxRuns = 1
    Workers = 2
    NumLanes = 1
    Queries <- OneLane
    MaxHits = 1
    Urls = {u1, u2}
    UnsafeUrls = {bad}
    Hashes = {h1, h2}
    Primary = {}
INVARIANTS
    AllRecordsRetained
CHECK_DEADLOCK FALSE
