SPECIFICATION Spec
CONSTANTS
    u1 = u1
    u2 = u2
    bad = bad
    h1 = h1
    h2 = h2
    MaxRuns = 3
    Workers = 1
    NumLanes = 1
    Queries <- OneQuery
    MaxHits = 1
    Urls = {u1, u2}
    UnsafeUrls = {}
    Hashes = {h1, h2}
    Primary = {}
INVARIANTS
    ComparedWithLastRun
CHECK_DEADLOCK FALSE
