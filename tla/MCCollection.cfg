SPECIFICATION Spec
CONSTANTS
    u1 = u1
    u2 = u2
    bad = bad
    h1 = h1
    h2 = h2
    MaxRuns = 3
    Workers = 2
    NumLanes = 2
    Queries <- TwoLanes
    MaxHits = 1
    Urls = {u1, u2}
    UnsafeUrls = {bad}
    Hashes = {h1, h2}
    Primary <- SecondLaneFirstUrl
INVARIANTS
    TypeOK
    CoverageHonest
    TagsDiscardNothing
    EvidenceIsBest
    HistoryIsOfCompleteRuns
CONSTRAINT ShortThirdRun
CHECK_DEADLOCK FALSE
