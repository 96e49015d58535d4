SPECIFICATION FairSpec
CONSTANTS
    MaxRuns = 2
    MaxDay = 2
    t1 = t1
    Retriers = {t1}
    RetryAlone = TRUE
INVARIANTS
    CleanPassDrains
    FinishedMeansPublished
    PendingIsNewest
PROPERTIES
    ApprovedSettles
    NoStaleOverwrite
    RegisterSpec
