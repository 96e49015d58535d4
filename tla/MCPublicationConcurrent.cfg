SPECIFICATION Spec
CONSTANTS
    MaxRuns = 2
    MaxDay = 2
    t1 = t1
    Retriers = {t1}
    RetryAlone = FALSE
INVARIANTS
    TypeOK
    OnlyApprovedPublished
    PublishedWasConfirmed
    OneBaseline
    LocalFileCurrent
