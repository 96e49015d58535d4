SPECIFICATION Spec
CONSTANTS
    MaxRuns = 2
    MaxDay = 1
    t1 = t1
    Retriers = {t1}
    RetryAlone = FALSE
PROPERTIES
    NoStaleOverwrite
