SPECIFICATION Spec
CONSTANTS
    a = a
    b = b
    c = c
    unknown = unknown
    Ids = {a, b, c}
    Citations <- AtMostTwo
    MaxSources = 3
    MaxClaims = 1
    HeldLimit = 2
    ItemLimit = 2
INVARIANTS
    TypeOK
    ClaimsSupported
    HeldForReview
    ResultHonest
    ObedientAccepted
SYMMETRY Symmetry
CHECK_DEADLOCK FALSE
