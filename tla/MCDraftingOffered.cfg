SPECIFICATION Spec
CONSTANTS
    a = a
    b = b
    c = c
    unknown = unknown
    Ids = {a, b}
    Citations <- AtMostTwo
    MaxSources = 2
    MaxClaims = 1
    HeldLimit = 1
    ItemLimit = 2
INVARIANTS
    RoutedNotOffered
CHECK_DEADLOCK FALSE
