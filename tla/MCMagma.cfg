SPECIFICATION Spec
CONSTANTS
    s1 = s1
    s2 = s2
    o1 = o1
    o2 = o2
    Sessions = {s1, s2}
    Offers = {o1, o2}
    NoOffer = NoOffer
    MaxStatus = 3
    MaxRestarts = 2
INVARIANTS
    TypeOK
    OrdersApproved
    PlacedIsKept
    ListingTrue
PROPERTIES
    PromiseSpec
SYMMETRY Symmetry
CHECK_DEADLOCK FALSE
