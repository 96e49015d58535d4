SPECIFICATION FairSpec
CONSTANTS
    NumChannels = 3
    Capacity <- ThreeCapacities
    Reserve <- ThreeReserves
    Requests = {4999, 5000, 100000, 400000, 100000001}
    NoAmount = NoAmount
    MaxOperation = 100000000
    Balances = {27000, 50000, 900000}
    MaxTraffic = 1
INVARIANTS
    TypeOK
    PaymentsApproved
    OfferedBounded
    PaysOnce
    ReportHonest
PROPERTIES
    Terminates
CHECK_DEADLOCK FALSE
