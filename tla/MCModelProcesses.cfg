SPECIFICATION FairSpec
CONSTANTS
    run = run
    check = check
    Nobody = Nobody
    Commands = {run, check}
    Order <- OrderOfCommand
    Optional = {run}
    Hits <- HitsOfCommand
    MaxProbes = 1
INVARIANTS
    TypeOK
    OwnTag
    OneModelAtATime
    NothingLeft
    ServedByOwn
PROPERTIES
    CommandsEnd
CHECK_DEADLOCK FALSE
