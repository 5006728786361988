SPECIFICATION Spec
CONSTANTS
    about = about  k1 = k1
    Null = Null
    Keys <- MCKeys
    Builtin = {about}
    Missable = {k1}
    Filters <- MCFilters
    ListLimit = 1
    MaxFlight = 2
INVARIANTS TypeOK CountFitsList DeletedStaysAway
CHECK_DEADLOCK FALSE
PROPERTY DeleteIsSettled
