CONSTANTS
    p1 = p1
    p2 = p2
    k1 = k1
    k2 = k2
    b1 = b1
    b2 = b2
    Null = Null
    Procs <- MCProcs
    Keys <- MCKeys
    Bodies <- MCBodies
    Expires <- MCExpires
    MaxClock = 2
    MaxId = 2
SPECIFICATION StoreSpec
SYMMETRY Symmetry
INVARIANTS
    TypeOK
    TableConsistent
    DeadlineWithinOneExpiry
PROPERTIES
    SlideFollowsRead
    TimelessStaysTimeless
    LeavesForCause
    ImplementsBoard
