CONSTANTS
    p1 = p1
    p2 = p2
    i1 = i1
    i2 = i2
    Null = Null
    Procs <- MCProcs
    IPs <- MCIPs
    Sizes <- MCSizes
    MaxRequests = 1
    MaxBytes = 1
    Window = 2
    SweepAt = 2
    MaxStale = 1
    MaxClock = 5
SPECIFICATION Spec
SYMMETRY Symmetry
INVARIANTS
    TypeOK
    WithinBudget
    TwoWindowsAtMost
PROPERTIES
    NoEarlyForgiveness
    RefusalIsEarned
