CONSTANTS
    p1 = p1
    p2 = p2
    k1 = k1
    k2 = k2
    b1 = b1
    b2 = b2
    Null = Null
    Procs <- MCProcs
    Keys <- MCKeys
    Bodies <- MCBodies
    Chunks = 2
    Stamps = {0, 1}
    ListLimit = 1
    MaxFiles = 2
SPECIFICATION Spec
SYMMETRY Symmetry
INVARIANTS
    TypeOK
    OneAuthor
    AckedPasteWhole
    ListSurvivesDeletes
