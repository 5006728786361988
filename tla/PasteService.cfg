CONSTANTS
    main = main
    h1 = h1
    h2 = h2
    k1 = k1
    k2 = k2
    about = about
    text = text
    b1 = b1
    Null = Null
    Main = main
    AboutKey = about
    AboutBody = text
    Procs <- TwoHandlers
    Keys <- MCKeys
    Drawn <- MCDrawn
    Bodies <- MCBodies
    Texts <- MCTexts
    Expires <- TwoTicks
    MaxClock = 2
    MaxId = 2
SPECIFICATION ServiceSpec
SYMMETRY Symmetry
INVARIANTS
    ServiceTypeOK
    AckedPasteStays
PROPERTIES
    OnlyVisitorsSlide
    StaticLeavesByAge
