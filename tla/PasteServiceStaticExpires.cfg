CONSTANTS
    main = main
    h1 = h1
    h2 = h2
    k1 = k1
    k2 = k2
    about = about
    text = text
    b1 = b1
    Null = Null
    Main = main
    AboutKey = about
    AboutBody = text
    Procs <- OneHandler
    Keys <- MCKeys
    Drawn <- MCDrawn
    Bodies <- MCBodies
    Texts <- MCTexts
    Expires <- OneExpiry
    MaxClock = 1
    MaxId = 3
SPECIFICATION ServiceSpec
INVARIANTS
    StaticAlwaysReachable
