CONSTANTS
    main = main
    h1 = h1
    h2 = h2
    k1 = k1
    k2 = k2
    about = about
    text = text
    b1 = b1
    Null = Null
    Main = main
    AboutKey = about
    AboutBody = text
    Procs <- TwoHandlers
    Keys <- MoreKeys
    Drawn <- MoreDrawn
    Bodies <- OneBody
    Texts <- OneBody
    Expires <- NoExpiry
    MaxClock = 0
    MaxId = 1
SPECIFICATION FairServiceSpec
PROPERTIES
    EveryRequestAnswered
    ShutdownEnds
