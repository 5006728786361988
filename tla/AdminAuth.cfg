SPECIFICATION FairSpec
CONSTANTS
    p1 = p1  p2 = p2  b1 = b1  b2 = b2  alice = alice  bob = bob
    Null = Null
    Users <- MCUsers
    Admins <- MCAdmins
    Procs <- MCProcs
    Browsers <- OneBrowser
    Modes <- BothModes
    TTL = 1  MaxClock = 2  MaxSids = 2  MaxLogins = 1
INVARIANTS TypeOK SessionsAreEarned
PROPERTIES AdmittedInTime SessionEndsForCause LogoutLands
