SPECIFICATION Spec
CONSTANTS
    p1 = p1  p2 = p2  b1 = b1  b2 = b2  alice = alice  bob = bob
    Null = Null
    Users <- MCAdmins
    Admins <- MCAdmins
    Procs <- MCProcs
    Browsers <- MCBrowsers
    Modes <- OidcOnly
    TTL = 1  MaxClock = 0  MaxSids = 2  MaxLogins = 2
SYMMETRY Symmetry
INVARIANTS SessionsAreEarned
