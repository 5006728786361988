SPECIFICATION Spec
CONSTANTS
    k1 = k1  k2 = k2  k3 = k3  blank = blank  t1 = t1  t2 = t2
    Null = Null
    Root = Root
    Keys <- TwoKeys
    Texts <- MCTexts
    Blank = blank
    MaxHistory = 4
    MaxFlight = 2
SYMMETRY Symmetry
INVARIANT ShownIsStored
