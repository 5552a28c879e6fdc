SPECIFICATION Spec
CONSTANTS
    c1 = c1
    c2 = c2
    f1 = f1
    f2 = f2
    g1 = g1
    g2 = g2
    NoFamily = NoFamily
    NoValue = NoValue
    Clients <- MCClients
    Backends <- MCHBase
    DefaultFamilies <- MCDefaults
    MetaFamily = f1
    NewFamilies <- MCNew
    GivenFamilies <- MCGiven
    MaxCalls = 3
    MaxTime = 2
    MaxLate = 1
SYMMETRY Symmetry
INVARIANT
    NewFamilyKeepsOthers
