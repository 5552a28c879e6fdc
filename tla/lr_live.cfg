SPECIFICATION FairSpec
CONSTANTS
    o1 = o1
    o2 = o2
    r1 = r1
    r2 = r2
    NoOp = NoOp
    Ops <- MCOps
    Roots <- MCRoots
    RootSets <- MCAllOrReplaced
    FutureMaps <- MCFutureMaps
    MaxTries = 2
    Methods = {"lock_roots"}
INVARIANTS
    NothingLeftBehind
PROPERTIES
    CallsReturn
