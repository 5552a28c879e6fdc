SPECIFICATION Spec
CONSTANTS
    o1 = o1
    o2 = o2
    r1 = r1
    r2 = r2
    NoOp = NoOp
    Ops <- MCOps
    Roots <- MCRoots
    RootSets <- MCAllRoots
    FutureMaps <- MCUnreplaced
    MaxTries = 1
    Methods = {"lock_roots", "lock_roots_indefinitely", "write"}
SYMMETRY Symmetry
INVARIANTS
    TypeOK
    HeldIsOwned
    AllOrNothing
    NothingLeftBehind
