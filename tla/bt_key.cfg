SPECIFICATION Spec
CONSTANTS
    o1 = o1
    o2 = o2
    r1 = r1
    NoOp = NoOp
    Ops <- MCOps
    Rows <- MCRows
    RootRows = {}
    BareRows <- MCRows
    Expiry = 2
    Lag = 1
    Skew = 1
    MaxTime = 4
    PromptCalls <- AllPrompt
SYMMETRY Symmetry
INVARIANTS
    HolderFindsLock
PROPERTIES
    IndefiniteBlocks
    OnlyOwnerUnlocks
    ImplementsLease
