SPECIFICATION Spec
CONSTANTS
    o1 = o1
    o2 = o2
    r1 = r1
    NoOp = NoOp
    Ops <- MCOps
    Rows <- MCRows
    RootRows <- MCRows
    BareRows = {}
    Expiry = 2
    Lag = 1
    Skew = 0
    MaxTime = 4
    PromptCalls <- UnlockCalls
SYMMETRY Symmetry
INVARIANTS
    MutualExclusion
