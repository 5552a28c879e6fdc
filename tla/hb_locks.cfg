SPECIFICATION Spec
CONSTANTS
    o1 = o1
    o2 = o2
    r1 = r1
    NoOp = NoOp
    Ops <- MCOps
    Rows <- MCRows
    Expiry = 1
    MaxTime = 3
SYMMETRY Symmetry
INVARIANTS
    TypeOK
    HolderKeepsCell
    IndefiniteExclusive
    UpgradeExclusive
