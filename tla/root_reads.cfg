SPECIFICATION Spec
CONSTANTS
    a = a
    b = b
    m1 = m1
    m2 = m2
    r1 = r1
    r2 = r2
    r3 = r3
    NoNode = NoNode
    Nodes <- MCNodes
    Edits <- MCEdits
    Initial <- MCInitial
    Layer <- MCLayer
    Queries <- MCQueries
    Readers = {d1}
    Ranges <- MCRanges
    LayerCount = 3
    TimeStamps = {3}
    StopLayers = {2, 3}
    MaxRowKeys = 1
    BlockSize = 1
    MaxAttempts = 2
    MaxLate = 1
    MaxTime = 4
INVARIANTS
    ReadTypeOK
    StoredAsReturned
    VastWritesWhole
    ReadAsOf
    RootsAsOf
    LatestAsOf
    RootIsLatest
PROPERTIES
    ImplementsAtomic
