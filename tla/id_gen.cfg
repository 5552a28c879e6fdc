SPECIFICATION Spec
CONSTANTS
    c1 = c1
    c2 = c2
    chunk1 = chunk1
    Clients <- MCClients
    Chunks = {chunk1}
    OperationLogs = OperationLogs
    NCounters = 2
    Sizes = {0, 1, 2}
    MaxCounter = 2
SYMMETRY Symmetry
INVARIANTS
    TypeOK
    UniqueIds
    MaxCoversIssued
    IdsIncrease
