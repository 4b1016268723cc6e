CONSTANTS
    a1 = a1
    a2 = a2
    a3 = a3
    EpochLength = 1
    MaxEpochs = 2
    W = 2
    Blocks = {0, 1, 2}
    PyCacheNodes = {1}
    Addresses = {a1, a2, a3}
    AllocFails = FALSE
    Callers = {"C"}
SPECIFICATION Spec
INVARIANTS
    TypeOK
    HeapOwned
    SeedIterations
