CONSTANTS
    a1 = a1
    a2 = a2
    a3 = a3
    EpochLength = 1
    MaxEpochs = 2
    W = 2
    Addresses = {a1, a2, a3}
    Blocks = {0, 2}
    PyCacheNodes = {1}
    AllocFails = FALSE
    Callers = {"C"}
SPECIFICATION LiveSpec
INVARIANT NoFault
