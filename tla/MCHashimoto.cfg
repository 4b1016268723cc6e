CONSTANTS
    W = 8
    NodeWords = 2
    MixNodes = 2
    HashWords = 2
    Accesses = 3
    Parents = 3
    CacheRounds = 3
    Epochs = {0, 1}
    CacheSize <- MCCacheSize
    DataPages <- MCDataPages
    Headers <- MCHeaders
    Nonces = {0, 1}
    WordXor <- MCXor

SPECIFICATION Spec

INVARIANTS
    LightFullAgree
    QuickAgrees
