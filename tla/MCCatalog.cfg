SPECIFICATION FairSpec
CONSTANTS
    t1 = t1
    t2 = t2
    nobody = nobody
    Threads <- MCThreads
    NoThread = nobody
    Names <- MCNames
    ServerTables <- MCTables
    Rejects = TRUE
    MaxOps = 2
INVARIANTS
    TypeOK
    CatalogInv
    NeverDangling
    ProbesSerial
    EagerComplete
    ScanComplete
PROPERTIES
    CacheWriteOnce
    CallsReturn
    ImplementsCache
