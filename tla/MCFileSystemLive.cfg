SPECIFICATION FairSpec
CONSTANTS
    Threads = {t1, t2, t3}
    NoThread = NoThread
    a = a
    b = b
    Names <- MCNames
    Paths <- OnePath
    NInodes = 3
    NBlocks = 4
    NFiles = 2
    Direct = 1
    MaxIndex = 1
    Slots = 3
    MaxLinks = 3
    Kinds = {"create", "unlink", "stat", "write", "fsync"}
    WritersFirst = TRUE
    IoErrors = TRUE
    MaxCalls = 4
CHECK_DEADLOCK FALSE
INVARIANTS
    CacheCoherent
    EntriesCounted
PROPERTY
    CallsReturn
