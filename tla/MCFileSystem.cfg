SPECIFICATION Spec
CONSTANTS
    Threads = {t1, t2}
    NoThread = NoThread
    a = a
    b = b
    Names <- MCNames
    Paths <- MCPaths
    NInodes = 3
    NBlocks = 4
    NFiles = 2
    Direct = 1
    MaxIndex = 1
    Slots = 3
    MaxLinks = 3
    Kinds = {"open", "create", "create_new", "replace", "truncate", "mkdir", "unlink", "rmdir", "stat", "write", "append", "read", "close", "fsync"}
    WritersFirst = FALSE
    IoErrors = FALSE
    MaxCalls = 4
SYMMETRY Symmetry
INVARIANTS
    SafeInv
    ConsistentAtRest
    CacheCoherent
    OpenIsThere
    FoundIsThere
    EntriesCounted
