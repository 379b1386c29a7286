CHECK_DEADLOCK FALSE
SPECIFICATION Spec
CONSTANTS
    BLOCK_SIZE = 2
    WORD_BITS = 2
    WORDS_PER_BLOCK = 2
    INODES_PER_BLOCK = 5
    DIRENTS_PER_BLOCK = 2
    DIRECT_PTRS = 2
    PTRS_PER_BLOCK = 2
    BLOCKS_PER_INODE = 4
    UINT32_MAX = 31
    Total = 16
    sb <- MCsb
    Names = {3, 4, 5}
    Descriptors = {1, 2}
    WRITE_CHUNK_BLOCKS = 2
    Lengths = {1, 8}
    Seeks <- MCSeeks
    MaxOffset = 16
    MaxCalls = 5
INVARIANTS
    Inv
    ReadsWhatWasWritten
    EveryBlockOwnedOnce
    OperationBounded
