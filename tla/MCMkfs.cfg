CHECK_DEADLOCK FALSE
SPECIFICATION Spec
CONSTANTS
    BLOCK_SIZE = 2
    WORD_BITS = 2
    WORDS_PER_BLOCK = 4
    INODES_PER_BLOCK = 2
    DIRENTS_PER_BLOCK = 4
    DIRECT_PTRS = 1
    PTRS_PER_BLOCK = 2
    BLOCKS_PER_INODE = 4
    UINT32_MAX = 31
    DIR_MAP_BLOCKS = 2
    Sizes = {4, 5, 6, 8, 9}
    Images <- MCImages
    InodeCounts = {0, 3, 9, 31}
    Damages <- MCDamages
    MaxDamage = 2
    MaxCrash = 1
    MaxTorn = 1
INVARIANTS
    AllOrNothing
    FsckAgrees
    Inv
