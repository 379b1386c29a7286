------------------------------- MODULE Layout -------------------------------
(***************************************************************************)
(* The bytes on the disk: the plan of the regions (src/superblock.cpp),    *)
(* the bitmaps (src/bitmap.cpp) in words and blocks, and the structures    *)
(* of include/vfs/layout.h. A block is a record tagged with what was       *)
(* written there; a reader decodes it as what it expects to find.          *)
(***************************************************************************)
EXTENDS Integers, FiniteSets, FiniteSetsExt, Sequences, SequencesExt

CONSTANTS
    BLOCK_SIZE, WORD_BITS, WORDS_PER_BLOCK, INODES_PER_BLOCK, DIRENTS_PER_BLOCK,
    DIRECT_PTRS, PTRS_PER_BLOCK, BLOCKS_PER_INODE, UINT32_MAX

ASSUME LayoutAssumption ==
    /\ \A c \in {BLOCK_SIZE, WORD_BITS, WORDS_PER_BLOCK, DIRECT_PTRS, PTRS_PER_BLOCK,
                 BLOCKS_PER_INODE, UINT32_MAX} : c \in Nat \ {0}
    /\ {INODES_PER_BLOCK, DIRENTS_PER_BLOCK} \subseteq Nat \ {0, 1}

BITS_PER_BLOCK == WORD_BITS * WORDS_PER_BLOCK
MAX_FILE_BLOCKS == DIRECT_PTRS + PTRS_PER_BLOCK + PTRS_PER_BLOCK * PTRS_PER_BLOCK
MAGIC == 31
ROOT_INODE == 1

CeilDiv(a, b) == (a + b - 1) \div b

-----------------------------------------------------------------------------
(* Bitmaps: words_ is a function from word numbers to the bits set in them *)

Bits == 0..(WORD_BITS - 1)
NoBit == -1

\* Mutant: a last block that is not full is left out.
blocks_for_floor(nbits) == nbits \div BITS_PER_BLOCK

blocks_for(nbits) == CeilDiv(nbits, BITS_PER_BLOCK)
Words(nbits) == 0..(blocks_for(nbits) * WORDS_PER_BLOCK - 1)
EmptyBitmap(nbits) == [w \in Words(nbits) |-> {}]

is_set(words, i) == i % WORD_BITS \in words[i \div WORD_BITS]
set(words, i) == [words EXCEPT ![i \div WORD_BITS] = @ \cup {i % WORD_BITS}]
clear(words, i) == [words EXCEPT ![i \div WORD_BITS] = @ \ {i % WORD_BITS}]
\* A bitmap in which the bits of a set are set.
Marked(nbits, bits) == [w \in Words(nbits) |-> {b \in Bits : w * WORD_BITS + b \in bits}]

\* Mutant: a full bitmap answers with a bit past its end.
find_first_free_past(words, nbits) ==
    LET open == {w \in DOMAIN words : words[w] # Bits}
    IN  IF open = {} THEN NoBit ELSE Min(open) * WORD_BITS + Min(Bits \ words[Min(open)])

\* The lowest clear bit of the first word that is not full.
find_first_free(words, nbits) ==
    LET open == {w \in DOMAIN words : words[w] # Bits}
        i == Min(open) * WORD_BITS + Min(Bits \ words[Min(open)])
    IN  IF open = {} \/ i >= nbits THEN NoBit ELSE i

\* find_first_free answers the lowest clear bit, and none exactly when every
\* bit of the map is set, whatever the words past its end hold.
FirstFreeExact(map, nbits) ==
    LET free == {b \in 0..(nbits - 1) : ~is_set(map, b)}
    IN  find_first_free(map, nbits) = (IF free = {} THEN NoBit ELSE Min(free))

\* load() of the words that the disk holds: the bits past the end are dropped.
load(words, nbits) ==
    LET last == nbits \div WORD_BITS
    IN  [w \in Words(nbits) |->
            CASE w < last -> words[w]
              [] w = last -> {b \in words[w] : b < nbits % WORD_BITS}
              [] w > last -> {}]

-----------------------------------------------------------------------------
(* The superblock *)

Refused == [magic |-> 0]

plan_layout(total_blocks, inode_count) ==
    LET asked == IF inode_count # 0 THEN inode_count ELSE total_blocks \div BLOCKS_PER_INODE
        inodes == Max({CeilDiv(asked, INODES_PER_BLOCK) * INODES_PER_BLOCK, INODES_PER_BLOCK})
        data_bitmap_start == 1 + blocks_for(inodes)
        inode_table_start == data_bitmap_start + blocks_for(total_blocks)
        data_start == inode_table_start + inodes \div INODES_PER_BLOCK
    IN  IF inodes > UINT32_MAX \/ data_start >= total_blocks THEN Refused
        ELSE [magic |-> MAGIC, block_size |-> BLOCK_SIZE, total_blocks |-> total_blocks,
              inode_count |-> inodes, inode_bitmap_start |-> 1,
              data_bitmap_start |-> data_bitmap_start, inode_table_start |-> inode_table_start,
              data_start |-> data_start, root_inode |-> ROOT_INODE, clean_unmount |-> 1,
              last_checkpoint_lsn |-> 0]

LayoutFields == {"inode_count", "inode_bitmap_start", "data_bitmap_start", "inode_table_start",
                 "data_start"}

\* validate_superblock: no error.
validate_superblock(sb, device_blocks) ==
    /\ sb.magic = MAGIC
    /\ sb.block_size = BLOCK_SIZE
    /\ sb.total_blocks = device_blocks
    /\ sb.root_inode = ROOT_INODE
    /\ LET want == plan_layout(sb.total_blocks, sb.inode_count)
       IN  want # Refused /\ \A f \in LayoutFields : sb[f] = want[f]

inode_block(sb, id) == sb.inode_table_start + id \div INODES_PER_BLOCK
inode_offset(id) == id % INODES_PER_BLOCK

-----------------------------------------------------------------------------
(* What a block may hold, and how it is decoded *)

ZeroInode == [id |-> 0, mode |-> "none", link_count |-> 0, size |-> 0, block_count |-> 0,
              direct |-> [i \in 1..DIRECT_PTRS |-> 0], single_indirect |-> 0,
              double_indirect |-> 0, other |-> 0]
ZeroEntry == [inode_id |-> 0, name |-> "", type |-> "none"]

ZeroBlock == [holds |-> "zeros"]
SuperBlock(sb, rest) == [holds |-> "super", sb |-> sb, rest |-> rest]
BitsBlock(words) == [holds |-> "bits", words |-> words]
InodeBlock(inodes) == [holds |-> "inodes", inodes |-> inodes]
DirBlock(entries) == [holds |-> "entries", entries |-> entries]
PtrBlock(ptrs) == [holds |-> "ptrs", ptrs |-> ptrs]
DataBlock == [holds |-> "data"]

\* Bytes of another kind decode to something: here to numbers out of range.
Garbage == UINT32_MAX

AsSuper(c) == IF c.holds = "super" THEN c.sb ELSE Refused
AsBits(c) == IF c.holds = "bits" THEN c.words
             ELSE [w \in 0..(WORDS_PER_BLOCK - 1) |-> IF c = ZeroBlock THEN {} ELSE Bits]
AsInodes(c) == IF c.holds = "inodes" THEN c.inodes
               ELSE [i \in 0..(INODES_PER_BLOCK - 1) |->
                        IF c = ZeroBlock THEN ZeroInode ELSE [ZeroInode EXCEPT !.other = Garbage]]
AsEntries(c) == IF c.holds = "entries" THEN c.entries
                ELSE [i \in 1..DIRENTS_PER_BLOCK |->
                        IF c = ZeroBlock THEN ZeroEntry ELSE [ZeroEntry EXCEPT !.inode_id = Garbage]]
AsPtrs(c) == IF c.holds = "ptrs" THEN c.ptrs
             ELSE [i \in 1..PTRS_PER_BLOCK |-> IF c = ZeroBlock THEN 0 ELSE Garbage]

\* The words of a bitmap's blocks, put together.
WordsAt(disk, start, nbits) ==
    [w \in Words(nbits) |-> AsBits(disk[start + w \div WORDS_PER_BLOCK])[w % WORDS_PER_BLOCK]]

\* store(): the blocks of a bitmap.
block_words(words, k) == [w \in 0..(WORDS_PER_BLOCK - 1) |-> words[k * WORDS_PER_BLOCK + w]]
store(disk, start, words) ==
    [b \in DOMAIN disk |->
        IF b >= start /\ (b - start) * WORDS_PER_BLOCK \in DOMAIN words
        THEN BitsBlock(block_words(words, b - start))
        ELSE disk[b]]
=============================================================================
