------------------------------- MODULE MCMkfs -------------------------------
(***************************************************************************)
(* Mkfs for TLC: blank devices of several sizes, an image with a directory *)
(* and a file that uses every kind of pointer and has holes, and images    *)
(* whose root is as long as fsck looks up, and one block longer.           *)
(***************************************************************************)
EXTENDS Mkfs

CONSTANTS Sizes

Total == 15
sb4 == plan_layout(Total, 4)

Entries(rest) == [i \in 1..DIRENTS_PER_BLOCK |-> IF i <= Len(rest) THEN rest[i] ELSE ZeroEntry]

Table ==
    [id \in 0..3 |->
        CASE id = 0 -> ZeroInode
          [] id = 1 -> [ZeroInode EXCEPT !.id = 1, !.mode = "dir", !.link_count = 3, !.size = BLOCK_SIZE,
                                         !.block_count = 1, !.direct = <<6>>]
          [] id = 2 -> [ZeroInode EXCEPT !.id = 2, !.mode = "dir", !.link_count = 2, !.size = BLOCK_SIZE,
                                         !.block_count = 1, !.direct = <<7>>]
          [] id = 3 -> [ZeroInode EXCEPT !.id = 3, !.mode = "file", !.link_count = 1,
                                         !.size = 5 * BLOCK_SIZE - 1, !.block_count = 6, !.direct = <<8>>,
                                         !.single_indirect = 9, !.double_indirect = 11]]

OldImage ==
    LET blocks == Marked(Total, 0..13)
        inodes == Marked(4, 0..3)
        bare == [b \in 0..(Total - 1) |->
                    CASE b = 0 -> SuperBlock([sb4 EXCEPT !.clean_unmount = 0], 0)
                      [] b \in {4, 5} -> InodeBlock([i \in 0..1 |-> Table[(b - 4) * 2 + i]])
                      [] b = 6 -> DirBlock(Entries(<<make_entry(".", 1, "dir"), make_entry("..", 1, "dir"),
                                                     make_entry("d", 2, "dir")>>))
                      [] b = 7 -> DirBlock(Entries(<<make_entry(".", 2, "dir"), make_entry("..", 1, "dir"),
                                                     make_entry("f", 3, "file")>>))
                      [] b = 9 -> PtrBlock(<<10, 0>>)
                      [] b = 11 -> PtrBlock(<<12, 0>>)
                      [] b = 12 -> PtrBlock(<<0, 13>>)
                      [] OTHER -> DataBlock]
    IN  store(store(bare, 1, inodes), 2, blocks)

\* A root of n blocks, 2 or 3, whose last one names an empty file.
DirTotal == 10
DirImage(n) ==
    LET root == [ZeroInode EXCEPT !.id = 1, !.mode = "dir", !.link_count = 2, !.size = n * BLOCK_SIZE,
                                  !.block_count = n + 1, !.direct = <<6>>, !.single_indirect = 7]
        file == [ZeroInode EXCEPT !.id = 2, !.mode = "file", !.link_count = 1]
        bare == [b \in 0..(DirTotal - 1) |->
                    CASE b = 0 -> SuperBlock(plan_layout(DirTotal, 4), 0)
                      [] b = 4 -> InodeBlock([i \in 0..1 |-> IF i = 1 THEN root ELSE ZeroInode])
                      [] b = 5 -> InodeBlock([i \in 0..1 |-> IF i = 0 THEN file ELSE ZeroInode])
                      [] b = 6 -> DirBlock(Entries(<<make_entry(".", 1, "dir"), make_entry("..", 1, "dir")>>))
                      [] b = 7 -> PtrBlock(<<8, IF n = 3 THEN 9 ELSE 0>>)
                      [] b = 6 + n -> DirBlock(Entries(<<make_entry("f", 2, "file")>>))
                      [] OTHER -> ZeroBlock]
    IN  store(store(bare, 1, Marked(4, 0..2)), 2, Marked(DirTotal, 0..(6 + n)))

MCImages == {OldImage, DirImage(2), DirImage(3)} \cup {create(n) : n \in Sizes}

\* Wrong values of the fields: near misses, and values that belong elsewhere.
Pointers == {0, 3, 7, 10, 14, 15}
Fields(r, f, values) == {[r EXCEPT ![f] = v] : v \in values \ {r[f]}}

BadInodes(i) ==
    Fields(i, "id", {0, 2}) \cup Fields(i, "mode", {"none", "file", "dir", "other"})
    \cup Fields(i, "link_count", {0, i.link_count + 1, 2})
    \cup Fields(i, "size", {0, BLOCK_SIZE, i.size + 1, i.size + BLOCK_SIZE,
                            MAX_FILE_BLOCKS * BLOCK_SIZE + 1})
    \cup Fields(i, "block_count", {0, 1, i.block_count + 1})
    \cup Fields(i, "direct", {<<p>> : p \in Pointers})
    \cup Fields(i, "single_indirect", Pointers) \cup Fields(i, "double_indirect", Pointers)
    \cup ({ZeroInode} \ {i})
BadEntries(e) ==
    Fields(e, "inode_id", {0, 1, 2, 3, 4}) \cup Fields(e, "name", {"", ".", "d", "a/b", "g"})
    \cup Fields(e, "type", {"file", "dir"}) \cup ({ZeroEntry, make_entry("g", 3, "file")} \ {e})

MCDamages(b, c) ==
    CASE c.holds = "super" -> {SuperBlock(s, 0) : s \in UNION {Fields(c.sb, f, {0, 2, c.sb[f] + 1}) : f \in DOMAIN c.sb}}
                              \cup {SuperBlock(c.sb, 1)}
      [] c.holds = "bits" -> {BitsBlock(IF is_set(c.words, i) THEN clear(c.words, i) ELSE set(c.words, i))
                                : i \in 0..(BITS_PER_BLOCK - 1)}
      [] c.holds = "inodes" -> UNION {{InodeBlock([c.inodes EXCEPT ![i] = x]) : x \in BadInodes(c.inodes[i])}
                                        : i \in DOMAIN c.inodes}
      [] c.holds = "entries" -> UNION {{DirBlock([c.entries EXCEPT ![i] = x]) : x \in BadEntries(c.entries[i])}
                                        : i \in DOMAIN c.entries}
      [] c.holds = "ptrs" -> UNION {{PtrBlock([c.ptrs EXCEPT ![i] = p]) : p \in Pointers \ {c.ptrs[i]}}
                                        : i \in DOMAIN c.ptrs}
      [] OTHER -> {}
=============================================================================
