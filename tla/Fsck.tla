-------------------------------- MODULE Fsck --------------------------------
(***************************************************************************)
(* The checker (src/fsck.cpp): one pass over an image, with the tables it  *)
(* fills in as fields of a record, and next to it the rules that layout.h  *)
(* states of a consistent image.                                           *)
(***************************************************************************)
EXTENDS Layout

CONSTANT DIR_MAP_BLOCKS     \* how many blocks of a directory are looked up: 2^20

ASSUME DirMapAssumption == DIR_MAP_BLOCKS \in Nat

\* Names a directory may not hold past its first two slots: of no or too many
\* bytes, with a '/', "." and "..".
BadNames == {"", "too long", "a/b", ".", ".."}

Upto(n) == [i \in 1..n |-> i]

-----------------------------------------------------------------------------
(* The Checker *)

problem(c) == [c EXCEPT !.ok = FALSE]
Expect(c, good) == IF good THEN c ELSE problem(c)

read_pointers(c, b) == AsPtrs(c.disk[b])

check_superblock(disk) ==
    /\ validate_superblock(AsSuper(disk[0]), Cardinality(DOMAIN disk))
    /\ disk[0].rest = 0

\* A Checker that has seen nothing yet.
Checker(disk, sb) ==
    LET ids == 0..(sb.inode_count - 1)
        zeros == [id \in ids |-> 0]
    IN  [ok |-> TRUE, disk |-> disk, sb |-> sb,
         inode_bm |-> load(WordsAt(disk, sb.inode_bitmap_start, sb.inode_count), sb.inode_count),
         block_bm |-> load(WordsAt(disk, sb.data_bitmap_start, sb.total_blocks), sb.total_blocks),
         inodes |-> [id \in ids |-> ZeroInode],
         kind |-> [id \in ids |-> "none"],
         owner |-> [b \in 0..(sb.total_blocks - 1) |-> 0],
         dir_blocks |-> [id \in ids |-> {}],
         refs |-> zeros, names |-> zeros, reachable |-> {},
         owned |-> 0, end |-> 0, seen |-> {}, stack |-> <<>>]

load_inodes(c) ==
    [c EXCEPT !.inodes = [id \in DOMAIN @ |->
                            AsInodes(c.disk[inode_block(c.sb, id)])[inode_offset(id)]]]

Claimable(c, b) == b >= c.sb.data_start /\ b < c.sb.total_blocks /\ c.owner[b] = 0

\* Mutant: a block that another inode owns is not noticed.
claim_shared(c, id, b) ==
    IF b >= c.sb.data_start /\ b < c.sb.total_blocks /\ c.owner[b] # id
    THEN [c EXCEPT !.owner[b] = id] ELSE problem(c)

claim(c, id, b) == IF Claimable(c, b) THEN [c EXCEPT !.owner[b] = id] ELSE problem(c)

\* check_blocks' data(): file block `index` of inode id is block b, if not a hole.
\* A directory's blocks from DIR_MAP_BLOCKS on are claimed, but not kept.
data(c, id, index, b) ==
    IF b = 0 THEN c
    ELSE [claim(c, id, b) EXCEPT
            !.owned = @ + 1,
            !.end = Max({@, index + 1}),
            !.dir_blocks[id] = IF c.kind[id] = "dir" /\ Claimable(c, b) /\ index < DIR_MAP_BLOCKS
                               THEN @ \cup {<<index, b>>} ELSE @]

data_all(c, id, first, ptrs) ==
    FoldLeft(LAMBDA d, i : data(d, id, first + i - 1, ptrs[i]), c, Upto(Len(ptrs)))

\* An indirect block: read only once it is claimed.
indirect(c, id, b, Read(_)) ==
    LET d == [claim(c, id, b) EXCEPT !.owned = @ + 1]
    IN  IF b = 0 THEN c ELSE IF Claimable(c, b) THEN Read(d) ELSE d

check_blocks(c0, id) ==
    LET ino == c0.inodes[id]
        second(c, j, b) ==
            indirect(c, id, b, LAMBDA d :
                data_all(d, id, DIRECT_PTRS + PTRS_PER_BLOCK + (j - 1) * PTRS_PER_BLOCK,
                         read_pointers(d, b)))
        c1 == data_all([c0 EXCEPT !.owned = 0, !.end = 0], id, 0, ino.direct)
        c2 == indirect(c1, id, ino.single_indirect, LAMBDA d :
                data_all(d, id, DIRECT_PTRS, read_pointers(d, ino.single_indirect)))
        c3 == indirect(c2, id, ino.double_indirect, LAMBDA d :
                LET top == read_pointers(d, ino.double_indirect)
                IN  FoldLeft(LAMBDA e, j : second(e, j, top[j]), d, Upto(PTRS_PER_BLOCK)))
        c4 == Expect(c3, c3.owned = ino.block_count /\ ino.size <= MAX_FILE_BLOCKS * BLOCK_SIZE)
        nblocks == ino.size \div BLOCK_SIZE
    IN  IF c0.kind[id] # "dir"
        THEN Expect(c4, c4.end <= CeilDiv(ino.size, BLOCK_SIZE))
        ELSE [Expect(c4, /\ ino.size % BLOCK_SIZE = 0 /\ nblocks > 0 /\ c4.end <= nblocks
                         /\ \A i \in 0..(nblocks - 1) : \E p \in c4.dir_blocks[id] : p[1] = i)
              EXCEPT !.dir_blocks[id] = {p \in @ : p[1] < nblocks}]

check_inode(c, id) ==
    LET ino == c.inodes[id]
        marked == is_set(c.inode_bm, id)
        kind == IF ino.mode \in {"file", "dir"} THEN ino.mode ELSE "bad"
    IN  IF id = 0 THEN Expect(c, marked /\ ino = ZeroInode)
        ELSE IF ~marked THEN Expect(c, ino = ZeroInode)
        ELSE check_blocks([Expect(c, ino.id = id /\ kind # "bad" /\ ino.link_count # 0)
                           EXCEPT !.kind[id] = kind], id)

check_inodes(c) ==
    LET d == FoldLeft(LAMBDA e, i : check_inode(e, i - 1), c, Upto(c.sb.inode_count))
    IN  Expect(d, c.sb.inode_count > ROOT_INODE /\ d.kind[ROOT_INODE] = "dir")

check_dot(c, e, want_name, want_id) ==
    Expect(c, e.name = want_name /\ e.type = "dir" /\ e.inode_id = want_id)

\* An entry past the first two that is not free.
check_entry(c, dir, e) ==
    LET x == e.inode_id
        d == [Expect(c, e.name \notin BadNames /\ e.name \notin c.seen) EXCEPT !.seen = @ \cup {e.name}]
        r == [d EXCEPT !.refs[x] = @ + 1]
        n == [r EXCEPT !.names[x] = @ + 1]
    IN  CASE x >= c.sb.inode_count -> problem(d)
          [] x < c.sb.inode_count /\ c.kind[x] = "none" -> problem(r)
          [] x < c.sb.inode_count /\ c.kind[x] = "bad" -> [n EXCEPT !.reachable = @ \cup {x}]
          [] OTHER ->
                LET t == Expect(n, e.type = c.kind[x])
                IN  IF n.names[x] > 1 \/ x = ROOT_INODE THEN t
                    ELSE [t EXCEPT !.reachable = @ \cup {x},
                                   !.stack = IF c.kind[x] = "dir" THEN @ \o <<<<x, dir>>>> ELSE @]

check_slot(c, dir, parent, slot, e) ==
    LET dot == IF slot = 0 THEN check_dot(c, e, ".", dir) ELSE check_dot(c, e, "..", parent)
    IN  CASE slot < 2 /\ e.inode_id \in 1..(c.sb.inode_count - 1) ->
                [dot EXCEPT !.refs[e.inode_id] = @ + 1]
          [] slot < 2 /\ e.inode_id \notin 1..(c.sb.inode_count - 1) -> dot
          [] slot >= 2 /\ e.inode_id = 0 -> Expect(c, e = ZeroEntry)
          [] OTHER -> check_entry(c, dir, e)

check_directory(c, dir, parent) ==
    LET blocks == SortSeq(SetToSeq(c.dir_blocks[dir]), LAMBDA p, q : p[1] < q[1])
        block(d, p) ==
            FoldLeft(LAMBDA f, s : check_slot(f, dir, parent, p[1] * DIRENTS_PER_BLOCK + s - 1,
                                              AsEntries(c.disk[p[2]])[s]),
                     d, Upto(DIRENTS_PER_BLOCK))
    IN  FoldLeft(block, [c EXCEPT !.seen = {}], blocks)

\* No directory is pushed twice, so this many turns empty the stack.
walk_stack(c) ==
    FoldLeft(LAMBDA d, turn : IF d.stack = <<>> THEN d
                              ELSE check_directory([d EXCEPT !.stack = Front(@)],
                                                   Last(d.stack)[1], Last(d.stack)[2]),
             c, Upto(c.sb.inode_count))

walk_tree(c) ==
    IF c.kind[ROOT_INODE] # "dir" THEN c
    ELSE walk_stack([c EXCEPT !.stack = <<<<ROOT_INODE, ROOT_INODE>>>>, !.reachable = {ROOT_INODE}])

check_links(c) ==
    Expect(c, \A id \in 1..(c.sb.inode_count - 1) :
        c.kind[id] # "none" =>
            /\ IF id = ROOT_INODE THEN c.names[id] = 0 ELSE id \in c.reachable /\ c.names[id] <= 1
            /\ c.kind[id] # "bad" => c.inodes[id].link_count = c.refs[id])

check_data_bitmap(c) ==
    Expect(c, \A b \in 0..(c.sb.total_blocks - 1) :
        is_set(c.block_bm, b) <=> (b < c.sb.data_start \/ c.owner[b] # 0))

\* report.ok()
fsck(disk) ==
    /\ check_superblock(disk)
    /\ check_data_bitmap(check_links(walk_tree(check_inodes(load_inodes(Checker(disk, AsSuper(disk[0]))))))).ok

-----------------------------------------------------------------------------
(* "What a consistent image looks like" (layout.h) *)

Bit(disk, start, i) ==
    i % WORD_BITS \in AsBits(disk[start + i \div BITS_PER_BLOCK])[(i % BITS_PER_BLOCK) \div WORD_BITS]
InodeOn(disk, sb, id) == AsInodes(disk[inode_block(sb, id)])[inode_offset(id)]
Region(sb) == sb.data_start..(sb.total_blocks - 1)

\* The pointers of an indirect block, if it can be one.
PtrsOn(disk, sb, b) ==
    IF b \in Region(sb) THEN AsPtrs(disk[b]) ELSE [j \in 1..PTRS_PER_BLOCK |-> 0]

\* Every pointer of an inode that is not zero: where it is, and the block it names.
Owns(disk, sb, ino) ==
    LET top == PtrsOn(disk, sb, ino.double_indirect) IN
    {p \in {<<"data", i - 1, ino.direct[i]>> : i \in 1..DIRECT_PTRS}
           \cup {<<"single", 0, ino.single_indirect>>, <<"double", 0, ino.double_indirect>>}
           \cup {<<"data", DIRECT_PTRS + j - 1, PtrsOn(disk, sb, ino.single_indirect)[j]>>
                    : j \in 1..PTRS_PER_BLOCK}
           \cup {<<"second", j, top[j]>> : j \in 1..PTRS_PER_BLOCK}
           \cup {<<"data", DIRECT_PTRS + j * PTRS_PER_BLOCK + k - 1, PtrsOn(disk, sb, top[j])[k]>>
                    : j, k \in 1..PTRS_PER_BLOCK}
        : p[3] # 0}
InFile(owns) == {p[2] : p \in {q \in owns : q[1] = "data"}}

\* The entries in the blocks of directory id.
EntriesOn(disk, sb, id, owns) ==
    UNION {{[dir |-> id, slot |-> p[2] * DIRENTS_PER_BLOCK + s - 1, e |-> AsEntries(disk[p[3]])[s]]
                : s \in 1..DIRENTS_PER_BLOCK}
           : p \in {q \in owns : q[1] = "data" /\ q[3] \in Region(sb)}}
Real(entries) == {n \in entries : n.slot >= 2 /\ n.e.inode_id # 0}

InodeRules(used, inodes, owns) ==
    /\ \A id \in DOMAIN inodes \ used : inodes[id] = ZeroInode
    /\ \A id \in used :
         /\ inodes[id].id = id /\ inodes[id].mode \in {"file", "dir"} /\ inodes[id].link_count >= 1
         /\ inodes[id].block_count = Cardinality(owns[id])
         /\ inodes[id].size <= MAX_FILE_BLOCKS * BLOCK_SIZE
         /\ \A i \in InFile(owns[id]) : i < CeilDiv(inodes[id].size, BLOCK_SIZE)
         /\ inodes[id].mode = "dir" =>
              /\ inodes[id].size > 0 /\ inodes[id].size % BLOCK_SIZE = 0
              /\ InFile(owns[id]) = 0..(inodes[id].size \div BLOCK_SIZE - 1)

\* Every block belongs to one pointer, or is free.
BlockRules(disk, sb, used, owns) ==
    /\ \A id \in used : \A p \in owns[id] :
         /\ p[3] \in Region(sb)
         /\ \A x \in used : \A q \in owns[x] : q[3] = p[3] => x = id /\ q = p
    /\ \A b \in 0..(sb.total_blocks - 1) :
         Bit(disk, sb.data_bitmap_start, b)
            <=> b < sb.data_start \/ \E id \in used : \E p \in owns[id] : p[3] = b

\* What a directory's slots hold.
EntryRules(used, inodes, entries) ==
    /\ \A id \in used : inodes[id].mode = "dir" =>
         /\ \E n \in entries : n.dir = id /\ n.slot = 0
                /\ n.e = [inode_id |-> id, name |-> ".", type |-> "dir"]
         /\ \E n \in entries : n.dir = id /\ n.slot = 1 /\ n.e.name = ".." /\ n.e.type = "dir"
                /\ IF id = ROOT_INODE THEN n.e.inode_id = ROOT_INODE
                   ELSE \E m \in Real(entries) : m.dir = n.e.inode_id /\ m.e.inode_id = id
    /\ \A n \in entries : n.e.inode_id = 0 => n.slot >= 2 /\ n.e = ZeroEntry
    /\ \A n \in Real(entries) :
         /\ n.e.inode_id \in used /\ n.e.type = inodes[n.e.inode_id].mode
         /\ n.e.name \notin BadNames
         /\ \A m \in Real(entries) : m.dir = n.dir /\ m.e.name = n.e.name => m = n

\* Everything is found from the root, by one name, and its links are counted.
TreeRules(used, inodes, entries) ==
    LET real == Real(entries) IN
    /\ ROOT_INODE \in used /\ inodes[ROOT_INODE].mode = "dir"
    /\ \A s \in SUBSET used :
         (ROOT_INODE \in s /\ \A n \in real : n.dir \in s /\ n.e.inode_id \in used => n.e.inode_id \in s)
            => s = used
    /\ \A x \in used :
         /\ inodes[x].link_count = Cardinality({n \in entries : n.e.inode_id = x})
         /\ Cardinality({n \in real : n.e.inode_id = x}) = (IF x = ROOT_INODE THEN 0 ELSE 1)

Consistent(disk) ==
    /\ validate_superblock(AsSuper(disk[0]), Cardinality(DOMAIN disk)) /\ disk[0].rest = 0
    /\ LET sb == AsSuper(disk[0])
           inodes == [id \in 0..(sb.inode_count - 1) |-> InodeOn(disk, sb, id)]
           used == {id \in 1..(sb.inode_count - 1) : Bit(disk, sb.inode_bitmap_start, id)}
           owns == [id \in used |-> Owns(disk, sb, inodes[id])]
           entries == UNION {EntriesOn(disk, sb, id, owns[id])
                             : id \in {x \in used : inodes[x].mode = "dir"}}
       IN  /\ Bit(disk, sb.inode_bitmap_start, 0)
           /\ InodeRules(used, inodes, owns) /\ BlockRules(disk, sb, used, owns)
           /\ EntryRules(used, inodes, entries) /\ TreeRules(used, inodes, entries)

\* No directory in use has more blocks than fsck looks up.
DirectoriesLookedUp(disk) ==
    LET sb == AsSuper(disk[0]) IN
    \A id \in 1..(sb.inode_count - 1) :
        Bit(disk, sb.inode_bitmap_start, id) /\ InodeOn(disk, sb, id).mode = "dir" =>
            InodeOn(disk, sb, id).size <= DIR_MAP_BLOCKS * BLOCK_SIZE
=============================================================================
