------------------------------ MODULE FileData ------------------------------
(***************************************************************************)
(* Where the bytes of files go: the block map (src/block_map.cpp) over the *)
(* allocator's bitmaps (src/alloc.cpp, src/bitmap.cpp), the slots of a     *)
(* directory (src/directory.cpp), and the calls that move bytes and        *)
(* offsets (src/vfs.cpp): open with O_CREAT, O_TRUNC and O_APPEND, lseek,  *)
(* read, write in chunks that other calls may come between, unlink, stat   *)
(* and readdir. There is one directory, the root, and it grows.            *)
(*                                                                         *)
(* A block is a sequence of cells: bytes to a file, pointers to the block  *)
(* map, entries to a directory, so a block reused without being cleared    *)
(* would be read as any of them.                                           *)
(* A call, or a chunk of a write, runs on a record of all it may change.   *)
(***************************************************************************)
EXTENDS Layout

CONSTANTS
    sb,                     \* the layout
    Names, Descriptors,
    WRITE_CHUNK_BLOCKS,
    Lengths, Seeks,         \* the sizes of reads and writes; the offsets of lseek
    MaxOffset, MaxCalls     \* bounds: of an offset, and of the calls made

ASSUME FileDataAssumption ==
    /\ BLOCK_SIZE = PTRS_PER_BLOCK /\ BLOCK_SIZE = DIRENTS_PER_BLOCK
    /\ 0 \notin Lengths
    /\ \A n \in Names : n \in Nat \ 0..2    \* 1 and 2 are "." and ".."
    /\ \A d \in Descriptors : d \in Nat \ {0}

VARIABLES
    cells,      \* the contents of the blocks
    words,      \* Allocator::blocks_
    ids,        \* Allocator::inodes_
    inode,      \* the inode table; not in use: ZeroInode
    fds,        \* the open files: inode 0 unless open
    writing,    \* a write under way: what is left, and where
    bytes,      \* the files there should be, by name, and what each should hold
    touched,    \* the blocks the last transaction wrote
    calls       \* how many calls were made

vars == <<cells, words, ids, inode, fds, writing, bytes, touched, calls>>

MAX_FILE_BYTES == MAX_FILE_BLOCKS * BLOCK_SIZE
Zeros == [i \in 1..BLOCK_SIZE |-> 0]
Upto(n) == [i \in 1..n |-> i]
Closed == [inode |-> 0, offset |-> 0, append |-> FALSE, name |-> 0]
Idle == [left |-> 0, done |-> 0, pos |-> 0]

\* A transaction as it runs, on inode f.
OpScope(f) == [cells |-> cells, words |-> words, ids |-> ids, ino |-> inode[f], touched |-> {},
               got |-> <<>>, fresh |-> FALSE, block |-> 0, err |-> "none"]
InodeTableBlock(f) == inode_block(sb, f)

\* F goes on with transaction t, unless an error was thrown.
Then(t, F(_)) == IF t.err = "none" THEN F(t) ELSE t

-----------------------------------------------------------------------------
(* The allocator *)

MapBlock(b) == sb.data_bitmap_start + b \div BITS_PER_BLOCK

alloc_block(t) ==
    LET b == find_first_free(t.words, sb.total_blocks)
    IN  CASE b = NoBit -> [t EXCEPT !.err = "ENOSPC"]
          [] b # NoBit /\ b < sb.data_start -> [t EXCEPT !.err = "EIO"]
          [] OTHER -> [t EXCEPT !.words = set(@, b), !.touched = @ \cup {MapBlock(b)},
                                !.got = Append(@, b)]

IdsBlock(id) == sb.inode_bitmap_start + id \div BITS_PER_BLOCK

alloc_inode(t) ==
    LET id == find_first_free(t.ids, sb.inode_count)
    IN  CASE id = NoBit -> [t EXCEPT !.err = "ENOSPC"]
          [] id = 0 -> [t EXCEPT !.err = "EIO"]
          [] OTHER -> [t EXCEPT !.ids = set(@, id), !.touched = @ \cup {IdsBlock(id)}, !.got = <<id>>]

free_inode(t, id) ==
    IF id \notin 1..(sb.inode_count - 1) \/ ~is_set(t.ids, id) THEN [t EXCEPT !.err = "EIO"]
    ELSE [t EXCEPT !.ids = clear(@, id), !.touched = @ \cup {IdsBlock(id)}]

\* All of them are checked before any is freed.
free_blocks(t, blocks) ==
    IF \/ Cardinality(ToSet(blocks)) < Len(blocks)
       \/ \E b \in ToSet(blocks) : b \notin sb.data_start..(sb.total_blocks - 1) \/ ~is_set(t.words, b)
    THEN [t EXCEPT !.err = "EIO"]
    ELSE [t EXCEPT !.words = FoldLeft(clear, @, blocks),
                   !.touched = @ \cup {MapBlock(b) : b \in ToSet(blocks)}]

\* Mutant: the blocks taken before the disk was full are kept.
alloc_all_kept(t, n) == FoldLeft(LAMBDA s, i : Then(s, alloc_block), [t EXCEPT !.got = <<>>], Upto(n))

\* n blocks or none.
AllOrNone(taken) == IF taken.err = "none" THEN taken ELSE free_blocks(taken, taken.got)
alloc_all(t, n) ==
    AllOrNone(FoldLeft(LAMBDA s, i : Then(s, alloc_block), [t EXCEPT !.got = <<>>], Upto(n)))

-----------------------------------------------------------------------------
(* The block map *)

get_ptr(c, block, i) == c[block][i + 1]

\* Mutant: a new indirect block starts from what the disk last held there.
set_ptr_stale(t, block, fresh, i, value) ==
    [t EXCEPT !.cells[block] = [@ EXCEPT ![i + 1] = value], !.touched = @ \cup {block}]

set_ptr(t, block, fresh, i, value) ==
    [t EXCEPT !.cells[block] = [(IF fresh THEN Zeros ELSE @) EXCEPT ![i + 1] = value],
              !.touched = @ \cup {block}]

\* The block of file block `index`, 0 for a hole.
bmap_read(c, ino, index) ==
    LET single == index - DIRECT_PTRS
        double == single - PTRS_PER_BLOCK
        second == get_ptr(c, ino.double_indirect, double \div PTRS_PER_BLOCK)
    IN  IF single < 0 THEN ino.direct[index + 1]
        ELSE IF double < 0
        THEN IF ino.single_indirect = 0 THEN 0 ELSE get_ptr(c, ino.single_indirect, single)
        ELSE IF ino.double_indirect = 0 THEN 0
        ELSE IF second = 0 THEN 0 ELSE get_ptr(c, second, double % PTRS_PER_BLOCK)

bmap_direct(t, index) ==
    Then(alloc_block([t EXCEPT !.got = <<>>]), LAMBDA a :
        [a EXCEPT !.ino.direct[index + 1] = a.got[1], !.ino.block_count = @ + 1, !.block = a.got[1]])

bmap_single(t, i) ==
    LET top == t.ino.single_indirect
        indirect(a) == IF top = 0 THEN a.got[1] ELSE top
    IN  Then(alloc_all(t, IF top = 0 THEN 2 ELSE 1), LAMBDA a :
            [set_ptr(a, indirect(a), top = 0, i, Last(a.got)) EXCEPT
                !.ino.single_indirect = indirect(a), !.ino.block_count = @ + Len(a.got),
                !.block = Last(a.got)])

\* Up to three new blocks: the top of the tree, one of the second level, the data.
bmap_double(t, i) ==
    LET i1 == i \div PTRS_PER_BLOCK
        i2 == i % PTRS_PER_BLOCK
        new_top == t.ino.double_indirect = 0
        second0 == IF new_top THEN 0 ELSE get_ptr(t.cells, t.ino.double_indirect, i1)
        new_second == second0 = 0
        top(a) == IF new_top THEN a.got[1] ELSE t.ino.double_indirect
        second(a) == IF new_second THEN a.got[Len(a.got) - 1] ELSE second0
        linked(a) == IF new_second THEN set_ptr(a, top(a), new_top, i1, second(a)) ELSE a
    IN  Then(alloc_all(t, 1 + (IF new_second THEN 1 ELSE 0) + (IF new_top THEN 1 ELSE 0)), LAMBDA a :
            [set_ptr(linked(a), second(a), new_second, i2, Last(a.got)) EXCEPT
                !.ino.double_indirect = top(a), !.ino.block_count = @ + Len(a.got), !.block = Last(a.got)])

bmap_alloc(t, index) ==
    LET there == bmap_read(t.cells, t.ino, index)
        f == [t EXCEPT !.fresh = TRUE]
    IN  IF there # 0 THEN [t EXCEPT !.block = there, !.fresh = FALSE]
        ELSE IF index < DIRECT_PTRS THEN bmap_direct(f, index)
        ELSE IF index < DIRECT_PTRS + PTRS_PER_BLOCK THEN bmap_single(f, index - DIRECT_PTRS)
        ELSE bmap_double(f, index - DIRECT_PTRS - PTRS_PER_BLOCK)

\* The pointers in a block that are not holes, and the block.
NotHoles(ptrs) == SelectSeq(ptrs, LAMBDA p : p # 0)
collect(c, block) == IF block = 0 THEN <<>> ELSE NotHoles(c[block])

Owned(c, ino) ==
    LET seconds == collect(c, ino.double_indirect)
    IN  NotHoles(ino.direct) \o collect(c, ino.single_indirect)
        \o FlattenSeq([i \in DOMAIN seconds |-> collect(c, seconds[i])]) \o seconds
        \o NotHoles(<<ino.single_indirect, ino.double_indirect>>)

free_all_blocks(t) ==
    LET s == free_blocks(t, Owned(t.cells, t.ino))
    IN  [s EXCEPT !.ino.direct = ZeroInode.direct, !.ino.single_indirect = 0,
                  !.ino.double_indirect = 0, !.ino.block_count = 0]

-----------------------------------------------------------------------------
(* The slots of a directory: an entry is one cell, 0 if the slot is free *)

make_entry(name, id) == name * sb.inode_count + id
inode_id(e) == e % sb.inode_count
is_named(e, name) == inode_id(e) # 0 /\ e \div sb.inode_count = name

block_count_of(dir) == dir.size \div BLOCK_SIZE
Slots(dir) == 0..(block_count_of(dir) * DIRENTS_PER_BLOCK - 1)
read_dir_block(c, dir, i) == bmap_read(c, dir, i \div DIRENTS_PER_BLOCK)
slot(c, dir, i) == c[read_dir_block(c, dir, i)][(i % DIRENTS_PER_BLOCK) + 1]
NoSlot == -1
FirstSlot(c, dir, Wanted(_)) ==
    LET found == {i \in Slots(dir) : Wanted(slot(c, dir, i))}
    IN  IF found = {} THEN NoSlot ELSE Min(found)

SlotSet(t, dir, i, e) ==
    LET b == read_dir_block(t.cells, dir, i)
    IN  [t EXCEPT !.cells[b][(i % DIRENTS_PER_BLOCK) + 1] = e, !.touched = @ \cup {b}]

\* The inode a name stands for, 0 if there is none.
dir_lookup(c, dir, name) ==
    LET i == FirstSlot(c, dir, LAMBDA e : is_named(e, name))
    IN  IF i = NoSlot THEN 0 ELSE inode_id(slot(c, dir, i))

\* The first free slot, or the first of a new block.
dir_add(t, name, id) ==
    LET i == FirstSlot(t.cells, t.ino, LAMBDA e : inode_id(e) = 0)
    IN  IF i # NoSlot THEN SlotSet(t, t.ino, i, make_entry(name, id))
        ELSE Then(bmap_alloc(t, block_count_of(t.ino)), LAMBDA a :
                [a EXCEPT !.cells[a.block] = [Zeros EXCEPT ![1] = make_entry(name, id)],
                          !.touched = @ \cup {a.block}, !.ino.size = @ + BLOCK_SIZE])

dir_remove(t, dir, name) == SlotSet(t, dir, FirstSlot(t.cells, dir, LAMBDA e : is_named(e, name)), 0)

dir_list(c, dir) ==
    SelectSeq([i \in 1..Cardinality(Slots(dir)) |-> slot(c, dir, i - 1)], LAMBDA e : inode_id(e) # 0)

-----------------------------------------------------------------------------
(* The calls *)

Root == inode[ROOT_INODE]
Lookup(n) == dir_lookup(cells, Root, n)

Commit(t) == cells' = t.cells /\ words' = t.words /\ ids' = t.ids /\ touched' = t.touched
Unwritten == UNCHANGED <<cells, words, ids, inode, bytes, touched>>
Counted == calls < MaxCalls /\ calls' = calls + 1
Ready(d) == fds[d].inode # 0 /\ writing[d] = Idle

NewFile(f) == [ZeroInode EXCEPT !.id = f, !.mode = "file", !.link_count = 1]
Opened(d, f, n, append) ==
    fds' = [fds EXCEPT ![d] = [inode |-> f, offset |-> 0, append |-> append, name |-> n]]

\* vfs_open with O_CREAT of a name that is not there: create_file. A directory that
\* cannot grow leaves the inode free again.
Create(d, n, append) ==
    /\ Counted /\ fds[d].inode = 0 /\ Lookup(n) = 0
    /\ \E a \in {alloc_inode(OpScope(ROOT_INODE))} :
       \E b \in {Then(a, LAMBDA t : dir_add(t, n, a.got[1]))} :
         LET id == a.got[1] IN
         IF b.err = "none"
         THEN /\ Commit([b EXCEPT !.touched = @ \cup {InodeTableBlock(id), InodeTableBlock(ROOT_INODE)}])
              /\ inode' = [inode EXCEPT ![ROOT_INODE] = b.ino, ![id] = NewFile(id)]
              /\ bytes' = [m \in DOMAIN bytes \cup {n} |-> IF m = n THEN <<>> ELSE bytes[m]]
              /\ Opened(d, id, n, append)
         ELSE /\ Commit(IF a.err = "none" THEN free_inode(b, id) ELSE a)
              /\ UNCHANGED <<inode, bytes, fds>>
    /\ UNCHANGED writing

\* vfs_open of a file that is there; O_TRUNC cuts it to nothing.
Open(d, n, append, trunc) ==
    LET f == Lookup(n)
        t == OpScope(f)
        s == free_all_blocks(t)
    IN  /\ Counted /\ fds[d].inode = 0 /\ f # 0
        /\ IF trunc /\ (t.ino.size # 0 \/ t.ino.block_count # 0)
           THEN /\ Commit([s EXCEPT !.touched = @ \cup {InodeTableBlock(f)}])
                /\ inode' = [inode EXCEPT ![f] = [s.ino EXCEPT !.size = 0]]
                /\ bytes' = [bytes EXCEPT ![n] = <<>>]
           ELSE Commit(t) /\ UNCHANGED <<inode, bytes>>
        /\ Opened(d, f, n, append)
        /\ UNCHANGED writing

Close(d) ==
    /\ Counted /\ Ready(d)
    /\ fds' = [fds EXCEPT ![d] = Closed]
    /\ Unwritten /\ UNCHANGED writing

Base(d, whence) ==
    CASE whence = "SET" -> 0
      [] whence = "CUR" -> fds[d].offset
      [] whence = "END" -> inode[fds[d].inode].size

\* vfs_lseek; a negative result is EINVAL.
Lseek(d, off, whence) ==
    /\ Counted /\ Ready(d)
    /\ Base(d, whence) + off \in 0..MaxOffset
    /\ fds' = [fds EXCEPT ![d].offset = Base(d, whence) + off]
    /\ Unwritten /\ UNCHANGED writing

\* What a read of n bytes at pos returns.
read_range(f, pos, n) ==
    LET total == IF pos >= inode[f].size THEN 0 ELSE Min({n, inode[f].size - pos})
        byte(at) == LET b == bmap_read(cells, inode[f], at \div BLOCK_SIZE)
                    IN  IF b = 0 THEN 0 ELSE cells[b][(at % BLOCK_SIZE) + 1]
    IN  [i \in 1..total |-> byte(pos + i - 1)]

Read(d, n) ==
    /\ Counted /\ Ready(d)
    /\ fds' = [fds EXCEPT ![d].offset = @ + Len(read_range(fds[d].inode, @, n))]
    /\ Unwritten /\ UNCHANGED writing

\* vfs_write of n bytes begins; the chunks follow.
Write(d, n) ==
    /\ Counted /\ Ready(d)
    /\ writing' = [writing EXCEPT ![d] = [left |-> n, done |-> 0, pos |-> fds[d].offset]]
    /\ Unwritten /\ UNCHANGED fds

\* The bytes of one block of a chunk: value goes to the cells from at to end.
\* A write that begins past the end of the file leaves what is between as it is.
write_block(t, at, end, value) ==
    LET off == at % BLOCK_SIZE
        upto == off + Min({BLOCK_SIZE - off, end - at})
    IN  Then(bmap_alloc(t, at \div BLOCK_SIZE), LAMBDA a :
            [a EXCEPT !.cells[a.block] =
                            [i \in 1..BLOCK_SIZE |-> IF i > off /\ i <= upto THEN value
                                                     ELSE IF a.fresh THEN 0 ELSE @[i]],
                      !.touched = @ \cup {a.block}])

\* The file as a POSIX write of value from pos to end leaves it.
Overlay(s, pos, end, value) ==
    [i \in 1..Max({Len(s), end}) |-> IF i > pos /\ i <= end THEN value
                                     ELSE IF i <= Len(s) THEN s[i] ELSE 0]

\* Mutant: a write is one transaction, however long.
chunk_end_whole(pos, left) == Min({pos + left, MAX_FILE_BYTES})

\* Where the chunk that begins at pos ends.
chunk_end(pos, left) ==
    Min({pos + left, (pos \div BLOCK_SIZE + WRITE_CHUNK_BLOCKS) * BLOCK_SIZE, MAX_FILE_BYTES})

\* The blocks of a chunk one by one, until the disk is full: got is where each began.
write_blocks(t, pos, end, value) ==
    LET first == pos \div BLOCK_SIZE
        starts == [i \in 1..((end - 1) \div BLOCK_SIZE - first + 1) |-> Max({pos, (first + i - 1) * BLOCK_SIZE})]
        step(u, at) == [write_block(u, at, end, value) EXCEPT !.got = Append(u.got, at)]
    IN  FoldLeft(LAMBDA s, at : Then(s, LAMBDA u : step(u, at)), t, starts)

\* A write at the largest size ends, with what it has done.
ChunkTooFar(d) ==
    LET w == writing[d]
        pos == IF fds[d].append THEN inode[fds[d].inode].size ELSE w.pos
    IN  /\ w.left > 0 /\ pos >= MAX_FILE_BYTES
        /\ writing' = [writing EXCEPT ![d] = Idle]
        /\ fds' = [fds EXCEPT ![d].offset = IF w.done = 0 THEN @ ELSE pos]
        /\ Unwritten /\ UNCHANGED calls

\* One transaction of a write: at most WRITE_CHUNK_BLOCKS blocks; a full disk ends it.
\* The inode is written whenever a byte was, as if its second had changed.
Chunk(d) ==
    LET w == writing[d]
        f == fds[d].inode
        pos == IF fds[d].append THEN inode[f].size ELSE w.pos
        end == chunk_end(pos, w.left)
    IN  /\ w.left > 0 /\ pos < MAX_FILE_BYTES
        /\ \E run \in {write_blocks(OpScope(f), pos, end, d)} :
           \E at \in {IF run.err = "none" THEN end ELSE Last(run.got)} :
             LET ino == [run.ino EXCEPT !.size = IF at > pos THEN Max({@, at}) ELSE @]
                 left == w.left - (at - pos)
                 over == left = 0 \/ run.err # "none"
                 from(s) == IF fds[d].append THEN Len(s) ELSE w.pos
             IN  /\ Commit([run EXCEPT !.touched =
                                IF at = pos /\ ino = inode[f] THEN @ ELSE @ \cup {InodeTableBlock(f)}])
                 /\ inode' = [inode EXCEPT ![f] = ino]
                 /\ bytes' = [bytes EXCEPT ![fds[d].name] =
                                IF at > pos THEN Overlay(@, from(@), from(@) + at - pos, d) ELSE @]
                 /\ writing' = [writing EXCEPT ![d] =
                                IF over THEN Idle ELSE [left |-> left, done |-> w.done + at - pos, pos |-> at]]
                 /\ fds' = [fds EXCEPT ![d].offset = IF over THEN at ELSE @]
        /\ UNCHANGED calls

\* vfs_unlink, of a file that is not open.
Unlink(n) ==
    LET f == Lookup(n)
        t == free_inode(free_all_blocks(dir_remove(OpScope(f), Root, n)), f)
    IN  /\ Counted /\ f # 0 /\ \A d \in Descriptors : fds[d].inode # f
        /\ Commit([t EXCEPT !.touched = @ \cup {InodeTableBlock(f), InodeTableBlock(ROOT_INODE)}])
        /\ inode' = [inode EXCEPT ![f] = ZeroInode]
        /\ bytes' = [m \in DOMAIN bytes \ {n} |-> bytes[m]]
        /\ UNCHANGED <<fds, writing>>

\* What vfs_stat of a name and vfs_readdir of the root return.
vfs_stat(n) == inode[Lookup(n)]
vfs_readdir == dir_list(cells, Root)

\* A disk with nothing but the root directory, whose free blocks hold anything
\* but zeros.
Init ==
    /\ cells = [b \in sb.data_start..(sb.total_blocks - 1) |->
                IF b = sb.data_start
                THEN [Zeros EXCEPT ![1] = make_entry(1, ROOT_INODE), ![2] = make_entry(2, ROOT_INODE)]
                ELSE [i \in 1..BLOCK_SIZE |-> sb.total_blocks - 1]]
    /\ words = FoldSet(LAMBDA b, w : set(w, b), EmptyBitmap(sb.total_blocks), 0..sb.data_start)
    /\ ids = set(set(EmptyBitmap(sb.inode_count), 0), ROOT_INODE)
    /\ inode = [f \in 0..(sb.inode_count - 1) |->
                IF f # ROOT_INODE THEN ZeroInode
                ELSE [ZeroInode EXCEPT !.id = f, !.mode = "dir", !.link_count = 2, !.size = BLOCK_SIZE,
                                       !.block_count = 1, !.direct[1] = sb.data_start]]
    /\ fds = [d \in Descriptors |-> Closed]
    /\ writing = [d \in Descriptors |-> Idle]
    /\ bytes = [n \in {} |-> <<>>]
    /\ touched = {} /\ calls = 0

Next ==
    \/ \E d \in Descriptors :
        \/ \E n \in Names : \E append, trunc \in BOOLEAN : Create(d, n, append) \/ Open(d, n, append, trunc)
        \/ Close(d)
        \/ \E off \in Seeks : \E whence \in {"SET", "CUR", "END"} : Lseek(d, off, whence)
        \/ \E n \in Lengths : Read(d, n) \/ Write(d, n)
        \/ Chunk(d) \/ ChunkTooFar(d)
    \/ \E n \in Names : Unlink(n)

Spec == Init /\ [][Next]_vars

-----------------------------------------------------------------------------
(* Properties *)

\* The type of every variable.
TypeOK ==
    /\ \A b \in DOMAIN cells : Len(cells[b]) = BLOCK_SIZE
    /\ \A d \in Descriptors : fds[d].offset \in 0..(MaxOffset + MAX_FILE_BYTES) /\ writing[d].left \in Nat
    /\ calls \in 0..MaxCalls /\ touched \subseteq 0..(sb.total_blocks - 1)

\* The types, and what the allocator may rely on.
Inv == TypeOK /\ FirstFreeExact(words, sb.total_blocks) /\ FirstFreeExact(ids, sb.inode_count)

\* readdir lists every file that was created and not unlinked, once. A read
\* anywhere in a file returns what was written there last, and zeros where
\* nothing was: no byte of a freed block or of another file shows.
ReadsWhatWasWritten ==
    /\ Len(vfs_readdir) = 2 + Cardinality(DOMAIN bytes)
    /\ \A n \in Names : Lookup(n) # 0 <=> n \in DOMAIN bytes
    /\ \A n \in DOMAIN bytes :
        /\ vfs_stat(n).size = Len(bytes[n])
        /\ read_range(Lookup(n), 0, MAX_FILE_BYTES) = bytes[n]

\* "n blocks or none": the blocks marked in use are the metadata and the ones some
\* inode reaches, each reached once; block_count counts them; a file owns nothing
\* past its end. The inodes marked in use are the root and the named ones. A full
\* disk leaves nothing behind.
EveryBlockOwnedOnce ==
    LET used == {f \in DOMAIN inode : inode[f].mode # "none"}
        owned == [f \in used |-> Owned(cells, inode[f])]
        all == UNION {ToSet(owned[f]) : f \in used}
    IN  /\ \A b \in 0..(sb.total_blocks - 1) : is_set(words, b) <=> b < sb.data_start \/ b \in all
        /\ \A f \in DOMAIN inode : is_set(ids, f) <=> f \in used \cup {0}
        /\ used = {inode_id(e) : e \in ToSet(vfs_readdir)}
        /\ MapThenSumSet(LAMBDA f : Len(owned[f]), used) = Cardinality(all)
        /\ \A f \in used :
            /\ inode[f].block_count = Len(owned[f])
            /\ \A i \in CeilDiv(inode[f].size, BLOCK_SIZE)..(MAX_FILE_BLOCKS - 1) :
                    bmap_read(cells, inode[f], i) = 0

\* "16 data blocks, at most 4 indirect blocks, the inode and a few bitmap blocks"
\* (WRITE_CHUNK_BLOCKS in vfs.cpp), and in fact 3 indirect ones: no call, and no
\* chunk of a write, writes more blocks, those of the data bitmap aside. Of these it
\* may be any number: free_blocks writes as many as a file is spread over.
OperationBounded ==
    Cardinality(touched \ (sb.data_bitmap_start..(sb.inode_table_start - 1))) <= WRITE_CHUNK_BLOCKS + 4
=============================================================================
