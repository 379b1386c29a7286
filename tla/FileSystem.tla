----------------------------- MODULE FileSystem -----------------------------
(***************************************************************************)
(* The file system's calls under concurrency: path lookup with inode locks *)
(* taken hand over hand, create, mkdir, unlink, rmdir, truncation, write   *)
(* and the open file table (src/vfs.cpp), over the allocator, directories, *)
(* block map, inode table and lock manager.                                *)
(*                                                                         *)
(* A step is what another thread can see happen: a lock taken, an          *)
(* allocator call (under its mutex), one change of what a lock protects.   *)
(* Releases go with the step before them. Disk structures are what the     *)
(* journal's cache holds; a commit (module GroupCommit) waits until no     *)
(* operation is running, so what it makes durable is the state then.       *)
(***************************************************************************)
EXTENDS Integers, Sequences, FiniteSets, FiniteSetsExt

CONSTANTS
    Threads, NoThread,
    Names,          \* names of directory entries
    Paths,          \* the paths calls are made with, as split_path leaves them
    NInodes,        \* inode numbers are 1..NInodes; 1 is the root
    NBlocks,        \* data blocks are 1..NBlocks; 0 is no block
    NFiles,         \* MAX_OPEN
    Direct,         \* DIRECT_PTRS
    MaxIndex,       \* the last file block; those from Direct on are indirect
    Slots,          \* DIRENTS_PER_BLOCK
    MaxLinks,       \* UINT16_MAX, the largest link_count
    Kinds,          \* the calls made
    WritersFirst,   \* whether a waiting writer keeps new readers out of a lock
    IoErrors,       \* whether a block may be unreadable
    MaxCalls        \* bound: calls made by all threads

Root == 1
Inodes == 1..NInodes
Blocks == 1..NBlocks
Fds == 1..NFiles
Indexes == 0..MaxIndex

ASSUME ThreadsAssumption == IsFiniteSet(Threads) /\ NoThread \notin Threads
ASSUME NamesAssumption == IsFiniteSet(Names)
ASSUME PathsAssumption == Paths \subseteq (Seq(Names) \ {<<>>})
ASSUME SizesAssumption == /\ {NInodes, NBlocks, NFiles, Direct, MaxIndex} \subseteq Nat \ {0}
                          /\ {Slots, MaxLinks} \subseteq Nat /\ Slots > 2 /\ MaxLinks > 2 /\ MaxCalls \in Nat

\* Calls that open: without O_CREAT or O_TRUNC, with O_CREAT, with O_EXCL too,
\* with both, with O_TRUNC alone.
Creates == {"create", "create_new", "replace"}
Truncates == {"replace", "truncate"}
Opens == {"open"} \cup Creates \cup Truncates
Changes == {"mkdir", "unlink", "rmdir"}     \* calls that change a directory
Writes == {"write", "append"}
InOperation == Creates \cup Truncates \cup Changes \cup Writes
ByPath == Opens \cup Changes \cup {"stat"}

ASSUME KindsAssumption == Kinds \subseteq ByPath \cup Writes \cup {"read", "close", "fsync"}
ASSUME FlagsAssumption == WritersFirst \in BOOLEAN /\ IoErrors \in BOOLEAN

VARIABLES
    ibits, bbits,           \* the allocator's bitmaps: inodes and blocks in use
    inode, dirent, dotdot,  \* the inode table; entries and ".." of directories
    entry,                  \* LockManager: inode -> its lock and what goes with it
    files, in_use, op,      \* the open file table: inode or 0, slot taken, f.op
    running, closed,        \* the journal's gate
    pc, th,                 \* each thread's place and locals
    calls

bits == <<ibits, bbits>>
tree == <<inode, dirent, dotdot>>
table == <<files, in_use, op>>
gate == <<running, closed>>
vars == <<bits, tree, entry, table, gate, pc, th, calls>>

NoInode == [mode |-> "none", links |-> 0, size |-> 0, ptr |-> [i \in Indexes |-> 0], ind |-> 0]
NoEntry == [refs |-> 0, x |-> NoThread, s |-> {}, open_count |-> 0, valid |-> FALSE,
            inode |-> NoInode]
Empty == [n \in Names |-> 0]
Idle == [kind |-> "stat", path |-> <<>>, depth |-> 0, cur |-> 0, kid |-> 0, held |-> FALSE,
         fd |-> 0, index |-> 0, ino |-> NoInode, got |-> <<>>, over |-> FALSE]

NewFile == [NoInode EXCEPT !.mode = "file", !.links = 1]
NewDir(b) == [NoInode EXCEPT !.mode = "dir", !.links = 2, !.size = 1, !.ptr[0] = b]

\* What mkfs leaves: the root, in the first block.
Init ==
    /\ ibits = {Root} /\ bbits = {1}
    /\ inode = [i \in Inodes |-> IF i = Root THEN NewDir(1) ELSE NoInode]
    /\ dirent = [i \in Inodes |-> Empty] /\ dotdot = [i \in Inodes |-> IF i = Root THEN Root ELSE 0]
    /\ entry = [i \in Inodes |-> NoEntry]
    /\ files = [f \in Fds |-> 0] /\ in_use = {} /\ op = [f \in Fds |-> NoThread]
    /\ running = {} /\ closed = FALSE
    /\ pc = [t \in Threads |-> "idle"] /\ th = [t \in Threads |-> Idle] /\ calls = 0

-----------------------------------------------------------------------------
(* LockManager *)

Acquire(e, i) == [e EXCEPT ![i].refs = @ + 1]
Release(e, i) == [e EXCEPT ![i] = IF e[i].refs = 1 THEN NoEntry
                                  ELSE [e[i] EXCEPT !.refs = e[i].refs - 1]]
Unlock(e, i, t) == [e EXCEPT ![i].x = IF @ = t THEN NoThread ELSE @, ![i].s = @ \ {t}]
\* InodeLock::drop, of a lock or of no lock.
Drop(e, i, t) == IF i = 0 THEN e ELSE Release(Unlock(e, i, t), i)

\* Mutants: the file is counted open, but its entry is not held; the copy of an
\* inode outlives it.
RegisteredBare(e, i) == [e EXCEPT ![i].open_count = @ + 1]
ForgetNot(e, i) == e

\* register_open, with the file's lock held: that is where unlink looks.
Registered(e, i) == [Acquire(e, i) EXCEPT ![i].open_count = @ + 1]
\* inode_valid = false
Forget(e, i) == [e EXCEPT ![i].valid = FALSE, ![i].inode = NoInode]

\* How far the path is walked: to what it names, or to the directory it is in.
Goal(t) == Len(th[t].path) - (IF th[t].kind \in {"open", "stat"} THEN 0 ELSE 1)

\* Whether the lock t waits for, at the end of its walk or after, is exclusive.
\* O_TRUNC without O_CREAT only needs its directory shared; O_CREAT of a file
\* that exists, the file.
Exclusive(t) ==
    \/ pc[t] = "lock" /\ th[t].depth = Goal(t) /\ th[t].kind \in Creates \cup Changes
    \/ pc[t] = "lock_kid" /\ (th[t].kind = "create" => th[t].ino # NoInode)
    \/ pc[t] = "lock_file" /\ th[t].kind # "read"

Wanted(t) == IF pc[t] \in {"lock", "lock_kid"} THEN th[t].kid
             ELSE IF pc[t] = "lock_file" THEN files[th[t].fd] ELSE 0

\* The lock of inode i can be taken by t now.
CanLock(t, i) ==
    /\ entry[i].x = NoThread
    /\ Exclusive(t) => entry[i].s = {}
    /\ WritersFirst /\ ~Exclusive(t) => \A u \in Threads : ~(Wanted(u) = i /\ Exclusive(u))

Locked(e, t, i) == IF Exclusive(t) THEN [e EXCEPT ![i].x = t] ELSE [e EXCEPT ![i].s = @ \cup {t}]

Goto(t, label) == pc' = [pc EXCEPT ![t] = label]
Set(t, locals) == th' = [th EXCEPT ![t] = locals]

-----------------------------------------------------------------------------
(* A call begins. *)

\* One with a path; one that opens takes its slot first, so that a full table
\* fails before anything is created.
CallPath(t) ==
    /\ pc[t] = "idle" /\ calls < MaxCalls
    /\ \E kind \in Kinds \cap ByPath, path \in Paths :
          \/ /\ kind \notin Opens
             /\ Set(t, [Idle EXCEPT !.kind = kind, !.path = path])
             /\ Goto(t, IF kind \in InOperation THEN "begin" ELSE "root")
             /\ UNCHANGED in_use
          \/ /\ kind \in Opens /\ in_use # Fds
             /\ Set(t, [Idle EXCEPT !.kind = kind, !.path = path, !.fd = Min(Fds \ in_use)])
             /\ Goto(t, IF kind \in InOperation THEN "begin" ELSE "root")
             /\ in_use' = in_use \cup {Min(Fds \ in_use)}
    /\ calls' = calls + 1
    /\ UNCHANGED <<bits, tree, entry, files, op, gate>>

\* begin_op: waits while a commit is wanted. Holds no inode lock.
Begin(t) ==
    /\ pc[t] = "begin" /\ ~closed
    /\ running' = running \cup {t}
    /\ Goto(t, IF th[t].kind \in Writes THEN "lock_file" ELSE "root")
    /\ UNCHANGED <<bits, tree, entry, table, closed, th, calls>>

-----------------------------------------------------------------------------
(* walk *)

WalkRoot(t) ==
    /\ pc[t] = "root"
    /\ entry' = Acquire(entry, Root)
    /\ Set(t, [th[t] EXCEPT !.kid = Root])
    /\ Goto(t, "lock")
    /\ UNCHANGED <<bits, tree, table, gate, calls>>

\* The next inode's lock is taken, then the directory's is let go.
WalkLock(t) ==
    /\ pc[t] = "lock" /\ CanLock(t, th[t].kid)
    /\ entry' = Drop(Locked(entry, t, th[t].kid), th[t].cur, t)
    /\ Set(t, [th[t] EXCEPT !.cur = th[t].kid, !.kid = 0])
    /\ Goto(t, IF th[t].depth = Goal(t) THEN "at" ELSE "walk")
    /\ UNCHANGED <<bits, tree, table, gate, calls>>

\* Mutant: the directory is let go before the lock of what it names is taken.
DescendLetsGo(t, child) ==
    /\ entry' = Drop(Acquire(entry, child), th[t].cur, t)
    /\ Set(t, [th[t] EXCEPT !.cur = 0, !.kid = child, !.depth = @ + 1])

Descend(t, child) ==
    /\ entry' = Acquire(entry, child)
    /\ Set(t, [th[t] EXCEPT !.kid = child, !.depth = @ + 1])

WalkNext(t) ==
    /\ pc[t] = "walk"
    /\ LET dir == th[t].cur  child == dirent[dir][th[t].path[th[t].depth + 1]] IN
       \/ /\ inode[dir].mode # "dir" \/ child = 0
          /\ Goto(t, "exit")
          /\ UNCHANGED <<entry, th>>
       \/ /\ inode[dir].mode = "dir" /\ child # 0
          /\ Descend(t, child)
          /\ Goto(t, "lock")
    /\ UNCHANGED <<bits, tree, table, gate, calls>>

-----------------------------------------------------------------------------
(* At the end of the walk. *)

Name(t) == th[t].path[Len(th[t].path)]
Child(t) == dirent[th[t].cur][Name(t)]
IsDir(i) == inode[i].mode = "dir"

\* open_existing, and the end of stat.
AtOpen(t) ==
    /\ pc[t] = "at" /\ th[t].kind \in {"open", "stat"}
    /\ \/ /\ th[t].kind = "open" /\ ~IsDir(th[t].cur)
          /\ entry' = Registered(entry, th[t].cur)
          /\ Set(t, [th[t] EXCEPT !.index = th[t].cur])
       \/ /\ th[t].kind = "stat" \/ IsDir(th[t].cur)
          /\ UNCHANGED <<entry, th>>
    /\ Goto(t, "exit")
    /\ UNCHANGED <<bits, tree, table, gate, calls>>

\* The name is there: what it names is to be locked, or the call fails.
Suits(t) == CASE th[t].kind \in {"mkdir", "create_new"} -> FALSE
              [] th[t].kind = "rmdir" -> IsDir(Child(t))
              [] OTHER -> ~IsDir(Child(t))

AtChild(t) ==
    /\ pc[t] = "at" /\ th[t].kind \notin {"open", "stat"}
    /\ IsDir(th[t].cur) /\ Child(t) # 0
    /\ \/ /\ Suits(t)
          /\ entry' = Acquire(entry, Child(t))
          /\ Set(t, [th[t] EXCEPT !.kid = Child(t)])
          /\ Goto(t, "lock_kid")
       \/ ~Suits(t) /\ Goto(t, "exit") /\ UNCHANGED <<entry, th>>
    /\ UNCHANGED <<bits, tree, table, gate, calls>>

\* It is not: only what creates goes on, and mkdir if the link can be counted.
Countable(t) == th[t].kind = "mkdir" => inode[th[t].cur].links # MaxLinks
AtNone(t) ==
    /\ pc[t] = "at" /\ th[t].kind \notin {"open", "stat"}
    /\ ~IsDir(th[t].cur) \/ Child(t) = 0
    /\ Goto(t, IF IsDir(th[t].cur) /\ th[t].kind \in Creates \cup {"mkdir"} /\ Countable(t)
               THEN "alloc_inode" ELSE "exit")
    /\ UNCHANGED <<bits, tree, entry, table, gate, th, calls>>

LockKid(t) ==
    /\ pc[t] = "lock_kid" /\ CanLock(t, th[t].kid)
    /\ entry' = Locked(entry, t, th[t].kid)
    /\ Set(t, [th[t] EXCEPT !.held = TRUE])
    /\ Goto(t, CASE th[t].kind = "create" \/ th[t].ino # NoInode -> "register"
                 [] th[t].kind \in Truncates /\ th[t].ino = NoInode -> "truncate"
                 [] OTHER -> "check")
    /\ UNCHANGED <<bits, tree, table, gate, calls>>

Register(t) ==
    /\ pc[t] = "register"
    /\ entry' = Registered(entry, th[t].kid)
    /\ Set(t, [th[t] EXCEPT !.index = th[t].kid])
    /\ Goto(t, "exit")
    /\ UNCHANGED <<bits, tree, table, gate, calls>>

-----------------------------------------------------------------------------
(* create_file and mkdir: what can run out is taken first, and handed back. *)

AllocInode(t) ==
    /\ pc[t] = "alloc_inode"
    /\ \/ /\ ibits # Inodes
          /\ ibits' = ibits \cup {Min(Inodes \ ibits)}
          /\ Set(t, [th[t] EXCEPT !.kid = Min(Inodes \ ibits), !.ino = inode[th[t].cur]])
          /\ Goto(t, IF th[t].kind = "mkdir" THEN "alloc_block" ELSE "dir_add")
       \/ ibits = Inodes /\ Goto(t, "exit") /\ UNCHANGED <<ibits, th>>
    /\ UNCHANGED <<bbits, tree, entry, table, gate, calls>>

\* mkdir: the new directory's block, kept in index until its inode is written.
AllocBlock(t) ==
    /\ pc[t] = "alloc_block"
    /\ \/ /\ bbits # Blocks
          /\ bbits' = bbits \cup {Min(Blocks \ bbits)}
          /\ Set(t, [th[t] EXCEPT !.index = Min(Blocks \ bbits)])
          /\ Goto(t, "dir_add")
       \/ bbits = Blocks /\ Goto(t, "undo_inode") /\ UNCHANGED <<bbits, th>>
    /\ UNCHANGED <<ibits, tree, entry, table, gate, calls>>

\* dir_add: a free slot, or a new block.
Entries(i) == Cardinality({n \in Names : dirent[i][n] # 0})
DirAdd(t) ==
    /\ pc[t] = "dir_add"
    /\ \/ /\ Entries(th[t].cur) < Slots * th[t].ino.size - 2
          /\ dirent' = [dirent EXCEPT ![th[t].cur][Name(t)] = th[t].kid]
          /\ Goto(t, "write_new")
       \/ /\ Entries(th[t].cur) = Slots * th[t].ino.size - 2
          /\ Goto(t, "take")
          /\ UNCHANGED dirent
    /\ UNCHANGED <<bits, inode, dotdot, entry, table, gate, th, calls>>

UndoBlock(t) ==
    /\ pc[t] = "undo_block"
    /\ bbits' = bbits \ {th[t].index}
    /\ Goto(t, "undo_inode")
    /\ UNCHANGED <<ibits, tree, entry, table, gate, th, calls>>

UndoInode(t) ==
    /\ pc[t] = "undo_inode"
    /\ ibits' = ibits \ {th[t].kid}
    /\ Set(t, [th[t] EXCEPT !.kid = 0, !.index = 0])
    /\ Goto(t, "exit")
    /\ UNCHANGED <<bbits, tree, entry, table, gate, calls>>

\* dir_init and write_inode of the new one.
WriteNew(t) ==
    /\ pc[t] = "write_new"
    /\ LET i == th[t].kid IN
       IF th[t].kind = "mkdir"
       THEN /\ inode' = [inode EXCEPT ![i] = NewDir(th[t].index)]
            /\ dirent' = [dirent EXCEPT ![i] = Empty]
            /\ dotdot' = [dotdot EXCEPT ![i] = th[t].cur]
       ELSE /\ inode' = [inode EXCEPT ![i] = NewFile]
            /\ UNCHANGED <<dirent, dotdot>>
    /\ Goto(t, "write_dir")
    /\ UNCHANGED <<bits, entry, table, gate, th, calls>>

\* link_count is a uint16_t.
Count(n) == IF n > MaxLinks THEN 0 ELSE IF n < 0 THEN MaxLinks ELSE n

\* write_inode of the directory, last. A created file is then locked and opened.
WriteDir(t) ==
    /\ pc[t] = "write_dir"
    /\ inode' = [inode EXCEPT ![th[t].cur] = [th[t].ino EXCEPT !.links = Count(
                    th[t].ino.links + (CASE th[t].kind = "mkdir" -> 1 [] th[t].kind = "rmdir" -> -1 [] OTHER -> 0))]]
    /\ IF th[t].kind \in Creates
       THEN entry' = Acquire(entry, th[t].kid) /\ Goto(t, "lock_kid") /\ UNCHANGED th
       ELSE Goto(t, "exit") /\ UNCHANGED entry
            /\ Set(t, IF th[t].held THEN th[t] ELSE [th[t] EXCEPT !.kid = 0, !.index = 0])
    /\ UNCHANGED <<bits, dirent, dotdot, table, gate, calls>>

-----------------------------------------------------------------------------
(* unlink, rmdir, O_TRUNC, with the directory and what it names locked. *)

\* Mutant: a file may be unlinked while it is open.
BusyNever(t) == FALSE
Busy(t) == th[t].kind = "unlink" /\ entry[th[t].kid].open_count > 0

Check(t) ==
    /\ pc[t] = "check"
    /\ \/ /\ Busy(t)
          /\ Goto(t, "exit")
          /\ UNCHANGED <<entry, th>>
       \/ /\ ~Busy(t)
          /\ entry' = Forget(entry, th[t].kid)
          /\ Set(t, [th[t] EXCEPT !.ino = inode[th[t].cur]])
          /\ Goto(t, IF th[t].kind = "rmdir" /\ Entries(th[t].kid) # 0 THEN "exit"
                     ELSE "dir_remove")
    /\ UNCHANGED <<bits, tree, table, gate, calls>>

DirRemove(t) ==
    /\ pc[t] = "dir_remove"
    /\ dirent' = [dirent EXCEPT ![th[t].cur][Name(t)] = 0]
    /\ Goto(t, "free_blocks")
    /\ UNCHANGED <<bits, inode, dotdot, entry, table, gate, th, calls>>

\* The inode is kept in ino: its copy no longer has the blocks.
Truncate(t) ==
    /\ pc[t] = "truncate"
    /\ entry' = Forget(entry, th[t].kid)
    /\ Goto(t, IF inode[th[t].kid] = NewFile THEN "register" ELSE "free_blocks")
    /\ UNCHANGED <<bits, tree, table, gate, th, calls>>

Owned(ino) == ({ino.ptr[i] : i \in Indexes} \cup {ino.ind}) \ {0}
\* free_all_blocks; free_blocks refuses a block that is free already.
FreeBlocks(t) ==
    /\ pc[t] = "free_blocks"
    /\ \/ /\ Owned(inode[th[t].kid]) \subseteq bbits
          /\ bbits' = bbits \ Owned(inode[th[t].kid])
          /\ Goto(t, IF th[t].kind \in Truncates THEN "write_file" ELSE "clear_inode")
       \/ /\ ~(Owned(inode[th[t].kid]) \subseteq bbits)
          /\ Goto(t, "exit")
          /\ UNCHANGED bbits
    /\ UNCHANGED <<ibits, tree, entry, table, gate, th, calls>>

WriteFile(t) ==
    /\ pc[t] = "write_file"
    /\ inode' = [inode EXCEPT ![th[t].kid] = NewFile]
    /\ Goto(t, "register")
    /\ UNCHANGED <<bits, dirent, dotdot, entry, table, gate, th, calls>>

\* The inode's bytes go before its number does.
ClearInode(t) ==
    /\ pc[t] = "clear_inode"
    /\ inode' = [inode EXCEPT ![th[t].kid] = NoInode]
    /\ dotdot' = [dotdot EXCEPT ![th[t].kid] = 0]
    /\ Goto(t, "free_inode")
    /\ UNCHANGED <<bits, dirent, entry, table, gate, th, calls>>

FreeInode(t) ==
    /\ pc[t] = "free_inode"
    /\ ibits' = ibits \ {th[t].kid}
    /\ Goto(t, "write_dir")
    /\ UNCHANGED <<bbits, tree, entry, table, gate, th, calls>>

-----------------------------------------------------------------------------
(* bmap_alloc, for a directory that grows or a file that is written. *)

Index(t) == IF th[t].kind \in Writes THEN th[t].index ELSE th[t].ino.size
\* Blocks file block i needs: none, itself, or an indirect block too.
Needed(ino, i) == IF i > MaxIndex THEN 1
                  ELSE IF ino.ptr[i] # 0 THEN 0 ELSE IF i < Direct \/ ino.ind # 0 THEN 1 ELSE 2
\* No block is to be had: the disk is full, or a directory is at its largest.
NoBlock(t) == bbits = Blocks \/ Index(t) > MaxIndex
With(ino, i, got) == [ino EXCEPT !.ptr[i] = got[Len(got)],
                                 !.ind = IF Len(got) = 2 THEN got[1] ELSE @,
                                 !.size = IF i + 1 > @ THEN i + 1 ELSE @]
Sizing(ino, i) == [ino EXCEPT !.size = IF i + 1 > @ THEN i + 1 ELSE @]
\* dir_add writes the entry into the block it was given.
Added(t) == IF th[t].kind \in Writes THEN dirent
            ELSE [dirent EXCEPT ![th[t].cur][Name(t)] = th[t].kid]

\* After a block of a chunk: the next one, or the end of the chunk.
Onward(t) == IF th[t].kind \notin Writes THEN {"write_new"}
             ELSE IF th[t].index < MaxIndex THEN {"take", "store"} ELSE {"store"}
Bump(t, locals) == IF th[t].kind \in Writes THEN [locals EXCEPT !.index = @ + 1] ELSE locals

\* alloc_all takes one block after another ...
Take(t) ==
    /\ pc[t] = "take" /\ Needed(th[t].ino, Index(t)) # 0
    /\ \/ /\ ~NoBlock(t)
          /\ bbits' = bbits \cup {Min(Blocks \ bbits)}
          /\ LET got == Append(th[t].got, Min(Blocks \ bbits)) IN
             \/ /\ Len(got) < Needed(th[t].ino, Index(t))
                /\ Set(t, [th[t] EXCEPT !.got = got])
                /\ UNCHANGED <<pc, dirent>>
             \/ /\ Len(got) = Needed(th[t].ino, Index(t))
                /\ Set(t, Bump(t, [th[t] EXCEPT !.got = <<>>, !.ino = With(@, Index(t), got)]))
                /\ dirent' = Added(t)
                /\ \E label \in Onward(t) : Goto(t, label)
       \/ NoBlock(t) /\ Goto(t, "give_back") /\ UNCHANGED <<bbits, th, dirent>>
    /\ UNCHANGED <<ibits, inode, dotdot, entry, table, gate, calls>>

\* Mutant: they are not given back.
TakenNone(t) == {}
Taken(t) == {th[t].got[i] : i \in DOMAIN th[t].got}

\* ... and gives all of them back when one is not to be had. A write keeps the
\* blocks it has, and ends.
GiveBack(t) ==
    /\ pc[t] = "give_back"
    /\ bbits' = bbits \ Taken(t)
    /\ Set(t, [th[t] EXCEPT !.got = <<>>, !.over = TRUE])
    /\ Goto(t, CASE th[t].kind \in Writes -> "store" [] th[t].kind = "mkdir" -> "undo_block"
                 [] OTHER -> "undo_inode")
    /\ UNCHANGED <<ibits, tree, entry, table, gate, calls>>

\* A block the file has already is written over.
Overwrite(t) ==
    /\ pc[t] = "take" /\ Needed(th[t].ino, Index(t)) = 0
    /\ Set(t, Bump(t, [th[t] EXCEPT !.ino = Sizing(@, Index(t))]))
    /\ dirent' = Added(t)
    /\ \E label \in Onward(t) : Goto(t, label)
    /\ UNCHANGED <<bits, inode, dotdot, entry, table, gate, calls>>

-----------------------------------------------------------------------------
(* Calls on a descriptor. *)

\* They hold f.op; a descriptor that is not open is refused. vfs_close looks for
\* no inode lock: its open_count-- may come while unlink is looking.
CallFd(t) ==
    /\ pc[t] = "idle" /\ calls < MaxCalls
    /\ \E fd \in Fds :
          /\ op[fd] = NoThread /\ files[fd] # 0
          /\ op' = [op EXCEPT ![fd] = t]
          /\ \/ \E kind \in Kinds \cap Writes, i \in 0..(MaxIndex + 1) :
                   /\ kind = "append" => i = 0
                   /\ Set(t, [Idle EXCEPT !.kind = kind, !.fd = fd, !.index = i])
                   /\ Goto(t, "begin")
                   /\ UNCHANGED entry
             \/ /\ "read" \in Kinds
                /\ Set(t, [Idle EXCEPT !.kind = "read", !.fd = fd])
                /\ Goto(t, "lock_file")
                /\ UNCHANGED entry
             \/ /\ "close" \in Kinds
                /\ Set(t, [Idle EXCEPT !.kind = "close", !.fd = fd])
                /\ entry' = [entry EXCEPT ![files[fd]].open_count = @ - 1]
                /\ Goto(t, "close")
    /\ calls' = calls + 1
    /\ UNCHANGED <<bits, tree, files, in_use, gate>>

\* Mutant: the file is counted closed again.
ClosedTwice(i) == [Release(entry, i) EXCEPT ![i].open_count = @ - 1]
Closed(i) == Release(entry, i)

Close(t) ==
    /\ pc[t] = "close"
    /\ LET fd == th[t].fd IN
       /\ entry' = Closed(files[fd])
       /\ files' = [files EXCEPT ![fd] = 0] /\ in_use' = in_use \ {fd}
       /\ op' = [op EXCEPT ![fd] = NoThread]
    /\ Set(t, Idle) /\ Goto(t, "idle")
    /\ UNCHANGED <<bits, tree, gate, calls>>

\* vfs_read and vfs_write take the file's lock; vfs_write for one chunk. The inode
\* is the entry's copy, if it has one, which is not to be trusted until the
\* chunk is done. At the largest size, the call ends here.
LockFile(t) ==
    /\ pc[t] = "lock_file" /\ CanLock(t, files[th[t].fd])
    /\ LET i == files[th[t].fd]
           ino == IF entry[i].valid THEN entry[i].inode ELSE inode[i]
           index == IF th[t].kind = "append" THEN ino.size ELSE th[t].index IN
       \/ /\ th[t].kind = "read"
          /\ entry' = Locked(entry, t, i)
          /\ Set(t, [th[t] EXCEPT !.over = TRUE])
          /\ Goto(t, "unlock_file")
       \/ /\ th[t].kind \in Writes
          /\ entry' = Forget(Locked(entry, t, i), i)
          /\ Set(t, [th[t] EXCEPT !.ino = ino, !.index = index, !.over = index > MaxIndex])
          /\ Goto(t, IF index > MaxIndex THEN "unlock_file" ELSE "take")
    /\ UNCHANGED <<bits, tree, table, gate, calls>>

\* write_inode, and the copy is good again.
Store(t) ==
    /\ pc[t] = "store"
    /\ LET i == files[th[t].fd] IN
       /\ inode' = [inode EXCEPT ![i] = th[t].ino]
       /\ entry' = [entry EXCEPT ![i].valid = TRUE, ![i].inode = th[t].ino]
    /\ Goto(t, "unlock_file")
    /\ UNCHANGED <<bits, dirent, dotdot, table, gate, th, calls>>

\* Mutant: the file stays locked until the last chunk.
ChunkEndKeeps(t) == IF th[t].over THEN Unlock(entry, files[th[t].fd], t) ELSE entry
ChunkEnd(t) == Unlock(entry, files[th[t].fd], t)

\* The lock goes, and the operation ends; the next chunk begins another.
UnlockFile(t) ==
    /\ pc[t] = "unlock_file"
    /\ entry' = ChunkEnd(t)
    /\ running' = running \ {t}
    /\ \/ /\ ~th[t].over
          /\ Set(t, [th[t] EXCEPT !.ino = NoInode])
          /\ Goto(t, "begin")
          /\ UNCHANGED op
       \/ /\ Set(t, Idle) /\ Goto(t, "idle")
          /\ op' = [op EXCEPT ![th[t].fd] = NoThread]
    /\ UNCHANGED <<bits, tree, files, in_use, closed, calls>>

-----------------------------------------------------------------------------
(* A call ends: its locks go, then its operation. *)

\* Mutant: what is locked below the directory stays locked.
LeavingParent(t) == Drop(entry, th[t].cur, t)
Leaving(t) == LET e == IF th[t].held THEN Drop(entry, th[t].kid, t) ELSE entry
              IN  Drop(e, th[t].cur, t)

Exit(t) ==
    /\ pc[t] = "exit"
    /\ entry' = Leaving(t)
    /\ running' = running \ {t}
    /\ LET opened == th[t].kind \in Opens /\ th[t].index # 0 IN
       /\ Goto(t, IF opened THEN "install" ELSE "idle")
       /\ Set(t, IF opened THEN [Idle EXCEPT !.fd = th[t].fd, !.index = th[t].index] ELSE Idle)
       /\ in_use' = IF th[t].kind \in Opens /\ ~opened THEN in_use \ {th[t].fd} ELSE in_use
    /\ UNCHANGED <<bits, tree, files, op, closed, calls>>

\* vfs_open fills the descriptor in.
Install(t) ==
    /\ pc[t] = "install" /\ op[th[t].fd] = NoThread
    /\ files' = [files EXCEPT ![th[t].fd] = th[t].index]
    /\ Set(t, Idle) /\ Goto(t, "idle")
    /\ UNCHANGED <<bits, tree, entry, in_use, op, gate, calls>>

\* vfs_fsync asks for a commit and waits for it; no operation begins meanwhile.
Fsync(t) ==
    /\ pc[t] = "idle" /\ calls < MaxCalls /\ "fsync" \in Kinds
    /\ closed' = TRUE
    /\ Goto(t, "sync")
    /\ calls' = calls + 1
    /\ UNCHANGED <<bits, tree, entry, table, running, th>>

Commit ==
    /\ closed /\ running = {}
    /\ closed' = FALSE
    /\ pc' = [t \in Threads |-> IF pc[t] = "sync" THEN "idle" ELSE pc[t]]
    /\ UNCHANGED <<bits, tree, entry, table, running, th, calls>>

\* A block that is not cached cannot be read: the step throws. create_file and
\* mkdir hand back what they had taken; everything else just leaves.
Reads == {"walk", "at", "check", "truncate", "dir_add", "take", "dir_remove", "free_blocks",
          "write_file", "clear_inode", "write_new", "write_dir", "store"}
\* Mutant: the copy is declared good before write_inode, which then throws.
IoErrorCopied(t) ==
    /\ IoErrors /\ pc[t] = "store"
    /\ LET i == files[th[t].fd] IN
       entry' = [entry EXCEPT ![i].valid = TRUE, ![i].inode = th[t].ino]
    /\ Set(t, [th[t] EXCEPT !.over = TRUE]) /\ Goto(t, "unlock_file")
    /\ UNCHANGED <<bits, tree, table, gate, calls>>

IoError(t) ==
    /\ IoErrors /\ pc[t] \in Reads /\ th[t].got = <<>>
    /\ Goto(t, CASE th[t].kind \in Writes -> "unlock_file"
                 [] pc[t] \in {"dir_add", "take"} /\ th[t].kind = "mkdir" -> "undo_block"
                 [] pc[t] \in {"dir_add", "take"} /\ th[t].kind \in Creates -> "undo_inode"
                 [] OTHER -> "exit")
    /\ Set(t, IF pc[t] = "write_new" \/ (pc[t] = "write_dir" /\ ~th[t].held)
              THEN [th[t] EXCEPT !.kid = 0, !.index = 0] ELSE [th[t] EXCEPT !.over = TRUE])
    /\ UNCHANGED <<bits, tree, entry, table, gate, calls>>

-----------------------------------------------------------------------------
Walk(t) == WalkRoot(t) \/ WalkLock(t) \/ WalkNext(t) \/ AtOpen(t) \/ AtChild(t) \/ AtNone(t)
Make(t) == \/ AllocInode(t) \/ AllocBlock(t) \/ DirAdd(t) \/ UndoBlock(t) \/ UndoInode(t)
           \/ WriteNew(t) \/ WriteDir(t)
Remove(t) == \/ Check(t) \/ DirRemove(t) \/ Truncate(t) \/ FreeBlocks(t) \/ WriteFile(t)
             \/ ClearInode(t) \/ FreeInode(t)
Fill(t) == \/ Take(t) \/ GiveBack(t) \/ Overwrite(t) \/ LockFile(t) \/ Store(t)
           \/ UnlockFile(t) \/ Close(t)
Continue(t) == \/ Begin(t) \/ Walk(t) \/ LockKid(t) \/ Register(t) \/ Make(t) \/ Remove(t)
               \/ Fill(t) \/ Exit(t) \/ Install(t)

Done == /\ \A t \in Threads : pc[t] = "idle"
        /\ UNCHANGED vars

Next == \/ \E t \in Threads : CallPath(t) \/ CallFd(t) \/ Fsync(t) \/ Continue(t) \/ IoError(t)
        \/ Commit \/ Done

Spec == Init /\ [][Next]_vars

\* A thread inside a call goes on when it can, and a commit that is due runs.
FairSpec == Spec /\ WF_vars(Commit) /\ \A t \in Threads : WF_vars(Continue(t))

-----------------------------------------------------------------------------
(* Properties *)

InodeType == [mode : {"none", "file", "dir"}, links : 0..MaxLinks, size : Nat,
              ptr : [Indexes -> 0..NBlocks], ind : 0..NBlocks]

Labels == {"idle", "begin", "root", "lock", "walk", "at", "lock_kid", "register", "alloc_inode",
           "alloc_block", "dir_add", "take", "give_back", "undo_block", "undo_inode", "write_new",
           "write_dir", "check", "dir_remove", "truncate", "free_blocks", "write_file", "clear_inode",
           "free_inode", "lock_file", "store", "unlock_file", "close", "exit", "install", "sync"}
Locals == [kind : ByPath \cup Writes \cup {"read", "close"}, path : Seq(Names), depth : Nat,
           cur : 0..NInodes, kid : 0..NInodes, held : BOOLEAN, fd : 0..NFiles, index : Nat,
           ino : InodeType, got : Seq(Blocks), over : BOOLEAN]
EntryType == [refs : Nat, x : Threads \cup {NoThread}, s : SUBSET Threads, open_count : Nat,
              valid : BOOLEAN, inode : InodeType]

\* The type of every variable.
TypeOK ==
    /\ ibits \subseteq Inodes /\ bbits \subseteq Blocks
    /\ inode \in [Inodes -> InodeType]
    /\ dirent \in [Inodes -> [Names -> 0..NInodes]] /\ dotdot \in [Inodes -> 0..NInodes]
    /\ entry \in [Inodes -> EntryType]
    /\ files \in [Fds -> 0..NInodes] /\ in_use \subseteq Fds /\ op \in [Fds -> Threads \cup {NoThread}]
    /\ running \subseteq Threads /\ closed \in BOOLEAN /\ calls \in 0..MaxCalls
    /\ pc \in [Threads -> Labels] /\ th \in [Threads -> Locals]

(* The rules of layout.h. *)

InUse == {i \in Inodes : inode[i].mode # "none"}
Dirs == {i \in Inodes : inode[i].mode = "dir"}
Naming(i) == {e \in Dirs \X Names : dirent[e[1]][e[2]] = i}

InodesRule == /\ ibits = InUse
              /\ \A i \in Inodes \ InUse : inode[i] = NoInode
LinksRule == \A i \in InUse :
    /\ i # Root => Cardinality(Naming(i)) = 1
    /\ inode[i].mode = "file" => inode[i].links = 1
    /\ inode[i].mode = "dir" =>
          /\ inode[i].links = 2 + Cardinality({n \in Names : dirent[i][n] \in Dirs})
          /\ dotdot[i] = (IF i = Root THEN Root ELSE (CHOOSE e \in Naming(i) : TRUE)[1])
\* Everything in use, and nothing else, is found from the root.
Followed(S) == \A d \in S \cap Dirs, n \in Names : dirent[d][n] # 0 => dirent[d][n] \in S
TreeRule == /\ Root \in InUse /\ Followed(InUse)
            /\ \A S \in SUBSET InUse : Root \in S /\ Followed(S) => S = InUse
BlocksRule == /\ bbits = UNION {Owned(inode[i]) : i \in InUse}
              /\ \A i, j \in InUse : i # j => Owned(inode[i]) \cap Owned(inode[j]) = {}
SizeRule == \A i \in InUse :
    /\ \A k \in Indexes : k >= inode[i].size => inode[i].ptr[k] = 0
    /\ i \in Dirs => /\ \A k \in Indexes : k < inode[i].size => inode[i].ptr[k] # 0
                     /\ Entries(i) <= Slots * inode[i].size - 2
Consistent == InodesRule /\ LinksRule /\ TreeRule /\ BlocksRule /\ SizeRule

\* layout.h: the calls of src/vfs.cpp keep the image consistent, those that fail
\* for lack of space included; whenever no operation is running - when a commit
\* may be made of it - every rule holds.
ConsistentAtRest == running = {} => Consistent

\* LockManager::Entry: "Whenever inode_valid is true, inode is exactly what the
\* cache holds", also for an entry that outlives the file it was made for.
CacheCoherent == \A i \in Inodes : entry[i].valid => entry[i].inode = inode[i]

\* No file is freed while it is open, or about to be: unlink's look at the count
\* does not miss an open that is on its way to the table.
Opening(t) == pc[t] \in {"exit", "install"} /\ th[t].index # 0
              /\ (pc[t] = "install" \/ th[t].kind \in Opens)
Opened == {fd \in Fds : files[fd] # 0 /\ \A t \in Threads : ~(pc[t] = "close" /\ th[t].fd = fd)}
OpenIsThere ==
    /\ \A fd \in Opened : inode[files[fd]].mode = "file" /\ files[fd] \in ibits
    /\ \A t \in Threads : Opening(t) => inode[th[t].index].mode = "file" /\ th[t].index \in ibits

\* What lookup has found, and waits to lock, is still what the name names: the
\* directory is not let go before (walk).
FoundIsThere == \A t \in Threads :
    /\ pc[t] = "lock" /\ th[t].cur # 0 =>
          dirent[th[t].cur][th[t].path[th[t].depth]] = th[t].kid /\ th[t].kid \in ibits
    /\ pc[t] = "lock_kid" => Child(t) = th[t].kid /\ inode[th[t].kid].mode # "none"
    /\ pc[t] \in {"walk", "at"} => inode[th[t].cur].mode # "none" /\ th[t].cur \in ibits

\* An entry of the lock manager has a reference for every lock held or waited
\* for and for every open file, so that it goes exactly when its last user does.
At(i) == {t \in Threads : th[t].cur = i}
Below(i) == {t \in Threads : th[t].kid = i /\ (pc[t] \in {"lock", "lock_kid"} \/ th[t].held)}
Openers(i) == {t \in Threads : Opening(t) /\ th[t].index = i}
EntriesCounted == \A i \in Inodes :
    /\ entry[i].refs = Cardinality(At(i)) + Cardinality(Below(i)) + Cardinality(Openers(i))
                       + Cardinality({fd \in Fds : files[fd] = i})
    /\ entry[i].open_count = Cardinality({fd \in Opened : files[fd] = i}) + Cardinality(Openers(i))
    /\ entry[i].refs = 0 => entry[i] = NoEntry

\* Every call returns: lock order, and the rule that nobody waits in begin_op
\* with an inode locked, leave nobody waiting for ever.
CallsReturn == \A t \in Threads : pc[t] # "idle" ~> pc[t] = "idle"

-----------------------------------------------------------------------------
(* Why: what holds in every state, between the steps of the calls too. *)

OnFd(t) == th[t].kind \in Writes \cup {"read", "close"}
\* An inode is taken for what is being made; a file is open for writing its inode.
Making(t) == \/ pc[t] \in {"alloc_block", "dir_add", "undo_block", "undo_inode", "write_new"}
             \/ pc[t] \in {"take", "give_back"} /\ th[t].kind \notin Writes
Writing(t) == pc[t] = "store" \/ (pc[t] \in {"take", "give_back"} /\ th[t].kind \in Writes)
\* What the directory named is being removed; the directory no longer names it.
Removed(t) == \/ pc[t] \in {"clear_inode", "free_inode"}
              \/ pc[t] = "free_blocks" /\ th[t].kind \in Changes
Removing(t) == pc[t] = "dir_remove" \/ Removed(t)
Emptying(t) == pc[t] \in {"free_blocks", "write_file"} /\ th[t].kind \in Truncates
\* The directory is locked and names what is to be locked or is.
Named(t) == \/ pc[t] \in {"lock_kid", "check", "dir_remove", "truncate", "register"}
            \/ Emptying(t)

\* The calls that get to a label.
KindOK(t) == LET k == th[t].kind IN
    /\ pc[t] \in {"idle", "sync", "install"} => k = "stat"
    /\ pc[t] = "begin" => k \in InOperation
    /\ pc[t] \in {"root", "lock", "walk", "at", "exit"} => k \in ByPath
    /\ pc[t] \in {"alloc_inode", "dir_add", "undo_inode", "write_new"} => k \in Creates \cup {"mkdir"}
    /\ pc[t] \in {"alloc_block", "undo_block"} => k = "mkdir"
    /\ pc[t] \in {"take", "give_back"} => k \in Creates \cup {"mkdir"} \cup Writes
    /\ pc[t] = "write_dir" => k \in Creates \cup Changes
    /\ pc[t] = "lock_kid" => k \in Creates \cup Truncates \cup {"unlink", "rmdir"}
    /\ pc[t] = "free_blocks" => k \in Truncates \cup {"unlink", "rmdir"}
    /\ pc[t] = "register" => k \in Creates \cup Truncates
    /\ pc[t] \in {"truncate", "write_file"} => k \in Truncates
    /\ pc[t] \in {"check", "dir_remove", "clear_inode", "free_inode"} => k \in {"unlink", "rmdir"}
    /\ pc[t] \in {"lock_file", "unlock_file"} => k \in Writes \cup {"read"}
    /\ pc[t] = "unlock_file" /\ k = "read" => th[t].over
    /\ pc[t] = "store" => k \in Writes
    /\ pc[t] = "close" => k = "close"

\* What a thread keeps while it walks, and after.
Outside == {"idle", "sync", "install", "begin", "root"}
WalkOK(t) == LET l == th[t] IN
    /\ pc[t] \in {"idle", "sync"} => l = Idle
    /\ l.kind \in ByPath /\ pc[t] \notin {"idle", "sync", "install"} =>
          l.path \in Paths /\ l.depth <= Goal(t)
    /\ l.kind \in Opens \/ OnFd(t) \/ pc[t] = "install" => l.fd \in Fds
    /\ pc[t] \in Outside \/ OnFd(t) => l.cur = 0
    /\ pc[t] \in {"begin", "root"} \/ OnFd(t) => l.depth = 0
    /\ pc[t] \notin Outside \cup {"lock"} /\ ~OnFd(t) => l.cur # 0
    /\ pc[t] = "lock" => (l.cur = 0 <=> l.depth = 0) /\ (l.depth = 0 => l.kid = Root)
    /\ pc[t] = "walk" => l.depth < Goal(t)
    /\ pc[t] \notin Outside \cup {"lock", "walk", "exit"} /\ ~OnFd(t) => l.depth = Goal(t)

KidOK(t) == LET l == th[t] IN
    /\ pc[t] \in Outside \cup {"walk", "at", "alloc_inode"} \/ OnFd(t) => l.kid = 0
    /\ pc[t] \notin Outside \cup {"walk", "at", "alloc_inode", "exit"} /\ ~OnFd(t) => l.kid # 0
    /\ l.held <=> \/ Removed(t)
                  \/ Named(t) /\ pc[t] # "lock_kid"
                  \/ pc[t] = "write_dir" /\ l.kind \in {"unlink", "rmdir"}
                  \/ pc[t] = "exit" /\ l.kid # 0
    /\ l.kid # 0 => l.kid # l.cur

IndexOK(t) == LET l == th[t] IN
    /\ l.kind \in Opens /\ pc[t] # "exit" => l.index = 0
    /\ Opening(t) => l.index \in Inodes
    /\ pc[t] = "install" => l.index # 0
    /\ pc[t] \in {"take", "give_back"} /\ l.kind \in Writes => l.index \in Indexes
    /\ l.kind = "mkdir" /\ Making(t) /\ pc[t] \notin {"alloc_block", "undo_inode"} => l.index \in Blocks

InoOK(t) == LET l == th[t] IN
    /\ Making(t) \/ Removing(t) \/ pc[t] = "write_dir" => l.ino.mode = "dir"
    /\ pc[t] \in {"begin", "root", "lock", "walk", "at", "alloc_inode", "truncate"} \/ Emptying(t)
          => l.ino = NoInode
    /\ pc[t] = "lock_kid" => IF l.ino = NoInode THEN l.kind # "create_new" ELSE l.kind \in Creates
    /\ pc[t] \notin {"take", "give_back"} => l.got = <<>>
    /\ pc[t] = "take" => l.got = <<>> \/ Len(l.got) < Needed(l.ino, Index(t))

ShapeInv == \A t \in Threads : KindOK(t) /\ WalkOK(t) /\ KidOK(t) /\ IndexOK(t) /\ InoOK(t)

\* A slot belongs to the call that opens, then to the open file.
Reserving(t) == th[t].kind \in Opens \/ pc[t] = "install"
TableInv ==
    /\ \A fd \in Fds : /\ files[fd] # 0 => fd \in in_use
                       /\ op[fd] # NoThread => OnFd(op[fd]) /\ th[op[fd]].fd = fd
    /\ \A t \in Threads :
          /\ OnFd(t) => op[th[t].fd] = t /\ files[th[t].fd] # 0
          /\ Reserving(t) => th[t].fd \in in_use /\ files[th[t].fd] = 0
    /\ \A t, u \in Threads : Reserving(t) /\ Reserving(u) /\ t # u => th[t].fd # th[u].fd

\* Who has which lock.
CurX(t) == pc[t] # "lock" /\ th[t].depth = Goal(t) /\ th[t].kind \in Creates \cup Changes
KidX(t) == th[t].kind = "create" => th[t].ino # NoInode
HasFile(t, i) == (Writing(t) \/ pc[t] = "unlock_file") /\ files[th[t].fd] = i
HasX(t, i) == \/ th[t].cur = i /\ CurX(t)
              \/ th[t].held /\ th[t].kid = i /\ KidX(t)
              \/ HasFile(t, i) /\ th[t].kind # "read"
HasS(t, i) == \/ th[t].cur = i /\ ~CurX(t)
              \/ th[t].held /\ th[t].kid = i /\ ~KidX(t)
              \/ HasFile(t, i) /\ th[t].kind = "read"
LockInv == \A i \in Inodes :
    /\ \A t \in Threads : /\ entry[i].x = t <=> HasX(t, i)
                          /\ t \in entry[i].s <=> HasS(t, i)
    /\ entry[i].x # NoThread => entry[i].s = {}

\* The entries make a forest of what the allocator gave out.
NameInv ==
    /\ Root \in ibits /\ inode[Root].mode = "dir"
    /\ \A i \in Inodes \ ibits : inode[i] = NoInode
    /\ \A d \in Inodes, n \in Names : dirent[d][n] # 0 =>
          inode[d].mode = "dir" /\ dirent[d][n] \in ibits \ {Root, d}
    /\ \A d, e \in Inodes, n, m \in Names :
          dirent[d][n] # 0 /\ dirent[d][n] = dirent[e][m] => d = e /\ n = m

Unnamed(i) == \A d \in Inodes, n \in Names : dirent[d][n] # i
\* What a thread makes is its own.
MakeOK(t) ==
    /\ pc[t] = "alloc_inode" \/ (Making(t) /\ pc[t] # "write_new") => Child(t) = 0
    /\ Making(t) =>
          /\ th[t].kid \in ibits /\ th[t].kid # Root /\ inode[th[t].kid] = NoInode
          /\ ~entry[th[t].kid].valid
          /\ IF pc[t] = "write_new" THEN Child(t) = th[t].kid ELSE Unnamed(th[t].kid)
          /\ \A u \in Threads : /\ u # t /\ Making(u) => th[u].kid # th[t].kid
                                /\ th[u].cur # th[t].kid
                                /\ Removing(u) => th[u].kid # th[t].kid
                                /\ Opening(u) => th[u].index # th[t].kid
          /\ \A fd \in Opened : files[fd] # th[t].kid

\* What a thread has locked, or is about to lock, is there.
HeldOK(t) ==
    /\ th[t].cur # 0 => th[t].cur \in ibits
    /\ pc[t] \in {"alloc_inode", "write_dir"} \/ Making(t) \/ Named(t) \/ Removed(t) => IsDir(th[t].cur)
    /\ pc[t] = "lock" /\ th[t].cur # 0 => dirent[th[t].cur][th[t].path[th[t].depth]] = th[t].kid
    /\ Named(t) => Child(t) = th[t].kid /\ (IsDir(th[t].kid) <=> th[t].kind = "rmdir")
    /\ pc[t] = "write_dir" /\ ~th[t].held => Child(t) = th[t].kid
                                            /\ (IsDir(th[t].kid) <=> th[t].kind = "mkdir")
    /\ Removed(t) => Unnamed(th[t].kid) /\ th[t].kid \in ibits \ {Root}
    /\ pc[t] = "free_inode" => inode[th[t].kid] = NoInode
    /\ Removing(t) =>
          /\ \A n \in Names : dirent[th[t].kid][n] = 0
          /\ \A fd \in Opened : files[fd] # th[t].kid
          /\ \A u \in Threads : Opening(u) => th[u].index # th[t].kid

ThereInv == \A t \in Threads : MakeOK(t) /\ HeldOK(t)

\* Open files, and the copies of their inodes.
OpenInv ==
    /\ \A fd \in Opened : files[fd] \in ibits /\ ~IsDir(files[fd])
    /\ \A t \in Threads : Opening(t) => th[t].index \in ibits /\ ~IsDir(th[t].index)
CopyInv ==
    /\ \A i \in Inodes : entry[i].valid => i \in ibits /\ ~IsDir(i)
    /\ \A t \in Threads :
          /\ Writing(t) => /\ ~entry[files[th[t].fd]].valid
                           /\ th[t].ino.mode = inode[files[th[t].fd]].mode
          /\ Removing(t) \/ Emptying(t) => ~entry[th[t].kid].valid

\* All of it; no step is kept from it by a block that cannot be read.
SafeInv == /\ TypeOK /\ ShapeInv /\ TableInv /\ LockInv /\ EntriesCounted
           /\ NameInv /\ ThereInv /\ OpenInv /\ CopyInv /\ CacheCoherent

(* The rules of layout.h between the steps of the calls, when every block can be read. *)

\* An operation runs from begin_op to its end.
RunInv == running = {t \in Threads : th[t].kind \in InOperation /\ pc[t] # "begin"}

\* An inode that is taken is in use and named, unless a call is about to see to it.
UsedInv == \A i \in ibits :
    inode[i].mode # "none" \/ \E t \in Threads : th[t].kid = i /\ (Making(t) \/ pc[t] = "free_inode")
KnownInv == \A i \in ibits :
    i = Root \/ ~Unnamed(i) \/ \E t \in Threads : th[t].kid = i /\ (Making(t) \/ Removed(t))

\* Links are counted, but for one a call has made or removed and not counted yet.
Subdirs(i) == {n \in Names : dirent[i][n] \in Dirs}
More(t) == pc[t] = "write_dir" /\ th[t].kind = "mkdir"
Less(t) == th[t].kind = "rmdir" /\ (Removed(t) \/ pc[t] = "write_dir")
OneMore(i) == IF \E t \in Threads : th[t].cur = i /\ More(t) THEN 1 ELSE 0
OneLess(i) == IF \E t \in Threads : th[t].cur = i /\ Less(t) THEN 1 ELSE 0
LinkInv ==
    /\ \A i \in Inodes : inode[i].mode = "file" => inode[i].links = 1
    /\ \A i \in Dirs : inode[i].links + OneMore(i) = 2 + Cardinality(Subdirs(i)) + OneLess(i)
    /\ dotdot[Root] = Root
    /\ \A d \in Inodes, n \in Names : dirent[d][n] \in Dirs => dotdot[dirent[d][n]] = d
    /\ \A t \in Threads : th[t].kind = "mkdir" /\ (Making(t) \/ pc[t] \in {"alloc_inode", "write_dir"})
                             => inode[th[t].cur].links # MaxLinks
TreeInv == \A S \in SUBSET Inodes :
    Root \in S /\ (\A d \in S, n \in Names : dirent[d][n] # 0 => dirent[d][n] \in S)
       => \A d \in Inodes, n \in Names : dirent[d][n] # 0 => dirent[d][n] \in S

\* What a call has read and changed of an inode, and has not written back.
Sized(ino) == /\ \A k \in Indexes : k >= ino.size => ino.ptr[k] = 0
              /\ ino.mode = "dir" => \A k \in Indexes : k < ino.size => ino.ptr[k] # 0
Target(t) == IF Writing(t) THEN files[th[t].fd] ELSE th[t].cur
Changing(t) == Writing(t) \/ pc[t] \in {"write_new", "write_dir"}
KeptOK(t) == (Making(t) /\ pc[t] # "write_new") \/ Removing(t) \/ (pc[t] = "write_dir" /\ th[t].held)
                => th[t].ino = inode[th[t].cur]
ChangedOK(t) == Changing(t) => /\ th[t].ino.mode = inode[Target(t)].mode
                               /\ th[t].ino.links = inode[Target(t)].links
                               /\ Sized(th[t].ino)
                               /\ Owned(inode[Target(t)]) \subseteq Owned(th[t].ino)
                               /\ ~Writing(t) => Entries(th[t].cur) <= Slots * th[t].ino.size - 2
InoInv == \A t \in Threads : KeptOK(t) /\ ChangedOK(t)
SizeInv == \A i \in Inodes :
    /\ Sized(inode[i])
    /\ IsDir(i) => \/ Entries(i) <= Slots * inode[i].size - 2
                   \/ \E t \in Threads : th[t].cur = i /\ pc[t] \in {"write_new", "write_dir"}

\* A block is free, an inode's, or a call's: mkdir's for the new directory, those
\* alloc_all has taken, those in an inode that is not written back yet.
Has(i) == IF \E t \in Threads : th[t].kid = i /\ pc[t] \in {"write_file", "clear_inode"} THEN {}
          ELSE Owned(inode[i])
Spare(t) == IF th[t].kind = "mkdir" /\ Making(t) /\ pc[t] \notin {"alloc_block", "undo_inode"}
            THEN {th[t].index} ELSE {}
Grown(t) == IF Changing(t) THEN Owned(th[t].ino) \ Owned(inode[Target(t)]) ELSE {}
Claims == (Inodes \X {"inode"}) \cup (Threads \X {"spare", "grown", "taken"})
Claim == [k \in Claims |-> CASE k[2] = "inode" -> Has(k[1]) [] k[2] = "spare" -> Spare(k[1])
                             [] k[2] = "grown" -> Grown(k[1]) [] OTHER -> Taken(k[1])]
BlockInv == /\ \A b \in Blocks : b \in bbits <=> \E k \in Claims : b \in Claim[k]
            /\ \A k \in Claims : \A b \in Claim[k] : \A l \in Claims : b \in Claim[l] => l = k

RuleInv == RunInv /\ UsedInv /\ KnownInv /\ LinkInv /\ TreeInv /\ InoInv /\ SizeInv /\ BlockInv

\* What holds in every state, and all the rules rest on when every block can be read.
Inv == SafeInv /\ (~IoErrors => RuleInv)
=============================================================================
