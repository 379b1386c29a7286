# ConcurrentFS in TLA+

A verification development for ConcurrentFS, a file system in C++17 that keeps its inodes,
bitmaps, directories, block cache, write-ahead log and crash recovery in two ordinary files
(`disk.img` and its log) and may be called by many threads. The modules are translated from the
source; `PROJECT.json` maps every definition to the lines it models.

## The system

Calls come in at the top and end as `pwrite` and `fsync` at the bottom.

| part | state | operations | what it must get right |
|---|---|---|---|
| API, `vfs.cpp` | open file table, offsets, mount gate | open, close, read, write, lseek, fsync, sync, mkdir, unlink, rmdir, stat, readdir, mount, unmount | every call atomic in the tree; a read returns what was written; failures leave nothing behind; nobody waits for ever |
| lock manager, `lock_manager.cpp` | inode → lock, references, open count, copy of the inode | acquire, release, `InodeLock` | an entry lives as long as somebody uses it; its copy is never stale |
| allocator, directories, block map, inode table | bitmaps, directory blocks, pointers, inodes | alloc, free, add, remove, bmap, read, write, clear | the consistency rules of `layout.h` |
| journal, `storage.cpp` | gate (count and CLOSED bit), running transaction, mutex `m_` | `begin_op`, `end_op`, `commit`, `checkpoint`, `commit_if_older` | transactions of whole operations; one committer; `commit()` returns only when it is durable |
| log and recovery, `wal.cpp`, `recovery.cpp` | records, lsns, superblock | append, stage, sync, reset, scan, recover | all or nothing of a transaction after any crash, however often |
| buffer cache, `buffer_cache.cpp` | frames with pins, locks, dirty, in_txn, lsn | read, modify, commit_frame, write_back | nothing lost, nothing uncommitted on disk |
| flusher, `flusher.cpp` | kicked, stop | start, kick, stop | no kick is lost; stop returns; no work outside the life of the storage |
| mkfs, fsck | the image | format, check | an image is complete or obviously not one; fsck sees every broken rule and no other |
| bitmap, superblock, `layout.h` | words, the plan of the regions | find, set, clear, load, store, plan, validate | the boundaries of words, blocks and regions |
| crash test, `crashtest.cpp`, `fault.cpp` | workload, events on a pipe | kill in write n, recover, verify | what it accepts is what the file system promises |
| path, CRC-32 | — | pure | — |

What is hard: the gate is atomics without a lock, read, checked and swapped in separate steps;
`run_commit` drops its mutex for the I/O; `write_back` uses copies of frames it no longer locks;
path lookup holds two locks for a moment and none of them while it waits for a commit; a crash may
come between any two writes, in recovery too; space runs out, or a block cannot be read, half way
through an operation. `PROJECT.json` lists these places as hazards, each with its line and with
the properties that would catch it going wrong.

How the parts meet: a call enters the mount gate, then the journal's gate (`begin_op`), then takes
inode locks downwards, then changes blocks in the cache through the journal; it leaves in the
opposite order. Whoever ends the last operation while a commit is wanted commits: log, sync,
COMMIT, sync, and the frames become writable. The flusher asks for commits and writes frames back.

## Modules

**`GroupCommit`** — `JournalImpl`'s gate. One action per access of `gate_` or section under `m_`
that another thread can observe: `begin_op` is `BeginLoad`, `BeginFits`, `BeginCas` and, on the slow
path, `BeginTop`, `BeginClose`, `BeginAdd`; `end_op` is `EndCount`, `EndSub`, `EndLoad`, `EndSlow`;
`run_commit` is `RunLater` or `RunStart`, `RunIo` (the unlocked part), `RunPublish` or `RunFail`. A
wait on `cv_` is a label of its own, left on `notify_all` or spuriously. The history variables name
operations by the order in which they end, so that "durable" can be said of them. An error that
leaves `end_op`, a destructor's call, ends the process (`aborted`). Spurious failures of
`compare_exchange_weak` only repeat `BeginFits` and are left out.

**`Storage`** — the two files, the cache's frames, the transaction and the one thread that mounts,
commits, checkpoints, recovers or unmounts, one step per write or sync. `disk` is what a reader of
`disk.img` sees, `past` the contents a power failure may bring back (or tear); `log` is what
`Wal::scan` would return and `synced` how much of it is durable. `Kill` leaves the files as written;
`PowerFail` keeps any part of what was not synced. Every write and sync may also fail, of `disk.img`
(`"disk_io"`) or of the log (`"log_io"`): in a commit or checkpoint (`CommitError`), after which every call is
refused (`Rejected`) until the unmount fails as well; in `close()` itself (`CloseFailed`, for both); in recovery,
in the log's reset or when the image is marked in use (`MountFailed`: the mount throws and may be tried again);
or in a write-back (`WriteBackFail`). After each the files stay as they are, clean_unmount included, and the next
mount recovers. A write that fails may leave its block torn. A sync that fails leaves what it should have
made durable as it was, seen by reads and at the mercy of a power failure; a kernel that drops the dirty pages of a
failed fsync, so that later reads return the old contents, is not modelled. Which of these failures a machine has is
chosen at the start (`FailureModes`). The initial log may be one another image left behind.

**`AtomicStore`** — what the journal promises: memory, a durable image, and crashes that leave the
durable image or that of the one commit under way. `Storage` refines it (`ImplementsAtomicStore`): the
mapped durable image is `disk.img` with the safe part of the log replayed.

**`BufferCache`** — `acquire` (`Hit`, or `Miss` with `TakeFrame`, then `LoadOk` or `LoadFail`), `Bytes`
under the frame's lock, `Unpin`, `FinishModify`, the journal's `AddToTxn`, `CommitFrame`, and
`write_back` as `Pick`, `Copy`, `Recheck`, `Leave`, `WriteRun`, `Mark`. The contents of a block are
the number of changes it has seen. Which frames make a run, and the order of the LRU list, are
nondeterministic, so the model allows more than the code.

**`FileSystem`** — calls as threads that take steps: reserve a descriptor, `begin_op`, `walk`
(`WalkRoot`, `WalkLock`, `WalkNext`), then what the call is about. Creation: `AllocInode`,
`AllocBlock`, `DirAdd` (growing through `Take` if no slot is free), `WriteNew`, `WriteDir`, with
`GiveBack`, `UndoBlock`, `UndoInode` when something runs out. Removal: `Check`, `DirRemove`,
`FreeBlocks`, `ClearInode`, `FreeInode`, `WriteDir`. Writing: one operation per chunk, `LockFile`, `Take`
or `Overwrite` per block, `Store`, `UnlockFile`. `Close` is in two steps, since `open_count--` comes
without the inode's lock and before the reference is released. `Begin`, `Fsync` and `Commit` are
the journal's gate as a caller sees it. `IoError` is a read that fails. The calls, by their flags:
`open`, `create` (O_CREAT), `create_new` (and O_EXCL), `replace` (O_CREAT, O_TRUNC), `truncate`
(O_TRUNC), `append` (a write to a descriptor with O_APPEND).

**`MountGate`** — `enter` (`Enter`, `Look`, `Back`), `leave`, `vfs_mount`, `vfs_unmount` with
`close_and_drain` looking at one slot per step; threads may share slots.

**`Flusher`** — `run()` between taking `m_` and giving it back: `Look` (the predicate, and the start of the
wait, in one step because the mutex is held across them), `Wake` (the period, or a spurious wake-up),
`Work`; `Kick` and `Stop` set a flag under `m_`, and `Notify` is a step of its own, as `notify_one` comes after
the mutex has been released.

**`Lifecycle`** — `MountGate` extended by an instance of `Flusher`: what the gate's steps `Mount` and `Destroy`
do inside. A mount makes the storage, starts the flusher, loads the bitmaps and, if that fails, closes
again; an unmount stops the flusher, joins it, closes the journal and destroys the rest; calls kick the
flusher. It refines `MountGate` (`ImplementsMountGate`), so the theorems about the gate hold for it.

**`Layout`** — bitmaps as functions from words to sets of bits, `plan_layout`, `validate_superblock`, and blocks
as records tagged with what was written there; a reader decodes a block of another kind to something
out of range, as bytes would.

**`Fsck`** — the checker as operators that fill in its tables: `load_inodes`, `check_inodes` with `check_blocks`
and `claim`, `walk_tree`, `check_links`, `check_data_bitmap`. Next to it `Consistent`, the rules in the comment
of `layout.h`, written without reference to fsck: sets of pointers and entries rather than passes.
`DIR_MAP_BLOCKS` is the 2^20 of `check_blocks`: blocks of a directory from there on are claimed, but not kept for the
walk.

**`Mkfs`** — each write and sync of `mkfs`, on a blank device or over another file system, with crashes that
keep any subset of what was not synced (`Crash`), and images at rest that are damaged one field at a time
(`Damage`), which is what fsck is for.

**`FileData`** — where the bytes go. A block is a sequence of cells, which a file reads as bytes, the block map
as pointers and a directory as entries, and free blocks hold anything but zeros; so a block that is reused
without being cleared shows. `bmap_alloc` on all three levels with `alloc_all` and its rollback,
`free_all_blocks`, the directory's slots, both bitmaps in words. A call, or a chunk of a write, is one step on
a record of all that it may change (its interleaving below that is `FileSystem`'s subject); between two
chunks of a write come other calls. `touched` is the set of blocks the last transaction wrote. The file of
the POSIX description is kept beside it in `bytes`. The inode is written whenever a chunk wrote a byte, as
when the second has changed.

**`Wal`** — the log file in cells of a sector: a header, and for a BLOCK record its payload, back to back; the
batch that staged records wait in; `scan` with its checks, record by record; `Cut`, all that a write may
leave if it is cut short, inside a sector too.

**`CrashTest`** — `tools/crashtest.cpp` around `Wal`: a child makes the calls of a workload and reports them, dies
in one of its writes, in the recovery too; the parent mounts what is left and compares. The journal here is
that of a single thread without flusher or fsync, the configuration of the test. A block holds the number of
the call that last changed it.

The `*Proofs` modules hold the theorems; `MC*` instantiate the modules for TLC.
A definition whose comment begins with *Mutant* is a plausible bug, used to show that a property
notices it; no specification uses it.

## Runs

| run | shows | bounds |
|---|---|---|
| `group_commit` | `Inv`, whole operations, one committer, durable on return, bounded overshoot, every call returns | 2 clients and the flusher, 2 calls each, operations of 1 block, transactions of 1, failing commits |
| `group_commit_promise` | *violated*: the room promised by `begin_op` | the same, no errors |
| `storage` | `Inv` (types; a commit finds its frames; the log covers what is dirty or not safely on disk; the inductive invariant of the proof), recovery is atomic, clean means clean, `AtomicStore` is implemented | 2 blocks, 2 values, 7 lsns, 2 power failures with errors of `disk.img`, or 2 kills with errors of both files; checkpoint after 3 records |
| `storage_mixed` | *violated*: recovery when a kill, or a failed sync of the log, is followed by a power failure | the same, 4 lsns; machines {kill, power} and {power, log_io} |
| `buffer_cache` | `Inv` (types, pins, locks, the dirty count, the transaction's frames), nothing lost, nothing uncommitted on disk, clean means written | 2 threads, 2 blocks, 3 frames with a share of 1, 3 changes, I/O errors |
| `file_system` | `SafeInv` (the first inductive invariant of the proof), the rules of `layout.h` at rest, coherent copies, open files stay, lookups stay true, entries counted, no deadlock | 2 threads, 4 calls, 3 inodes, 4 blocks, 2 descriptors, 3 slots per directory block, link counts to 3, files of 2 blocks of which one is indirect |
| `file_system_live` | every call returns; copies and references survive reads that fail | 3 threads, 4 calls on one path, locks that prefer writers, I/O errors |
| `file_system_rules` | *violated*: the rules when a read fails | as `file_system` |
| `lifecycle` | no call and no work meets a change, the gate is refined, unmount returns, no kick is lost | 4 threads, 2 slots, calls, kicks, mounts and unmounts without bound |
| `image` | plans fit, mkfs is all or nothing, fsck agrees with the rules | devices of 4 to 9 blocks, an image of 15 and two of 10 whose roots have 2 and 3 blocks, `DIR_MAP_BLOCKS` 2, 4 inode counts, 1 crash, 1 torn block, 2 wrong fields |
| `file_data` | bitmap search, reads, ownership of blocks and inodes, size of an operation | 16 blocks of 2 cells, 5 inodes, 3 names, 2 descriptors, 5 calls; 2 direct pointers, 2 per indirect block; chunks of 2 blocks |
| `crash_test` | the verdict of the crash test is always "ok", the log reads back | all workloads of 4 operations on 2 blocks, blocks of 2 sectors, a batch of 5 cells, 2 kills |

Why the bounds are enough for what is asked: two clients and the flusher give every pair of roles in
the gate (joining, committing, waiting) and a third to disturb them; two blocks make "part of a
transaction" possible and seven lsns two transactions, one of both blocks, or a checkpoint between
smaller ones; two crashes put one in the recovery from the other. Three frames with a share of one
make every second load evict. With three inodes and four blocks, every allocation of create, mkdir and
write can be the one that fails, and a directory grows with its second name. In `file_system` a
thread may close a file while the other unlinks it and gives its number to a new file.
In `file_data` one write of eight cells reaches from the direct pointers into the tree, the offsets 7 and 9
begin in the last single-indirect block and in the double-indirect tree, two files fill the disk, and the
third name makes a directory grow that no longer can.
A chunk of two blocks there may go from the single-indirect block into a double-indirect tree that does not exist yet, so
the bound of `OperationBounded` (two data blocks, three indirect ones, the inode) is reached; the same write in one
transaction breaks it.
In `image` the old file system has a file with holes and all three kinds of pointers, so that every field
`claim` and `check_blocks` look at can be wrong; the directories of one, two and three blocks lie on both sides of
`DIR_MAP_BLOCKS`, and the last entries of the longer ones are in their last block. In `crash_test` a transaction may need two batches.

## Fairness

`GroupCommit!FairSpec`: a thread that can take a step keeps taking them, so that operations end; the
flusher's ticks are only fair once it is committing, and nothing relies on spurious wake-ups or on a
mutex being handed over fairly.
`FileSystem!FairSpec`: a thread inside a call takes a step that stays possible, and a commit that is due
runs, which is `GroupCommit`'s `CallsReturn`. With a bounded number of calls no lock is contended for
ever, so nothing is assumed about the order in which `std::shared_mutex` lets threads in; both policies
are checked for deadlock. `MountGate!FairSpec`: calls return and the thread that changes the mount on. Its liveness is stated for calls that stop coming: while they keep coming, `close_and_drain` may
see every time a call that is about to back out, and nothing in the code prevents it.
`Lifecycle!LifeSpec` adds that a thread that owes a `notify_one` makes the call and that the flusher's thread
runs when it can; a call that may kick the flusher again and again leaves in the end (SF). It does not
assume that a period ever ends: kicks and stops must be served without it.

`CHECK_DEADLOCK FALSE` appears in `file_system_live`, where the program may stop (the threads have made their
calls) and a deadlock shows as a call that does not return, and in `file_data` and `image`, which end when the
calls, or the crashes and damages, are used up. The others check deadlock.

## Proofs

The theorems hold for every value of the constants that meets the assumptions; TLC has checked each
invariant, the inductive ones included, on the instances above.

**`GroupCommitProofs`**: for every number of clients and every size of operation and transaction (assumed:
finitely many clients, `MaxTxn >= MaxOp >= 1`, which 256 frames guarantee), `Spec => []Inv` and, from it,
`NoHalfOperation`, `OneCommitter`, `CommitDurable`, `CheckpointDurable`, `OvershootBounded`. None of these is inductive
by itself. `NoHalfOperation` needs that the gate's count *is* the number of operations (`GateInv`: its
cardinality argument), that a thread about to compare-and-swap remembers an open gate, and that whoever holds
`m_` past a check cannot meet a commit (`MutexInv`). Durability needs that every operation that ended is logged
or in one of the two transactions, that the committer's `covered` is exact, and what a waiter's target means
(`HistoryInv`, `CallInv`). The overshoot needs a count of blocks that may still come, those of clients that have
passed `fits()` and not yet entered included (`RoomInv`): whoever passes finds room for one operation, and from
then on what is promised is only used up.

**`LifecycleProofs`**: of `MountGate`, for every number of threads and slots and every assignment of slots, that no
call runs while `g_fs` is set, taken or destroyed. The invariant follows the comment in the source: a slot
holds the number of calls counted in it, so one that reads zero is empty; later calls find the gate closed; so
no call is inside a slot the drain has passed, and none at all at its end. Then `Lifecycle` implements
`MountGate` (each step is one of the gate's or invisible to it), so `NoCallMeetsChange` holds with the flusher
and the inside of mount and unmount in the picture, and from `StorageInv` (which member of `Storage` exists at
which step) `FlusherWithin`.

**`BufferCacheProofs`**: for any threads, frames and blocks, `Inv`, `NothingUncommittedOnDisk`, `NothingLost` and
`CleanMeansWritten`. `Inv` says who uses a frame (a pin is a thread or the write-back pass), that the map and
the frames agree, and, for the windows in `write_back`, what its copies are worth (`PickInv`): a copy is committed
once its frame has been seen outside a transaction, and current as long as the frame's version has not moved.

**`StorageProofs`**: for any set of blocks and contents and any number of transactions, checkpoints, mounts and
crashes, `Inv`, `RecoveryAtomic` and `CleanOwesNothing`, on two kinds of machine (`Separate`): those with kills and
errors of both files, and those with power failures and errors of `disk.img`. Power failures together with kills, or
with errors of the log, are left out because the claim is false there, as `storage_mixed` shows. The heart of the
invariant is `CrashInv`: for *every* prefix of the log (`Cuts`) and *every* superblock (`Found`) that a crash could
leave now, replaying it ends with an image that a crash may leave now (`Targets`), whatever became of blocks
that were not synced. It is kept by the other parts: lsns grow along the log and exceed the
superblock's until a checkpoint (`LsnInv`), the records of the transaction being written are the log's last and
hold its frames (`JobInv`), replayed records are on disk up to `pos` (`ReplayInv`), the log is empty and synced where
the code assumes it (`LogInv`), a superblock that says clean never meets a log that matters (`CleanInv`), and a
dirty frame is redone from every cut (`FrameInv`). There is one lemma per action; a crash step only
has to pick the cut and the superblock it left. An unmount or a mount that fails is a crash that loses nothing:
it keeps every cut and superblock, and what was owed then is owed by the next mount. On a machine with power failures
this needs that the log is synced wherever an error of `disk.img` can end the process's work (`LogInv`); a
COMMIT whose own sync failed is exactly what breaks it. `AgreeInv` adds that, but for the commit under way, all of
these cuts and superblocks lead to the *same* image, so a recovery that is interrupted does not change its mind.

With that, `Storage` implements `AtomicStore` (again under `Separate`). The mapped durable
image `View` is what `CrashInv` recovers from the synced part of the log; each lemma says what a step does to
`View`, to what a read returns, and to the phase. `BeginCommit` is the start of a commit that changes something,
`EndCommit` the write (kills) or the sync (power failures) of its COMMIT record.

**`FileSystemLocksProofs`**, **`FileSystemProofs`**, **`FileSystemRulesProofs`**: for any finite set of threads and names, any
paths, inodes, blocks, descriptors and number of calls, all the invariants of `file_system`. There are two
inductive invariants, one on top of the other; `Inv` is both. The run checks the first. TLC finds the second
to hold on the same instance too, but the claims of `BlockInv` take it as long as all the rest, so the run
checks what follows from it (`ConsistentAtRest`, `FoundIsThere`, `OpenIsThere`) and leaves it to the proof.

`SafeInv` holds whether or not blocks can be read (`IoErrors`), and gives `EntriesCounted` and `CacheCoherent`. Its
parts, in the order in which they need one another: where a call is and what its locals mean there
(`ShapeInv`); which descriptor is whose (`TableInv`); who holds which lock at which step, shared or exclusive
(`LockInv`); the references and open counts as sizes of sets of calls and descriptors (`EntriesCounted`);
that directories name a forest of inodes the allocator has given out, each at most once (`NameInv`); that what
a call makes or removes is its own, and what it has found is still named (`ThereInv`); that open files are
taken and no directories (`OpenInv`); and that the copy of an inode is not to be trusted while its blocks change
(`CopyInv`). The first module proves for each action what it does to the thread that takes it (`AEffect`), and that it
keeps the shape, the locks and counts, and the table (`AShape`, `ALocks`, `ATable`); the second that it keeps the tree
and the copies (`AData`, `AType`, `ASafe`). The lock rules do the work: a step that changes a directory or an inode
has its lock, so by `LockInv` no other call is where it would notice.

`RuleInv` holds when every block can be read; `file_system_rules` shows that without this the rules fail, so
the third module's theorems `FoundIsThere`, `OpenIsThere` and `ConsistentAtRest` assume `~IoErrors`. The rules of
`layout.h` are false in the middle of an operation. `RuleInv` says for each of them who owes the difference: an
inode that is taken but not in use, or in use but not named, is in the hands of a call that makes or removes
it (`UsedInv`, `KnownInv`); a link count is off by the one a call in `mkdir` or `rmdir` has not counted yet
(`LinkInv`); a directory with more entries than its size allows is one whose new block is not written to its
inode (`SizeInv`, `InoInv`: what a call has read of an inode, and changed, against what the table holds); and a
block belongs to exactly one *claim*: an inode, the block `mkdir` has set aside, the blocks `alloc_all` has taken so
far, or what an inode in a call's hands has and its table entry lacks (`BlockInv`). That everything is reached
from the root is said by closed sets (`TreeInv`): any set with the root that follows entries has every named
inode, which no step that adds or removes one leaf can break. With no operation running (`RunInv`) nobody owes
anything, and the rules are what is left.

**`MkfsProofs`**: for any sizes of the structures (at least two inodes and two entries to a block: inode 0 and
the root, "." and ".."), any devices and older images, any inode counts and any number of crashes, torn blocks and
wrong fields, `Inv` and `AllOrNothing`. Three arguments meet. The plan: `plan_layout` rounds the inode count up
to whole blocks of the table, so planning again for the rounded count, as `validate_superblock` does, finds the
same regions (`Replan`), and they lie one after the other below `data_start`. The image: a disk on which block 0
is the plan's superblock, the bitmaps are stored, and the table and the root's block are written (`Whole`) keeps
each rule of `layout.h` (`WholeIsConsistent`), so `Consistent` is reached and not assumed. The order: `PhaseInv` says
what is on the disk and what is durable after each step. The two barriers carry it: from the first sync on a
crash finds block 0 zeroed, whatever became of the rest, until the second has made all the rest
durable; only then may block 0 be the new superblock. The mutant of `image` that skips the first
barrier breaks exactly this.
The module also proves of `find_first_free`, which `FileData` and the allocator rest on, that it is exact
(`FirstFreeIsExact`): the lowest clear bit of the first word that is not full is the lowest of the map, and bits past
the map's end are never handed out.

Only model-checked: that fsck finds what the rules say (`FsckAgrees`), `FileData` and `CrashTest`; and all liveness,
which needs fairness and is beyond the proof system. What fsck's passes, the chunks of `FileData` and `Wal!scan`
compute are folds and recursive definitions, and those are beyond the installed provers for every input.

## What was found

1. *The room promised by `begin_op`* (`group_commit_promise`). `fits()` is checked on one value of the gate
   and the compare-and-swap succeeds on an equal count later; more operations join than fit. The
   overshoot is at most one operation per other client (`OvershootBounded`), which the cache absorbs.
2. *Recovery replays a COMMIT that is not durable* (`storage_mixed`). A process killed between writing
   COMMIT and its sync, then a power failure during the recovery, leaves half a transaction. So does a sync of
   COMMIT that fails: the commit and the unmount return -EIO, and the next mount replays what the failed sync left in
   the file. A sync of the log before the replay would close both. What is safe, and proved: kills with I/O errors of
   both files but no power failure, and power failures with errors of `disk.img` but none of the log and no kill.
3. *A read that fails half way* through create, unlink, mkdir, rmdir, O_TRUNC or write leaves part of the
   operation in the transaction, and the next commit makes it durable (`file_system_rules`).

Also seen:

- lsns are reused after a power failure took the end of the log (`recovery.cpp:52` restarts after the last
  record it found), contrary to the comments at `wal.h:36` and `storage.cpp:357`; recovery does not depend on it.
- The first barrier of a commit (the sync before COMMIT) can be dropped without breaking any property,
  because the scan stops at the first record that is torn or missing.
- An operation may write more than the 64 blocks that `storage.h:46` calls "The most distinct blocks one operation may
  write." and `fits()` counts on: an unlink or O_TRUNC writes one bitmap block for every bitmap block its file is
  spread over (`alloc.cpp:97`), and one covers 128 MB, so an image of more than about 8 GB is enough. All other blocks
  of an operation are bounded (`OperationBounded`): a chunk of a write has 16 data blocks, at most three
  indirect ones and the inode, and, as it takes at most 19 blocks, at most 19 bitmap blocks, so it stays below 64 on any image.
- fsck looks up the first 2^20 blocks of a directory (`fsck.cpp:228`), 1036 fewer than a file may have. A longer
  directory that keeps every rule is reported as having a hole, and its entries past that block are not checked.
  `FsckAgrees` says so: fsck passes the images that keep the rules and have no such directory. No damaged image passes.
- The EIO with which `free_blocks` answers a bad list is not reached: by `EveryBlockOwnedOnce` no list is bad.

## Not modelled

The mode without a journal; times, permissions and statistics; a bitmap block that cannot be read;
the limits of `link_count` and of the descriptor table at their real values (small ones are reached, the wrap of
the `uint16_t` included); splitting a path into names and the arithmetic of
CRC-32, which unit tests reach (the models take names, and checksums that tell records apart); the counters and
latency of `InstrumentedDevice`; the texts of errors and of fsck's report; the shell, the benchmark and the
tests other than the crash test, which have no state of their own.

## Plan

Done: the gate, storage, the cache, the file system's calls, the mount gate, the flusher and the life of a
mount, layout, mkfs and fsck, bytes, block map and directories, the log in sectors and the crash test; and the
proofs above. What is left to prove:

`CrashTest`: `TypeOK` and what the parent's verdict rests on; `FileData`: that no block is owned twice, apart from
what its folds compute.
