------------------------------- MODULE Storage -------------------------------
(***************************************************************************)
(* Crash safety: the cache, the write-ahead log, checkpoints, mounting and *)
(* recovery (src/storage.cpp, wal.cpp, recovery.cpp, buffer_cache.cpp),    *)
(* over two files a crash may damage.                                      *)
(*                                                                         *)
(* A process that is killed leaves both files as they were written; a      *)
(* power failure leaves only what was synced, and of the rest any part.    *)
(* `log` is what Wal::scan would return: the records up to the first one   *)
(* that is torn or missing. The superblock fits a sector, so its write is  *)
(* atomic. Which thread runs a commit is module GroupCommit's; here it     *)
(* starts when no operation is running, and none begins until it is over.  *)
(***************************************************************************)
EXTENDS Integers, Sequences, FiniteSets

CONSTANTS
    Blocks,             \* the blocks of disk.img, block 0 aside
    Values,             \* the contents of a block
    Zero,               \* what mkfs leaves in it
    Torn,               \* the content of a half-written block
    FailureModes,       \* the machines, each the set of failures it has (Failures)
    CheckpointRecords,  \* checkpoint_bytes_: a longer log is checkpointed
    MaxLsn, MaxCrashes, MaxRunning      \* bounds

ASSUME ValuesAssumption == Zero \in Values /\ Torn \notin Values
ASSUME BlocksAssumption == IsFiniteSet(Blocks)
\* A process is killed; power fails; a write or a sync of disk.img, or of the
\* log, returns an error.
Failures == {"kill", "power", "disk_io", "log_io"}
ASSUME FailuresAssumption == FailureModes \subseteq SUBSET Failures
ASSUME BoundsAssumption ==
    CheckpointRecords \in Nat /\ MaxLsn \in Nat /\ MaxCrashes \in Nat /\ MaxRunning \in Nat

VARIABLES
    \* disk.img, and the contents a power failure may bring back or tear
    disk, past, sb, sbPast,
    \* the log: its records, how many are synced, and the records an ftruncate
    \* not yet synced has removed (synced then counts those)
    log, synced, truncated,
    \* the cache and the running transaction
    frame, txn_blocks, running,
    \* the log's counters in memory
    next_lsn, durable_lsn,
    \* the thread that mounts, commits or unmounts, and its locals
    pc, job, pos,
    \* history: the image as of the last commit that returned, the image of the
    \* commit under way, failures so far
    stable, prep, crashes,
    \* which failures this machine has
    failures

image == <<disk, past>>
super == <<sb, sbPast>>
wal == <<log, synced, truncated>>
cache == <<frame, txn_blocks>>
lsns == <<next_lsn, durable_lsn>>
control == <<pc, job, pos>>
history == <<stable, prep, crashes>>
vars == <<image, super, wal, cache, running, lsns, control, history, failures>>

Contents == Values \cup {Torn}
NoFrame == [mapped |-> FALSE, dirty |-> FALSE, in_txn |-> FALSE, lsn |-> 0, data |-> Zero]
Loaded(v) == [NoFrame EXCEPT !.mapped = TRUE, !.data = v]
NoJob == [blocks |-> <<>>, txn |-> 0, ckpt |-> FALSE, closing |-> FALSE]

Record(type, txn, lsn) == [type |-> type, txn |-> txn, lsn |-> lsn]
BlockRecord(txn, lsn, b, v) ==
    [type |-> "BLOCK", txn |-> txn, lsn |-> lsn, block |-> b, data |-> v]

\* A log some other image left at this path.
StaleLog(b, v) == <<Record("BEGIN", 1, 1), BlockRecord(1, 2, b, v), Record("COMMIT", 1, 3)>>

Init ==
    /\ disk = [b \in Blocks |-> Zero] /\ past = [b \in Blocks |-> {}]
    /\ sb = [clean |-> TRUE, ckpt |-> 0] /\ sbPast = {}
    /\ log \in {<<>>} \cup {StaleLog(b, v) : b \in Blocks, v \in Values \ {Zero}}
    /\ synced = Len(log) /\ truncated = <<>>
    /\ frame = [b \in Blocks |-> NoFrame] /\ txn_blocks = <<>> /\ running = 0
    /\ next_lsn = 0 /\ durable_lsn = 0
    /\ pc = "down" /\ job = NoJob /\ pos = 0
    /\ stable = disk /\ prep = disk /\ crashes = 0 /\ failures \in FailureModes

-----------------------------------------------------------------------------
(* The two files. *)

DiskWrite(b, v) ==
    /\ disk' = [disk EXCEPT ![b] = v]
    /\ past' = [past EXCEPT ![b] = @ \cup {disk[b], Torn}]

WriteSuperblock(clean, ckpt) ==
    /\ sb' = [clean |-> clean, ckpt |-> ckpt]
    /\ sbPast' = sbPast \cup {sb}
    /\ UNCHANGED image

DeviceSync ==
    /\ past' = [b \in Blocks |-> {}]
    /\ sbPast' = {}
    /\ UNCHANGED <<disk, sb>>

LogAppend(r) == /\ log' = Append(log, r)
                /\ next_lsn' = r.lsn + 1

\* The transactions of which a log holds the COMMIT record.
Committed(l) == {l[i].txn : i \in {j \in DOMAIN l : l[j].type = "COMMIT"}}

\* The records of l that recovery writes to disk.img.
Redo(l, ckpt) ==
    LET committed == Committed(l)
    IN  {i \in DOMAIN l : l[i].lsn > ckpt /\ l[i].type = "BLOCK" /\ l[i].txn \in committed}

-----------------------------------------------------------------------------
(* Mounting: Storage::Impl and recover(). *)

Step(from, to) == pc = from /\ pc' = to

Mount ==
    /\ pc = "down"
    /\ IF sb.clean THEN pc' = "reset" /\ pos' = 0 ELSE pc' = "replay" /\ pos' = 1
    /\ UNCHANGED <<image, super, wal, cache, running, lsns, job, history>>

Replay ==
    /\ pc = "replay" /\ pos <= Len(log)
    /\ IF pos \in Redo(log, sb.ckpt) THEN DiskWrite(log[pos].block, log[pos].data)
       ELSE UNCHANGED image
    /\ pos' = pos + 1
    /\ UNCHANGED <<super, wal, cache, running, lsns, pc, job, history>>

ReplaySync ==
    /\ Step("replay", "replay_sb") /\ pos > Len(log)
    /\ pos' = 0
    /\ DeviceSync
    /\ UNCHANGED <<wal, cache, running, lsns, job, history>>

\* Everything up to the last lsn seen is in disk.img.
ReplaySuperblock ==
    /\ Step("replay_sb", "replay_sbsync")
    /\ WriteSuperblock(sb.clean, IF log # <<>> /\ log[Len(log)].lsn > sb.ckpt
                                 THEN log[Len(log)].lsn ELSE sb.ckpt)
    /\ UNCHANGED <<wal, cache, running, lsns, job, pos, history>>

ReplaySuperblockSync ==
    /\ Step("replay_sbsync", "reset")
    /\ DeviceSync
    /\ UNCHANGED <<wal, cache, running, lsns, job, pos, history>>

\* Wal::reset: of a mount, then of a checkpoint (below).
Truncate(from, to) ==
    /\ Step(from, to)
    /\ log' = <<>>
    /\ truncated' = IF log # <<>> THEN log ELSE truncated
    /\ UNCHANGED <<image, super, synced, cache, running, lsns, job, pos, history>>

TruncateSync(from, to) ==
    /\ Step(from, to)
    /\ truncated' = <<>> /\ synced' = 0
    /\ next_lsn' = sb.ckpt + 1 /\ durable_lsn' = sb.ckpt
    /\ UNCHANGED <<image, super, log, cache, running, job, pos, history>>

MarkInUse ==
    /\ Step("mark", "mark_sync")
    /\ WriteSuperblock(FALSE, sb.ckpt)
    /\ UNCHANGED <<wal, cache, running, lsns, job, pos, history>>

Mounted ==
    /\ Step("mark_sync", "up")
    /\ DeviceSync
    /\ stable' = disk /\ prep' = disk
    /\ UNCHANGED <<wal, cache, running, lsns, job, pos, crashes>>

-----------------------------------------------------------------------------
(* The cache, from the mount to the crash or unmount. *)

Recovering == {"down", "replay", "replay_sb", "replay_sbsync", "reset", "reset_sync",
               "mark", "mark_sync"}
Live == pc \notin Recovering
Current(b) == IF frame[b].mapped THEN frame[b].data ELSE disk[b]

\* Mutant: a transaction's frames may be written before it commits.
WritableInTxn(b) == (frame[b].dirty \/ frame[b].in_txn) /\ frame[b].lsn <= durable_lsn

\* A frame that may be written to disk.img: not in a transaction, and the log
\* holds the commit that last changed it.
Writable(b) == frame[b].dirty /\ ~frame[b].in_txn /\ frame[b].lsn <= durable_lsn

Load(b) ==
    /\ Live /\ ~frame[b].mapped
    /\ frame' = [frame EXCEPT ![b] = Loaded(disk[b])]
    /\ UNCHANGED <<image, super, wal, txn_blocks, running, lsns, control, history>>

\* The flusher's write_back, or a checkpoint's write_back_all.
WriteBack(b) ==
    /\ Live /\ Writable(b)
    /\ DiskWrite(b, frame[b].data)
    /\ frame' = [frame EXCEPT ![b].dirty = FALSE]
    /\ UNCHANGED <<super, wal, txn_blocks, running, lsns, control, history>>

\* take_frame gives b's frame to another block.
Evict(b) ==
    /\ Live /\ frame[b].mapped /\ ~frame[b].in_txn
    /\ \/ ~frame[b].dirty /\ UNCHANGED image
       \/ Writable(b) /\ DiskWrite(b, frame[b].data)
    /\ frame' = [frame EXCEPT ![b] = NoFrame]
    /\ UNCHANGED <<super, wal, txn_blocks, running, lsns, control, history>>

\* A write to disk.img fails half way; the frame stays dirty.
WriteBackFail(b) ==
    /\ "disk_io" \in failures
    /\ Live /\ Writable(b)
    /\ DiskWrite(b, Torn)
    /\ UNCHANGED <<super, wal, cache, running, lsns, control, history>>

-----------------------------------------------------------------------------
(* Operations. *)

BeginOp ==
    /\ pc = "up" /\ running < MaxRunning
    /\ running' = running + 1
    /\ UNCHANGED <<image, super, wal, cache, lsns, control, history>>

\* write(): the frame joins the transaction before its bytes change.
Write(b, v) ==
    /\ pc = "up" /\ running > 0
    /\ frame' = [frame EXCEPT ![b] = [@ EXCEPT !.mapped = TRUE, !.in_txn = TRUE, !.data = v]]
    /\ txn_blocks' = IF frame[b].in_txn THEN txn_blocks ELSE Append(txn_blocks, b)
    /\ UNCHANGED <<image, super, wal, running, lsns, control, history>>

EndOp ==
    /\ pc = "up" /\ running > 0
    /\ running' = running - 1
    /\ UNCHANGED <<image, super, wal, cache, lsns, control, history>>

-----------------------------------------------------------------------------
(* run_commit, write_txn, do_checkpoint, close. *)

\* A commit, a checkpoint (checkpoint_wanted) or close(), which checkpoints.
StartCommit(ckpt, closing) ==
    /\ pc = "up" /\ running = 0
    /\ closing => ckpt
    /\ next_lsn + Len(txn_blocks) + 1 <= MaxLsn
    /\ job' = [blocks |-> txn_blocks, txn |-> next_lsn, ckpt |-> ckpt, closing |-> closing]
    /\ pc' = IF txn_blocks = <<>> THEN "decide" ELSE "stage"
    /\ txn_blocks' = <<>>
    /\ prep' = [b \in Blocks |-> Current(b)]
    /\ UNCHANGED <<image, super, wal, frame, running, lsns, pos, stable, crashes>>

\* BEGIN, then a BLOCK for each frame; how many reach the file at a time does
\* not matter before the sync.
Stage ==
    /\ pc = "stage" /\ pos <= Len(job.blocks)
    /\ IF pos = 0 THEN LogAppend(Record("BEGIN", job.txn, next_lsn))
       ELSE LET b == job.blocks[pos] IN
            LogAppend(BlockRecord(job.txn, next_lsn, b, frame[b].data))
    /\ pos' = pos + 1
    /\ UNCHANGED <<image, super, synced, truncated, cache, running, durable_lsn, pc, job,
                   stable, prep, crashes>>

\* Mutant: durable_lsn moves, but there is no fsync.
LogSyncNot(from, to) ==
    /\ Step(from, to)
    /\ durable_lsn' = next_lsn - 1
    /\ pos' = 0
    /\ UNCHANGED <<image, super, wal, cache, running, next_lsn, job, history>>

\* Wal::sync, after the blocks and after the COMMIT record.
LogSync(from, to) ==
    /\ Step(from, to)
    /\ synced' = Len(log) /\ durable_lsn' = next_lsn - 1
    /\ pos' = 0
    /\ UNCHANGED <<image, super, log, truncated, cache, running, next_lsn, job, history>>

StageSync == pos > Len(job.blocks) /\ LogSync("stage", "append")

AppendCommit ==
    /\ Step("append", "commit_sync")
    /\ LogAppend(Record("COMMIT", job.txn, next_lsn))
    /\ UNCHANGED <<image, super, synced, truncated, cache, running, durable_lsn, job, pos,
                   stable, prep, crashes>>

CommitSync == LogSync("commit_sync", "frames")

\* commit_frame for every block; only now may they be written back.
CommitFrames ==
    /\ Step("frames", "decide")
    /\ frame' = [b \in Blocks |->
                    IF \E i \in DOMAIN job.blocks : job.blocks[i] = b
                    THEN [frame[b] EXCEPT !.in_txn = FALSE, !.dirty = TRUE, !.lsn = next_lsn - 1]
                    ELSE frame[b]]
    /\ UNCHANGED <<image, super, wal, txn_blocks, running, lsns, job, pos, history>>

\* Mutant: a checkpoint that was asked for is skipped while the log is short.
DecideBySize ==
    /\ pc = "decide"
    /\ pc' = IF Len(log) > CheckpointRecords THEN "write_back" ELSE "publish"
    /\ UNCHANGED <<image, super, wal, cache, running, lsns, job, pos, history>>

Decide ==
    /\ pc = "decide"
    /\ pc' = IF job.ckpt \/ Len(log) > CheckpointRecords THEN "write_back" ELSE "publish"
    /\ UNCHANGED <<image, super, wal, cache, running, lsns, job, pos, history>>

\* Mutant: the blocks are not synced before the superblock says they are there.
CheckpointNoSync ==
    /\ Step("write_back", "ckpt_sb")
    /\ \A b \in Blocks : ~Writable(b)
    /\ UNCHANGED <<image, super, wal, cache, running, lsns, job, pos, history>>

\* write_back_all has written every frame that may be written; then a sync.
CheckpointSync ==
    /\ Step("write_back", "ckpt_sb")
    /\ \A b \in Blocks : ~Writable(b)
    /\ DeviceSync
    /\ UNCHANGED <<wal, cache, running, lsns, job, pos, history>>

CheckpointSuperblock ==
    /\ Step("ckpt_sb", "ckpt_sbsync")
    /\ WriteSuperblock(sb.clean, next_lsn - 1)
    /\ UNCHANGED <<wal, cache, running, lsns, job, pos, history>>

CheckpointSuperblockSync ==
    /\ Step("ckpt_sbsync", "ckpt_reset")
    /\ DeviceSync
    /\ UNCHANGED <<wal, cache, running, lsns, job, pos, history>>

\* The commit is over: it, or the checkpoint or close() it was for, returns.
Publish ==
    /\ pc = "publish"
    /\ pc' = IF job.closing THEN "close_sb" ELSE "up"
    /\ job' = NoJob
    /\ stable' = prep
    /\ UNCHANGED <<image, super, wal, cache, running, lsns, pos, prep, crashes>>

CloseSuperblock ==
    /\ Step("close_sb", "close_sync")
    /\ WriteSuperblock(TRUE, sb.ckpt)
    /\ UNCHANGED <<wal, cache, running, lsns, job, pos, history>>

\* The process lets go of everything it has in memory.
Forget ==
    /\ frame' = [b \in Blocks |-> NoFrame] /\ txn_blocks' = <<>> /\ running' = 0
    /\ next_lsn' = 0 /\ durable_lsn' = 0
    /\ pc' = "down" /\ job' = NoJob /\ pos' = 0

Closed ==
    /\ pc = "close_sync"
    /\ DeviceSync
    /\ Forget
    /\ UNCHANGED <<wal, history>>

-----------------------------------------------------------------------------
(* Failures. *)

\* An error while the transaction is written, and one after it is in the log.
InTransaction == {"stage", "append", "commit_sync", "frames"}
InCheckpoint == {"decide", "write_back", "ckpt_sb", "ckpt_sbsync", "ckpt_reset",
                 "ckpt_resetsync"}

\* The write or the sync that is next may fail: of the log, or of disk.img.
LogSteps == {"stage", "append", "commit_sync", "ckpt_reset", "ckpt_resetsync", "reset",
             "reset_sync"}
IoError == (IF pc \in LogSteps THEN "log_io" ELSE "disk_io") \in failures

\* Only writes and syncs can fail, not the marking of frames or the decision.
CommitError ==
    /\ IoError
    /\ \/ pc \in InTransaction \ {"frames"} /\ pc' = "failed_txn"
       \/ pc \in InCheckpoint \ {"decide"} /\ pc' = "failed_ckpt"
    /\ UNCHANGED <<image, super, wal, cache, running, lsns, job, pos, history>>

\* close() throws: its checkpoint does, after a commit that failed, or its write
\* or sync of the superblock. The unmount returns -EIO, and the files stay as
\* they are.
CloseFailed ==
    /\ \/ pc \in {"failed_txn", "failed_ckpt"}
       \/ IoError /\ pc \in {"close_sb", "close_sync"}
    /\ Forget
    /\ UNCHANGED <<image, super, wal, history>>

\* Until then every call that needs the gate throws the error again.
Rejected == pc \in {"failed_txn", "failed_ckpt"} /\ UNCHANGED vars

\* A block whose write may be under way.
Writing(b) == \/ Live /\ Writable(b)
              \/ pc = "replay" /\ pos \in Redo(log, sb.ckpt) /\ log[pos].block = b

\* recover(), the log's reset or the marking of the image throws, and so does
\* the mount; the block being replayed may be half written.
MountFailed ==
    /\ IoError /\ pc \in Recovering \ {"down"}
    /\ \/ UNCHANGED image
       \/ \E b \in Blocks : Writing(b) /\ DiskWrite(b, Torn)
    /\ Forget
    /\ UNCHANGED <<super, wal, history>>

Kill ==
    /\ "kill" \in failures /\ crashes < MaxCrashes /\ pc # "down"
    /\ \/ UNCHANGED image
       \/ \E b \in Blocks : Writing(b) /\ DiskWrite(b, Torn)
    /\ Forget
    /\ crashes' = crashes + 1
    /\ UNCHANGED <<super, wal, stable, prep>>

PowerFail ==
    /\ "power" \in failures /\ crashes < MaxCrashes
    /\ disk' \in [Blocks -> Contents]
    /\ \A b \in Blocks : disk'[b] \in {disk[b]} \cup past[b]
    /\ sb' \in {sb} \cup sbPast
    /\ LET old == IF truncated # <<>> THEN truncated ELSE log IN
       \/ \E n \in synced..Len(old) : log' = SubSeq(old, 1, n)
       \/ truncated # <<>> /\ log' = <<>>
    /\ synced' = Len(log') /\ truncated' = <<>>
    /\ past' = [b \in Blocks |-> {}] /\ sbPast' = {}
    /\ Forget
    /\ crashes' = crashes + 1
    /\ UNCHANGED <<stable, prep>>

-----------------------------------------------------------------------------
Mounting == \/ Mount \/ Replay \/ ReplaySync \/ ReplaySuperblock \/ ReplaySuperblockSync
            \/ Truncate("reset", "reset_sync") \/ TruncateSync("reset_sync", "mark")
            \/ MarkInUse \/ Mounted
Cache == \E b \in Blocks : Load(b) \/ WriteBack(b) \/ Evict(b) \/ WriteBackFail(b)
Operation == BeginOp \/ EndOp \/ \E b \in Blocks, v \in Values : Write(b, v)
Commit == \/ \E ckpt, closing \in BOOLEAN : StartCommit(ckpt, closing)
          \/ Stage \/ StageSync \/ AppendCommit \/ CommitSync \/ CommitFrames \/ Decide
          \/ CheckpointSync \/ CheckpointSuperblock \/ CheckpointSuperblockSync
          \/ Truncate("ckpt_reset", "ckpt_resetsync")
          \/ TruncateSync("ckpt_resetsync", "publish")
          \/ Publish \/ CloseSuperblock \/ Closed
Failure == CommitError \/ Rejected \/ CloseFailed \/ MountFailed \/ Kill \/ PowerFail

Next == (Mounting \/ Cache \/ Operation \/ Commit \/ Failure) /\ UNCHANGED failures

Spec == Init /\ [][Next]_vars

-----------------------------------------------------------------------------
(* Properties *)

Labels == Recovering \cup InTransaction \cup InCheckpoint \cup
          {"up", "publish", "close_sb", "close_sync", "failed_txn", "failed_ckpt"}
Superblocks == [clean : BOOLEAN, ckpt : Nat]
Frames == [mapped : BOOLEAN, dirty : BOOLEAN, in_txn : BOOLEAN, lsn : Nat, data : Contents]
Records == [type : {"BEGIN", "COMMIT"}, txn : Nat, lsn : Nat] \cup
           [type : {"BLOCK"}, txn : Nat, lsn : Nat, block : Blocks, data : Contents]
Jobs == [blocks : Seq(Blocks), txn : Nat, ckpt : BOOLEAN, closing : BOOLEAN]

\* The type of every variable.
TypeOK ==
    /\ disk \in [Blocks -> Contents] /\ past \in [Blocks -> SUBSET Contents]
    /\ sb \in Superblocks /\ sbPast \subseteq Superblocks
    /\ log \in Seq(Records) /\ synced \in Nat /\ truncated \in Seq(Records)
    /\ frame \in [Blocks -> Frames] /\ txn_blocks \in Seq(Blocks)
    /\ running \in Nat /\ next_lsn \in Nat /\ durable_lsn \in Nat
    /\ pc \in Labels /\ job \in Jobs /\ pos \in Nat
    /\ stable \in [Blocks -> Contents] /\ prep \in [Blocks -> Contents]
    /\ crashes \in Nat /\ failures \in FailureModes

\* Whatever failed, and however often, a mount (recover() in src/recovery.cpp)
\* leaves the image of the last commit that returned, or that of the commit
\* that was under way: all of it or nothing of it.
RecoveryAtomic == pc = "mark" => disk \in {stable, prep}

\* copy_txn_frame and commit_frame (src/buffer_cache.cpp) never meet a frame
\* that is not in the transaction, so their logic_error is never thrown.
CommitFindsFrames == pc \in InTransaction =>
    \A i \in DOMAIN job.blocks : frame[job.blocks[i]].mapped /\ frame[job.blocks[i]].in_txn

\* An image marked clean owes the log nothing: whenever the next mount may find
\* clean_unmount set, and so throw the log away, disk.img durably holds the
\* image of the last commit (Storage::Impl in src/storage.cpp).
CleanOwesNothing == \A s \in {sb} \cup sbPast : s.clean =>
    \A b \in Blocks : disk[b] = stable[b] /\ past[b] = {}

\* What a checkpoint or a recovery says is in disk.img is there, durably: no
\* content that a power failure could lose or tear belongs to a block whose
\* committed content the log no longer holds for replay (do_checkpoint).
UnsyncedIsLogged == Live => \A b \in Blocks :
    past[b] # {} => \E i \in Redo(log, sb.ckpt) : log[i].block = b

\* A dirty frame outside the transaction is the image of a committed block, and
\* the log can redo it until a checkpoint has written it (commit_frame).
DirtyIsLogged == Live => \A b \in Blocks : frame[b].dirty /\ ~frame[b].in_txn =>
    \E i \in Redo(log, sb.ckpt) : log[i].block = b /\ log[i].data = frame[b].data

(* The inductive invariant that module StorageProofs proves; the properties
   above are what it is for. *)

\* What a crash may leave of the files: prefixes of the records that were in the
\* log, all of them unless power fails, and one of the superblocks.
OldLog == IF truncated # <<>> THEN truncated ELSE log
Cuts == IF "power" \in failures
        THEN (synced..Len(OldLog)) \cup {n \in {0} : truncated # <<>>}
        ELSE {Len(log)}
Found == {sb} \cup sbPast

\* The records for b that recovery redoes if it finds the first n.
Redone(n, ckpt, b) ==
    {i \in 1..n : /\ OldLog[i].type = "BLOCK" /\ OldLog[i].block = b /\ OldLog[i].lsn > ckpt
                  /\ \E j \in 1..n : OldLog[j].type = "COMMIT" /\ OldLog[j].txn = OldLog[i].txn}

\* Recovery from them ends with image T, whatever became of unsynced blocks: the
\* last record redone has T's content, and a block without one is on disk.
Recovers(n, ckpt, T) == \A b \in Blocks :
    LET R == Redone(n, ckpt, b) IN
    \/ R = {} /\ disk[b] = T[b] /\ past[b] = {}
    \/ \E i \in R : (\A j \in R : j <= i) /\ OldLog[i].data = T[b]

\* The image that a crash now must leave: the commit under way counts from the
\* moment its COMMIT record can survive.
After == InCheckpoint \cup {"frames", "publish", "failed_ckpt"}
Targets(n) ==
    IF pc \in Recovering \cup {"failed_txn"} THEN {stable, prep}
    ELSE IF pc \in After \/ (pc = "commit_sync" /\ n = Len(log)) THEN {prep}
    ELSE {stable}
CrashInv == \A n \in Cuts : \A s \in Found :
    ~s.clean => \E T \in Targets(n) : Recovers(n, s.ckpt, T)

\* Recovery under way: what it has redone so far is on disk; then the image is
\* whole, and stays so until the mount is over.
ReplayInv ==
    /\ pc = "replay" => ~sb.clean /\ pos \in 1..(Len(log) + 1)
    /\ pc \notin {"replay", "stage", "failed_txn"} => pos = 0
    /\ pc \in {"replay", "replay_sb"} => \A b \in Blocks :
          \A i \in Redone(Len(log), sb.ckpt, b) :
             (/\ pc = "replay" => i < pos
              /\ \A j \in Redone(Len(log), sb.ckpt, b) : (pc = "replay" => j < pos) => j <= i)
             => disk[b] = log[i].data
    /\ pc \in {"replay_sb", "replay_sbsync", "mark_sync"} => ~sb.clean
    /\ pc = "replay_sb" => sbPast = {}
    /\ pc \in Recovering \ {"down", "replay"} =>
          disk \in {stable, prep} /\ \A b \in Blocks : past[b] = {}

\* The transaction being written: its frames, and its records, which are the
\* log's last.
InJob(b) == \E k \in DOMAIN job.blocks : job.blocks[k] = b
JobInv ==
    /\ pc \in InTransaction \cup {"failed_txn"} =>
          \A b \in Blocks : ~frame[b].in_txn => prep[b] = stable[b]
    /\ pc \in InTransaction => \A b \in Blocks :
          (frame[b].in_txn <=> InJob(b)) /\ (InJob(b) => frame[b].data = prep[b])
    /\ pc \in InTransaction => job.txn <= next_lsn /\ \A i \in DOMAIN log :
          /\ (log[i].txn = job.txn <=> log[i].lsn >= job.txn)
          /\ log[i].txn = job.txn /\ log[i].type = "BLOCK" =>
                InJob(log[i].block) /\ log[i].data = prep[log[i].block]
          /\ log[i].txn = job.txn /\ log[i].type = "COMMIT" => pc \in {"commit_sync", "frames"}
    /\ pc \in InTransaction => \A k \in DOMAIN job.blocks :
          (pc = "stage" => k < pos) =>
             \E i \in DOMAIN log : /\ log[i].type = "BLOCK" /\ log[i].txn = job.txn
                                   /\ log[i].block = job.blocks[k]
    /\ pc \in {"commit_sync", "frames"} =>
          \E i \in DOMAIN log : log[i].type = "COMMIT" /\ log[i].txn = job.txn
    /\ job.closing => job.ckpt

\* lsns grow along the log; while mounted they exceed what the superblock says is
\* in disk.img, until a checkpoint has written the superblock and not the log yet.
LsnInv ==
    /\ \A i, j \in DOMAIN OldLog : i < j => OldLog[i].lsn < OldLog[j].lsn
    /\ \A s \in sbPast : s.ckpt <= sb.ckpt
    /\ Live => /\ \A i \in DOMAIN log : log[i].lsn < next_lsn /\ log[i].txn < next_lsn
               /\ durable_lsn < next_lsn /\ sb.ckpt < next_lsn
    /\ Live /\ pc \notin {"ckpt_sbsync", "ckpt_reset", "ckpt_resetsync", "failed_ckpt"} =>
          \A i \in DOMAIN log : log[i].lsn > sb.ckpt
    /\ pc = "frames" => durable_lsn = next_lsn - 1
    /\ pc \in {"mark", "mark_sync"} => next_lsn = sb.ckpt + 1 /\ durable_lsn = sb.ckpt
    /\ pc \in {"ckpt_sbsync", "ckpt_reset", "ckpt_resetsync"} => sb.ckpt = next_lsn - 1
    /\ pc \in {"ckpt_reset", "ckpt_resetsync"} => sbPast = {}

\* Where the log is empty, and what of it is synced.
Emptied == pc \in {"mark", "mark_sync", "close_sb", "close_sync"} \/ (pc = "publish" /\ job.ckpt)
LogInv ==
    /\ truncated # <<>> => log = <<>>
    /\ pc \in {"reset_sync", "ckpt_resetsync"} => log = <<>>
    /\ Emptied => log = <<>> /\ truncated = <<>>
    /\ Live /\ pc \notin {"ckpt_resetsync", "failed_ckpt"} => truncated = <<>>
    /\ "power" \in failures =>
          /\ synced <= Len(OldLog) /\ pc # "failed_txn"
          /\ pc \notin {"reset_sync", "ckpt_resetsync"} => truncated = <<>>
          /\ pc \notin {"stage", "append", "commit_sync", "reset_sync", "ckpt_resetsync"} =>
                synced = Len(log)

\* A superblock that says clean is found only around a mount or an unmount, and
\* next to one that does not only with an empty log.
CleanInv == \A s \in Found : s.clean =>
    /\ pc \in Recovering \cup {"close_sync"}
    /\ \/ \A r \in Found : r.clean
       \/ log = <<>> /\ ("power" \in failures => truncated = <<>>)

\* The frames, and what of them is on disk or in the log.
Image == IF pc \in InCheckpoint \cup {"publish", "failed_ckpt"} THEN prep ELSE stable
Written == \/ pc \in {"ckpt_sb", "ckpt_sbsync", "ckpt_reset", "ckpt_resetsync"}
           \/ Emptied /\ Live
FrameOK(b) ==
    /\ frame[b].in_txn \/ frame[b].dirty => frame[b].mapped
    /\ frame[b].mapped /\ ~frame[b].in_txn => frame[b].data = Image[b]
    /\ ~frame[b].dirty => disk[b] = Image[b]
    /\ frame[b].dirty => /\ frame[b].lsn <= durable_lsn
                         /\ \A n \in Cuts : \A s \in Found : ~s.clean /\ Redone(n, s.ckpt, b) # {}
    /\ pc = "up" => (frame[b].in_txn <=> \E k \in DOMAIN txn_blocks : txn_blocks[k] = b)
    /\ frame[b].in_txn => pc \in InTransaction \cup {"up", "failed_txn"}
    /\ Written => ~frame[b].dirty /\ past[b] = {}
FrameInv ==
    /\ ~Live => \A b \in Blocks : frame[b] = NoFrame
    /\ pc # "up" => txn_blocks = <<>> /\ running = 0
    /\ Live => \A b \in Blocks : FrameOK(b)

\* All that a crash may leave leads to one image, but for the commit under way:
\* a recovery that is interrupted does not change its mind.
AgreeInv ==
    /\ pc \in Recovering \ {"down", "replay"} =>
          \A n \in Cuts : \A s \in Found : ~s.clean => Recovers(n, s.ckpt, disk)
    /\ pc = "failed_txn" => \A b \in Blocks : frame[b].in_txn => frame[b].data = prep[b]
    /\ "power" \in failures =>
          /\ pc \in {"down", "replay"} => \E T \in {stable, prep} :
                \A n \in Cuts : \A s \in Found : ~s.clean => Recovers(n, s.ckpt, T)
          /\ pc = "commit_sync" => synced < Len(log)

\* The types, and what the log and the frames say of one another.
Inv == /\ TypeOK /\ CommitFindsFrames /\ UnsyncedIsLogged /\ DirtyIsLogged
       /\ CrashInv /\ ReplayInv /\ JobInv /\ LsnInv /\ LogInv /\ CleanInv /\ FrameInv
       /\ AgreeInv

-----------------------------------------------------------------------------
(* Storage implements AtomicStore. *)

\* The log as a crash is sure to leave it.
SafeLog == LET l == IF truncated # <<>> /\ "power" \in failures THEN truncated ELSE log
           IN  IF "power" \in failures THEN SubSeq(l, 1, synced) ELSE l

\* The image as recovery would leave it: disk.img with SafeLog replayed.
View ==
    LET safe == SafeLog
        redo == Redo(safe, sb.ckpt)
    IN  [b \in Blocks |->
            LET R == {i \in redo : safe[i].block = b}
            IN  IF sb.clean \/ R = {} THEN disk[b]
                ELSE safe[CHOOSE i \in R : \A j \in R : j <= i].data]

Store == INSTANCE AtomicStore WITH
    mem <- IF Live THEN [b \in Blocks |-> Current(b)] ELSE View,
    stable <- View,
    running <- running,
    phase <- IF ~Live THEN "down"
             ELSE IF pc \in InTransaction \cup {"failed_txn"} /\ View # prep
                  THEN "committing" ELSE "up"

\* The storage layer as a whole promises what AtomicStore says: reads return
\* the last write, and a crash keeps whole transactions only.
ImplementsAtomicStore == Store!Spec
=============================================================================
