---------------------------- MODULE StorageProofs ----------------------------
(***************************************************************************)
(* Proofs about Storage, for every set of blocks and contents and any      *)
(* number of transactions, checkpoints, mounts, failed writes and crashes: *)
(* a mount finds whole transactions only, and a clean image owes nothing   *)
(* to the log; and Storage implements AtomicStore. A machine whose power   *)
(* fails has neither kills nor errors of the log, only of disk.img         *)
(* (Separate): run storage_mixed shows what they can do together.          *)
(***************************************************************************)
EXTENDS Storage, TLAPS, SequenceTheorems, WellFoundedInduction

\* Where power fails no process ends with a COMMIT record written and not synced.
Separate == \A m \in FailureModes : "power" \in m => "kill" \notin m /\ "log_io" \notin m

\* The inductive invariant: Inv without the parts that follow from the rest, and
\* CleanOwesNothing.
Core == /\ TypeOK /\ CrashInv /\ ReplayInv /\ JobInv /\ LsnInv /\ LogInv /\ CleanInv /\ FrameInv
        /\ CleanOwesNothing

-----------------------------------------------------------------------------
(* Records, sequences, and what recovery would redo. *)

\* A set of indices that is not empty has a last one.
LEMMA LastExists ==
  ASSUME NEW n \in Nat, NEW R \in SUBSET (1..n), R # {}
  PROVE  \E i \in R : \A j \in R : j <= i
<1> DEFINE T == {n - i : i \in R}
<1>1. T \subseteq Nat /\ T # {}
  <2>1. \A i \in R : i \in 1..n OBVIOUS
  <2>2. \A i \in R : n - i \in Nat BY <2>1
  <2> QED BY <2>2
<1> HIDE DEF T
<1>2. IsWellFoundedOn(OpToRel(<, Nat), Nat) BY NatLessThanWellFounded
<1>3. PICK x \in T : \A y \in T : ~(<<y, x>> \in OpToRel(<, Nat)) BY <1>1, <1>2, WFMin
<1>4. \A y \in T : x <= y
  <2> SUFFICES ASSUME NEW y \in T, y < x PROVE FALSE BY <1>1
  <2>1. y \in Nat /\ x \in Nat BY <1>1
  <2>2. <<y, x>> \in OpToRel(<, Nat) BY <2>1 DEF OpToRel
  <2> QED BY <1>3, <2>2
<1>5. PICK i \in R : x = n - i BY <1>3 DEF T
<1>6. \A j \in R : n - j \in T BY DEF T
<1>7. \A j \in R : j <= i BY <1>4, <1>5, <1>6
<1> QED BY <1>7

\* The fields of a record.
LEMMA RecordFields ==
  ASSUME NEW r \in Records
  PROVE  /\ r.type \in {"BEGIN", "COMMIT", "BLOCK"} /\ r.txn \in Nat /\ r.lsn \in Nat
         /\ r.type = "BLOCK" => r.block \in Blocks /\ r.data \in Contents
BY DEF Records

\* What the log holds, or held before it was truncated.
LEMMA OldLogType ==
  ASSUME TypeOK
  PROVE  /\ OldLog \in Seq(Records) /\ Len(OldLog) \in Nat /\ DOMAIN OldLog = 1..Len(OldLog)
         /\ log \in Seq(Records) /\ Len(log) \in Nat /\ DOMAIN log = 1..Len(log)
         /\ \A i \in 1..Len(OldLog) : OldLog[i] \in Records
         /\ \A i \in 1..Len(log) : log[i] \in Records
         /\ truncated = <<>> => OldLog = log
<1>1. OldLog \in Seq(Records) /\ log \in Seq(Records) BY DEF TypeOK, OldLog
<1> QED BY <1>1, LenProperties DEF OldLog

\* Every record that may be redone is one of the log's, of that block.
LEMMA RedoneIn ==
  ASSUME NEW n, NEW c, NEW b, NEW i \in Redone(n, c, b)
  PROVE  /\ i \in 1..n /\ OldLog[i].type = "BLOCK" /\ OldLog[i].block = b /\ OldLog[i].lsn > c
         /\ \E j \in 1..n : OldLog[j].type = "COMMIT" /\ OldLog[j].txn = OldLog[i].txn
BY DEF Redone

\* Nothing is redone from no records.
LEMMA NothingRedone == \A c, b : Redone(0, c, b) = {}
BY DEF Redone

\* A superblock that covers more has less redone.
LEMMA LaterRedoesLess ==
  ASSUME TypeOK, NEW n \in Nat, n <= Len(OldLog), NEW c \in Nat, NEW d \in Nat, c <= d, NEW b
  PROVE  Redone(n, d, b) \subseteq Redone(n, c, b)
BY OldLogType, RecordFields DEF Redone

\* Logs that agree on the first n records redo the same of them.
LEMMA SameRedone ==
  ASSUME NEW n, \A i \in 1..n : OldLog'[i] = OldLog[i]
  PROVE  \A c, b : Redone(n, c, b)' = Redone(n, c, b)
BY DEF Redone

\* A step that leaves the log file alone.
LEMMA SameWal ==
  ASSUME UNCHANGED <<wal, failures>>
  PROVE  /\ OldLog' = OldLog /\ Cuts' = Cuts
         /\ \A n, c, b : Redone(n, c, b)' = Redone(n, c, b)
<1>1. OldLog' = OldLog BY DEF OldLog, wal
<1> QED BY <1>1, SameRedone DEF Cuts, wal

-----------------------------------------------------------------------------
(* Types *)

\* A block of disk.img is written.
LEMMA DiskWriteType ==
  ASSUME TypeOK, NEW b \in Blocks, NEW v \in Contents, DiskWrite(b, v)
  PROVE  /\ disk' \in [Blocks -> Contents] /\ past' \in [Blocks -> SUBSET Contents]
         /\ \A c \in Blocks : c # b => disk'[c] = disk[c] /\ past'[c] = past[c]
         /\ disk'[b] = v
BY DEF TypeOK, DiskWrite, Contents

\* disk.img is synced.
LEMMA DeviceSyncType ==
  ASSUME TypeOK, DeviceSync
  PROVE  /\ disk' = disk /\ sb' = sb /\ sbPast' = {} /\ past' \in [Blocks -> SUBSET Contents]
         /\ \A b \in Blocks : past'[b] = {}
BY DEF TypeOK, DeviceSync

\* The superblock is written.
LEMMA SuperblockType ==
  ASSUME TypeOK, NEW clean \in BOOLEAN, NEW ckpt \in Nat, WriteSuperblock(clean, ckpt)
  PROVE  /\ sb' = [clean |-> clean, ckpt |-> ckpt] /\ sb'.clean = clean /\ sb'.ckpt = ckpt
         /\ sb' \in Superblocks /\ sbPast' = sbPast \cup {sb} /\ sbPast' \subseteq Superblocks
         /\ disk' = disk /\ past' = past
BY DEF TypeOK, WriteSuperblock, Superblocks, image

\* The fields of a frame.
LEMMA FrameFields ==
  ASSUME TypeOK, NEW b \in Blocks
  PROVE  /\ frame[b].mapped \in BOOLEAN /\ frame[b].dirty \in BOOLEAN /\ frame[b].in_txn \in BOOLEAN
         /\ frame[b].lsn \in Nat /\ frame[b].data \in Contents
BY DEF TypeOK, Frames

\* The empty frame and a frame just loaded.
LEMMA NoFrameFields ==
  /\ NoFrame \in Frames /\ ~NoFrame.mapped /\ ~NoFrame.dirty /\ ~NoFrame.in_txn
  /\ \A v \in Contents : /\ Loaded(v) \in Frames /\ Loaded(v).mapped /\ ~Loaded(v).dirty
                         /\ ~Loaded(v).in_txn /\ Loaded(v).data = v
<1>1. Zero \in Contents BY ValuesAssumption DEF Contents
<1> QED BY <1>1 DEF NoFrame, Loaded, Frames

\* The process forgets everything.
LEMMA ForgetType ==
  ASSUME Forget
  PROVE  /\ frame' \in [Blocks -> Frames] /\ txn_blocks' = <<>> /\ txn_blocks' \in Seq(Blocks)
         /\ running' = 0 /\ next_lsn' = 0 /\ durable_lsn' = 0 /\ pos' = 0
         /\ pc' = "down" /\ job' = NoJob /\ NoJob \in Jobs /\ ~NoJob.closing
         /\ \A b \in Blocks : frame'[b] = NoFrame
BY NoFrameFields, EmptySeq DEF Forget, NoJob, Jobs

\* Mounting keeps the types.
LEMMA MountingType ==
  ASSUME Core, Mounting, UNCHANGED failures
  PROVE  TypeOK'
<1>0. TypeOK /\ ReplayInv BY DEF Core
<1> USE <1>0 DEF Labels, Recovering
<1>1. CASE Mount BY <1>1 DEF Mount, TypeOK, image, super, wal, cache, lsns, history
<1>2. CASE Replay
  <2>1. disk' \in [Blocks -> Contents] /\ past' \in [Blocks -> SUBSET Contents]
    <3>1. CASE pos \in Redo(log, sb.ckpt)
      <4>1. log[pos] \in Records /\ log[pos].type = "BLOCK" BY <3>1, OldLogType DEF Redo
      <4> QED BY <1>2, <3>1, <4>1, RecordFields, DiskWriteType DEF Replay
    <3>2. CASE pos \notin Redo(log, sb.ckpt) BY <1>2, <3>2 DEF Replay, TypeOK, image
    <3> QED BY <3>1, <3>2
  <2> QED BY <1>2, <2>1 DEF Replay, TypeOK, super, wal, cache, lsns, history
<1>3. CASE ReplaySync \/ ReplaySuperblockSync
  BY <1>3, DeviceSyncType DEF ReplaySync, ReplaySuperblockSync, Step, TypeOK, wal, cache, lsns, history
<1>4. CASE ReplaySuperblock
  <2> DEFINE c == IF log # <<>> /\ log[Len(log)].lsn > sb.ckpt THEN log[Len(log)].lsn ELSE sb.ckpt
  <2>1. c \in Nat
    <3>1. log # <<>> => Len(log) \in 1..Len(log) BY OldLogType, EmptySeq
    <3> QED BY <3>1, OldLogType, RecordFields DEF TypeOK, Superblocks
  <2>2. WriteSuperblock(sb.clean, c) BY <1>4 DEF ReplaySuperblock
  <2>3. sb.clean \in BOOLEAN BY DEF TypeOK, Superblocks
  <2> HIDE DEF c
  <2> QED BY <1>4, <2>1, <2>2, <2>3, SuperblockType
      DEF ReplaySuperblock, Step, TypeOK, wal, cache, lsns, history
<1>5. CASE Truncate("reset", "reset_sync")
  BY <1>5, EmptySeq DEF Truncate, Step, TypeOK, image, super, cache, lsns, history
<1>6. CASE TruncateSync("reset_sync", "mark")
  BY <1>6, EmptySeq DEF TruncateSync, Step, TypeOK, Superblocks, image, super, cache, lsns, history
<1>7. CASE MarkInUse
  <2>1. sb.ckpt \in Nat BY DEF TypeOK, Superblocks
  <2> QED BY <1>7, <2>1, SuperblockType DEF MarkInUse, Step, TypeOK, wal, cache, lsns, history
<1>8. CASE Mounted
  BY <1>8, DeviceSyncType DEF Mounted, Step, TypeOK, wal, cache, lsns
<1> QED BY <1>1, <1>2, <1>3, <1>4, <1>5, <1>6, <1>7, <1>8 DEF Mounting

\* The cache's own steps, and those of operations, keep the types.
LEMMA CacheType ==
  ASSUME TypeOK, Cache \/ Operation, UNCHANGED failures
  PROVE  TypeOK'
<1>1. ASSUME NEW b \in Blocks, Load(b) PROVE TypeOK'
  <2>1. Loaded(disk[b]) \in Frames BY NoFrameFields DEF TypeOK
  <2> QED BY <1>1, <2>1 DEF Load, TypeOK, image, super, wal, lsns, control, history
<1>2. ASSUME NEW b \in Blocks, WriteBack(b) PROVE TypeOK'
  <2>1. frame' \in [Blocks -> Frames] BY <1>2 DEF WriteBack, TypeOK, Frames
  <2> QED BY <1>2, <2>1, FrameFields, DiskWriteType DEF WriteBack, TypeOK, super, wal, lsns, control, history
<1>3. ASSUME NEW b \in Blocks, Evict(b) PROVE TypeOK'
  <2>1. disk' \in [Blocks -> Contents] /\ past' \in [Blocks -> SUBSET Contents]
    BY <1>3, FrameFields, DiskWriteType DEF Evict, TypeOK, image
  <2> QED BY <1>3, <2>1, NoFrameFields DEF Evict, TypeOK, super, wal, lsns, control, history
<1>4. ASSUME NEW b \in Blocks, WriteBackFail(b) PROVE TypeOK'
  <2>1. Torn \in Contents BY DEF Contents
  <2> QED BY <1>4, <2>1, DiskWriteType DEF WriteBackFail, TypeOK, super, wal, cache, lsns, control, history
<1>5. CASE BeginOp \/ EndOp
  BY <1>5 DEF BeginOp, EndOp, TypeOK, image, super, wal, cache, lsns, control, history
<1>6. ASSUME NEW b \in Blocks, NEW v \in Values, Write(b, v) PROVE TypeOK'
  <2>1. v \in Contents BY DEF Contents
  <2>2. frame' \in [Blocks -> Frames] BY <1>6, <2>1 DEF Write, TypeOK, Frames
  <2>3. txn_blocks' \in Seq(Blocks) BY <1>6 DEF Write, TypeOK
  <2> QED BY <1>6, <2>2, <2>3 DEF Write, TypeOK, image, super, wal, lsns, control, history
<1> QED BY <1>1, <1>2, <1>3, <1>4, <1>5, <1>6 DEF Cache, Operation

\* Commits, checkpoints and the unmount keep the types.
LEMMA CommitType ==
  ASSUME Core, Commit, UNCHANGED failures
  PROVE  TypeOK'
<1>0. TypeOK /\ LsnInv BY DEF Core
<1>1. Live => next_lsn - 1 \in Nat BY <1>0 DEF LsnInv, TypeOK
<1> USE <1>0 DEF Labels, Recovering, InTransaction, InCheckpoint
<1>2. ASSUME NEW ckpt \in BOOLEAN, NEW closing \in BOOLEAN, StartCommit(ckpt, closing) PROVE TypeOK'
  <2>1. job' \in Jobs BY <1>2 DEF StartCommit, TypeOK, Jobs
  <2>2. prep' \in [Blocks -> Contents] BY <1>2, FrameFields DEF StartCommit, TypeOK, Current
  <2> QED BY <1>2, <2>1, <2>2, EmptySeq DEF StartCommit, TypeOK, image, super, wal, lsns
<1>3. CASE Stage
  <2>1. PICK r \in Records : LogAppend(r) /\ r.lsn = next_lsn
    <3>1. CASE pos = 0
      <4>1. Record("BEGIN", job.txn, next_lsn) \in Records BY DEF Record, Records, TypeOK, Jobs
      <4>2. Record("BEGIN", job.txn, next_lsn).lsn = next_lsn BY DEF Record
      <4> QED BY <1>3, <3>1, <4>1, <4>2 DEF Stage
    <3>2. CASE pos # 0
      <4> DEFINE b == job.blocks[pos]
      <4>1. b \in Blocks BY <1>3, <3>2 DEF Stage, TypeOK, Jobs
      <4>2. frame[b].data \in Contents BY <4>1, FrameFields
      <4>3. BlockRecord(job.txn, next_lsn, b, frame[b].data) \in Records
        BY <4>1, <4>2 DEF BlockRecord, Records, TypeOK, Jobs
      <4>4. BlockRecord(job.txn, next_lsn, b, frame[b].data).lsn = next_lsn BY DEF BlockRecord
      <4> QED BY <1>3, <3>2, <4>3, <4>4 DEF Stage
    <3> QED BY <3>1, <3>2
  <2>2. log' \in Seq(Records) /\ next_lsn' \in Nat BY <2>1 DEF LogAppend, TypeOK
  <2> QED BY <1>3, <2>2 DEF Stage, TypeOK, image, super, cache
<1>4. CASE StageSync \/ CommitSync
  BY <1>1, <1>4, OldLogType DEF StageSync, CommitSync, LogSync, Step, Live, TypeOK, image, super, cache, history
<1>5. CASE AppendCommit
  <2> DEFINE r == Record("COMMIT", job.txn, next_lsn)
  <2>1. r \in Records /\ r.lsn = next_lsn BY DEF Record, Records, TypeOK, Jobs
  <2>2. LogAppend(r) BY <1>5 DEF AppendCommit
  <2> HIDE DEF r
  <2>3. log' \in Seq(Records) /\ next_lsn' \in Nat BY <2>1, <2>2 DEF LogAppend, TypeOK
  <2> QED BY <1>5, <2>3 DEF AppendCommit, Step, TypeOK, image, super, cache
<1>6. CASE CommitFrames
  <2>1. next_lsn - 1 \in Nat BY <1>1, <1>6 DEF CommitFrames, Step, Live
  <2>2. \A b \in Blocks : [frame[b] EXCEPT !.in_txn = FALSE, !.dirty = TRUE, !.lsn = next_lsn - 1] \in Frames
    BY <2>1 DEF TypeOK, Frames
  <2>3. frame' \in [Blocks -> Frames] BY <1>6, <2>2 DEF CommitFrames, TypeOK
  <2> QED BY <1>6, <2>3 DEF CommitFrames, Step, TypeOK, image, super, wal, lsns, history
<1>7. CASE Decide BY <1>7 DEF Decide, TypeOK, image, super, wal, cache, lsns, history
<1>8. CASE CheckpointSync \/ CheckpointSuperblockSync
  BY <1>8, DeviceSyncType DEF CheckpointSync, CheckpointSuperblockSync, Step, TypeOK, wal, cache, lsns, history
<1>9. CASE CheckpointSuperblock
  <2>1. sb.clean \in BOOLEAN BY DEF TypeOK, Superblocks
  <2>2. next_lsn - 1 \in Nat BY <1>1, <1>9 DEF CheckpointSuperblock, Step, Live
  <2> QED BY <1>9, <2>1, <2>2, SuperblockType DEF CheckpointSuperblock, Step, TypeOK, wal, cache, lsns, history
<1>10. CASE Truncate("ckpt_reset", "ckpt_resetsync")
  BY <1>10, EmptySeq DEF Truncate, Step, TypeOK, image, super, cache, lsns, history
<1>11. CASE TruncateSync("ckpt_resetsync", "publish")
  BY <1>11, EmptySeq DEF TruncateSync, Step, TypeOK, Superblocks, image, super, cache, lsns, history
<1>12. CASE Publish
  <2>1. NoJob \in Jobs BY EmptySeq DEF NoJob, Jobs
  <2> QED BY <1>12, <2>1 DEF Publish, TypeOK, image, super, wal, cache, lsns
<1>13. CASE CloseSuperblock
  <2>1. sb.ckpt \in Nat BY DEF TypeOK, Superblocks
  <2> QED BY <1>13, <2>1, SuperblockType DEF CloseSuperblock, Step, TypeOK, wal, cache, lsns, history
<1>14. CASE Closed
  BY <1>14, DeviceSyncType, ForgetType DEF Closed, TypeOK, wal, history
<1> QED BY <1>2, <1>3, <1>4, <1>5, <1>6, <1>7, <1>8, <1>9, <1>10, <1>11, <1>12, <1>13, <1>14 DEF Commit

\* Failures keep the types.
LEMMA FailureType ==
  ASSUME TypeOK, Failure, UNCHANGED failures
  PROVE  TypeOK'
<1> USE DEF Labels, Recovering
<1>1. CASE CommitError BY <1>1 DEF CommitError, TypeOK, image, super, wal, cache, lsns, history
<1>2. CASE Rejected BY <1>2 DEF Rejected, vars, TypeOK, image, super, wal, cache, lsns, control, history
<1>3. CASE CloseFailed BY <1>3, ForgetType DEF CloseFailed, TypeOK, image, super, wal, history
<1>4. CASE Kill \/ MountFailed
  <2>1. disk' \in [Blocks -> Contents] /\ past' \in [Blocks -> SUBSET Contents]
    <3>1. Torn \in Contents BY DEF Contents
    <3> QED BY <1>4, <3>1, DiskWriteType DEF Kill, MountFailed, TypeOK, image
  <2>2. UNCHANGED <<super, wal, stable, prep>> /\ Forget /\ crashes' \in Nat
    BY <1>4 DEF Kill, MountFailed, TypeOK, history
  <2> QED BY <2>1, <2>2, ForgetType DEF TypeOK, super, wal
<1>5. CASE PowerFail
  <2>1. log' \in Seq(Records) /\ synced' = Len(log')
    <3> DEFINE old == IF truncated # <<>> THEN truncated ELSE log
    <3>1. old \in Seq(Records) BY DEF TypeOK
    <3>2. (\E n \in synced..Len(old) : log' = SubSeq(old, 1, n)) \/ log' = <<>>
      BY <1>5 DEF PowerFail
    <3> HIDE DEF old
    <3>3. synced \in Nat BY DEF TypeOK
    <3>4. ASSUME NEW n \in synced..Len(old), log' = SubSeq(old, 1, n) PROVE log' \in Seq(Records)
      BY <3>1, <3>3, <3>4
    <3> QED BY <1>5, <3>2, <3>4, EmptySeq DEF PowerFail
  <2>2. Len(log') \in Nat BY <2>1, LenProperties
  <2>3. sb' \in Superblocks BY <1>5 DEF PowerFail, TypeOK
  <2>4. disk' \in [Blocks -> Contents] /\ past' \in [Blocks -> SUBSET Contents] /\ sbPast' = {}
    BY <1>5 DEF PowerFail
  <2>5. truncated' \in Seq(Records) /\ crashes' \in Nat BY <1>5, EmptySeq DEF PowerFail, TypeOK
  <2>6. UNCHANGED <<stable, prep, failures>> BY <1>5 DEF PowerFail
  <2>7. Forget BY <1>5 DEF PowerFail
  <2> QED BY <2>1, <2>2, <2>3, <2>4, <2>5, <2>6, <2>7, ForgetType DEF TypeOK
<1> QED BY <1>1, <1>2, <1>3, <1>4, <1>5 DEF Failure

-----------------------------------------------------------------------------
(* What a crash may leave, step by step. *)

\* The image that the files recover to stays the same while no more can be cut off the
\* log, no new superblock is found, and only blocks the log redoes are written.
LEMMA CrashKeeps ==
  ASSUME CrashInv, OldLog' = OldLog, Cuts' \subseteq Cuts,
         \A s \in Found' : ~s.clean => s \in Found,
         \A n \in Cuts' : Targets(n) \subseteq Targets(n)',
         \A n \in Cuts' : \A s \in Found' : \A b \in Blocks :
            ~s.clean /\ Redone(n, s.ckpt, b) = {} =>
               disk'[b] = disk[b] /\ (past[b] = {} => past'[b] = {})
  PROVE  CrashInv'
<1> SUFFICES ASSUME NEW n \in Cuts', NEW s \in Found', ~s.clean
             PROVE  \E T \in Targets(n)' : Recovers(n, s.ckpt, T)'
  BY DEF CrashInv
<1>1. PICK T \in Targets(n) : Recovers(n, s.ckpt, T) BY DEF CrashInv
<1>2. \A b : Redone(n, s.ckpt, b)' = Redone(n, s.ckpt, b) BY SameRedone
<1>3. Recovers(n, s.ckpt, T)' BY <1>1, <1>2 DEF Recovers
<1> QED BY <1>1, <1>3

\* The image is whole on disk, and nothing recovery redoes changes it.
LEMMA CrashWhole ==
  ASSUME NEW T, \A b \in Blocks : disk'[b] = T[b] /\ past'[b] = {},
         \A n \in Cuts' : T \in Targets(n)',
         \A n \in Cuts' : \A s \in Found' : \A b \in Blocks : ~s.clean => Redone(n, s.ckpt, b)' = {}
  PROVE  CrashInv'
<1> SUFFICES ASSUME NEW n \in Cuts', NEW s \in Found', ~s.clean PROVE Recovers(n, s.ckpt, T)'
  BY DEF CrashInv
<1> QED BY DEF Recovers

\* The superblock says clean only where the unmount or the mount says so.
LEMMA UncleanLive ==
  ASSUME CleanInv, Live, pc # "close_sync"
  PROVE  \A s \in Found : ~s.clean
BY DEF CleanInv, Live

\* Steps of the cache and of operations, which leave the log, the superblock and
\* the committing thread alone.
Quiet == Live /\ UNCHANGED <<super, wal, lsns, control, history, failures>>

\* Such a step keeps all that is not about the frames, if it writes dirty blocks only.
LEMMA QuietKeeps ==
  ASSUME Core, Quiet,
         \A b \in Blocks : \/ disk'[b] = disk[b] /\ past'[b] = past[b]
                           \/ frame[b].dirty
  PROVE  /\ CrashInv' /\ ReplayInv' /\ LsnInv' /\ LogInv' /\ CleanInv' /\ CleanOwesNothing'
         /\ \A n : Targets(n)' = Targets(n)
         /\ Cuts' = Cuts /\ Found' = Found /\ Image' = Image
         /\ \A n, c, b : Redone(n, c, b)' = Redone(n, c, b)
         /\ (Written' <=> Written) /\ Live'
<1>1. /\ CrashInv /\ ReplayInv /\ LsnInv /\ LogInv /\ CleanInv /\ FrameInv BY DEF Core
<1>2. /\ OldLog' = OldLog /\ Cuts' = Cuts
      /\ \A n, c, b : Redone(n, c, b)' = Redone(n, c, b)
  BY SameWal DEF Quiet
<1>3. Found' = Found BY DEF Quiet, Found, super
<1>4. pc' = pc /\ job' = job /\ pos' = pos /\ stable' = stable /\ prep' = prep
      /\ log' = log /\ synced' = synced /\ truncated' = truncated /\ failures' = failures
      /\ next_lsn' = next_lsn /\ durable_lsn' = durable_lsn /\ sb' = sb /\ sbPast' = sbPast
  BY DEF Quiet, control, history, wal, lsns, super
<1>5. \A n : Targets(n)' = Targets(n) BY <1>4 DEF Targets
<1>6. Live' BY <1>4 DEF Quiet, Live
<1>7. CrashInv'
  <2>1. \A n \in Cuts' : \A s \in Found' : \A b \in Blocks :
            ~s.clean /\ Redone(n, s.ckpt, b) = {} =>
               disk'[b] = disk[b] /\ (past[b] = {} => past'[b] = {})
    BY <1>1, <1>2, <1>3 DEF FrameInv, FrameOK, Quiet
  <2> QED BY <1>1, <1>2, <1>3, <1>5, <2>1, CrashKeeps
<1>8. ReplayInv' BY <1>1, <1>4, <1>6 DEF ReplayInv, Live, Recovering
<1>9. LsnInv' BY <1>1, <1>2, <1>4, <1>6 DEF LsnInv, Live
<1>10. LogInv' BY <1>1, <1>2, <1>4, <1>6 DEF LogInv, Live, Emptied
<1>11. CleanInv' BY <1>1, <1>3, <1>4 DEF CleanInv
<1>12. Image' = Image /\ (Written' <=> Written) BY <1>4 DEF Image, Written, Emptied, Live
<1>13. CleanOwesNothing'
  <2> SUFFICES ASSUME NEW s \in Found, s.clean, NEW b \in Blocks PROVE disk'[b] = stable[b] /\ past'[b] = {}
    BY <1>3, <1>4 DEF CleanOwesNothing, Found
  <2>1. Written BY <1>1 DEF CleanInv, Quiet, Live, Written, Emptied
  <2>2. ~frame[b].dirty BY <1>1, <2>1 DEF FrameInv, FrameOK, Quiet
  <2> QED BY <2>2 DEF Core, CleanOwesNothing, Found
<1> QED BY <1>2, <1>3, <1>5, <1>6, <1>7, <1>8, <1>9, <1>10, <1>11, <1>12, <1>13

\* Such a step that changes one frame and leaves the transaction alone.
LEMMA QuietStep ==
  ASSUME Core, Quiet, TypeOK', NEW b \in Blocks, UNCHANGED <<txn_blocks, running>>,
         \A c \in Blocks : c # b => /\ frame'[c] = frame[c]
                                    /\ disk'[c] = disk[c] /\ past'[c] = past[c],
         (disk'[b] = disk[b] /\ past'[b] = past[b]) \/ frame[b].dirty,
         frame[b].in_txn => frame'[b] = frame[b],
         frame'[b].in_txn => frame[b].in_txn,
         FrameOK(b)'
  PROVE  Core'
<1>0. TypeOK /\ FrameInv /\ JobInv BY DEF Core
<1>1. /\ CrashInv' /\ ReplayInv' /\ LsnInv' /\ LogInv' /\ CleanInv' /\ CleanOwesNothing'
      /\ Cuts' = Cuts /\ Found' = Found /\ Image' = Image
      /\ \A n, c, d : Redone(n, c, d)' = Redone(n, c, d)
      /\ (Written' <=> Written) /\ Live'
  BY QuietKeeps
<1>2. pc' = pc /\ durable_lsn' = durable_lsn /\ log' = log /\ job' = job /\ pos' = pos
      /\ next_lsn' = next_lsn /\ stable' = stable /\ prep' = prep
  BY DEF Quiet, control, lsns, wal, history
<1>3. \A c \in Blocks : FrameOK(c)'
  <2> SUFFICES ASSUME NEW c \in Blocks, c # b PROVE FrameOK(c)' OBVIOUS
  <2>1. FrameOK(c) BY <1>0 DEF FrameInv, Quiet
  <2> QED BY <1>1, <1>2, <2>1 DEF FrameOK
<1>4. FrameInv' BY <1>0, <1>1, <1>2, <1>3 DEF FrameInv
<1>5. JobInv'
  <2>1. \A c \in Blocks : /\ frame'[c].in_txn <=> frame[c].in_txn
                          /\ frame[c].in_txn => frame'[c] = frame[c]
    OBVIOUS
  <2>2. \A c : InJob(c)' <=> InJob(c) BY <1>2 DEF InJob
  <2> QED BY <1>0, <1>2, <2>1, <2>2 DEF JobInv
<1> QED BY <1>1, <1>4, <1>5 DEF Core

\* A block is loaded.
LEMMA LoadKeeps ==
  ASSUME Core, NEW b \in Blocks, Load(b), UNCHANGED failures
  PROVE  Core'
<1>0. TypeOK /\ FrameInv BY DEF Core
<1>1. TypeOK' BY <1>0, CacheType DEF Cache
<1>2. Quiet /\ ~frame[b].mapped /\ UNCHANGED <<txn_blocks, running, disk, past>>
  BY DEF Load, Quiet, image
<1>3. frame'[b] = Loaded(disk[b]) /\ \A c \in Blocks : c # b => frame'[c] = frame[c]
  BY <1>0 DEF Load, TypeOK
<1>4. FrameOK(b) /\ disk[b] \in Contents BY <1>0, <1>2 DEF FrameInv, Quiet, TypeOK
<1>5. /\ Image' = Image /\ (Written' <=> Written)
  BY <1>2, QuietKeeps
<1>6. pc' = pc BY <1>2 DEF Quiet, control
<1>7. ~frame[b].in_txn /\ ~frame[b].dirty BY <1>2, <1>4 DEF FrameOK
<1>8. FrameOK(b)' BY <1>2, <1>3, <1>4, <1>5, <1>6, <1>7, NoFrameFields DEF FrameOK
<1> QED BY <1>1, <1>2, <1>3, <1>4, <1>7, <1>8, NoFrameFields, QuietStep

\* The flusher or a checkpoint writes a frame back.
LEMMA WriteBackKeeps ==
  ASSUME Core, NEW b \in Blocks, WriteBack(b), UNCHANGED failures
  PROVE  Core'
<1>0. TypeOK /\ FrameInv BY DEF Core
<1>1. TypeOK' BY <1>0, CacheType DEF Cache
<1>2. Quiet /\ frame[b].dirty /\ ~frame[b].in_txn /\ UNCHANGED <<txn_blocks, running>>
  BY DEF WriteBack, Writable, Quiet
<1>3. /\ \A c \in Blocks : c # b => frame'[c] = frame[c]
      /\ ~frame'[b].dirty /\ frame'[b].mapped = frame[b].mapped /\ frame'[b].in_txn = frame[b].in_txn
      /\ frame'[b].data = frame[b].data
  BY <1>0 DEF WriteBack, TypeOK, Frames
<1>4. /\ \A c \in Blocks : c # b => disk'[c] = disk[c] /\ past'[c] = past[c]
      /\ disk'[b] = frame[b].data
  BY <1>0, FrameFields, DiskWriteType DEF WriteBack
<1>5. /\ Image' = Image /\ (Written' <=> Written)
  BY <1>2, <1>4, QuietKeeps
<1>6. FrameOK(b) BY <1>0, <1>2 DEF FrameInv, Quiet
<1>7. pc' = pc BY <1>2 DEF Quiet, control
<1>8. FrameOK(b)' BY <1>2, <1>3, <1>4, <1>5, <1>6, <1>7 DEF FrameOK
<1> QED BY <1>1, <1>2, <1>3, <1>4, <1>8, QuietStep

\* A frame is given to another block.
LEMMA EvictKeeps ==
  ASSUME Core, NEW b \in Blocks, Evict(b), UNCHANGED failures
  PROVE  Core'
<1>0. TypeOK /\ FrameInv BY DEF Core
<1>1. TypeOK' BY <1>0, CacheType DEF Cache
<1>2. Quiet /\ frame[b].mapped /\ ~frame[b].in_txn /\ UNCHANGED <<txn_blocks, running>>
  BY DEF Evict, Quiet
<1>3. frame'[b] = NoFrame /\ \A c \in Blocks : c # b => frame'[c] = frame[c]
  BY <1>0 DEF Evict, TypeOK
<1>4. /\ \A c \in Blocks : c # b => disk'[c] = disk[c] /\ past'[c] = past[c]
      /\ \/ ~frame[b].dirty /\ disk'[b] = disk[b] /\ past'[b] = past[b]
         \/ frame[b].dirty /\ disk'[b] = frame[b].data
  BY <1>0, FrameFields, DiskWriteType DEF Evict, Writable, image
<1>5. /\ Image' = Image /\ (Written' <=> Written)
  BY <1>2, <1>4, QuietKeeps
<1>6. FrameOK(b) BY <1>0, <1>2 DEF FrameInv, Quiet
<1>7. pc' = pc BY <1>2 DEF Quiet, control
<1>8. FrameOK(b)' BY <1>2, <1>3, <1>4, <1>5, <1>6, <1>7, NoFrameFields DEF FrameOK
<1> QED BY <1>1, <1>2, <1>3, <1>4, <1>8, NoFrameFields, QuietStep

\* A write-back fails.
LEMMA WriteBackFailKeeps ==
  ASSUME Core, NEW b \in Blocks, WriteBackFail(b), UNCHANGED failures
  PROVE  Core'
<1>0. TypeOK /\ FrameInv BY DEF Core
<1>1. TypeOK' BY <1>0, CacheType DEF Cache
<1>2. Quiet /\ frame[b].dirty /\ ~frame[b].in_txn /\ UNCHANGED <<txn_blocks, running, frame>>
  BY DEF WriteBackFail, Writable, Quiet, cache
<1>3. \A c \in Blocks : c # b => disk'[c] = disk[c] /\ past'[c] = past[c]
  <2>1. Torn \in Contents BY DEF Contents
  <2> QED BY <1>0, <2>1, DiskWriteType DEF WriteBackFail
<1>4. /\ Image' = Image /\ (Written' <=> Written) /\ Cuts' = Cuts /\ Found' = Found
      /\ \A n, c, d : Redone(n, c, d)' = Redone(n, c, d)
  BY <1>2, <1>3, QuietKeeps
<1>5. FrameOK(b) BY <1>0, <1>2 DEF FrameInv, Quiet
<1>6. pc' = pc /\ durable_lsn' = durable_lsn BY <1>2 DEF Quiet, control, lsns
<1>7. FrameOK(b)' BY <1>2, <1>3, <1>4, <1>5, <1>6 DEF FrameOK
<1> QED BY <1>1, <1>2, <1>3, <1>7, QuietStep

\* An operation begins or ends.
LEMMA CountKeeps ==
  ASSUME Core, BeginOp \/ EndOp, UNCHANGED failures
  PROVE  Core'
<1>0. TypeOK /\ FrameInv BY DEF Core
<1>1. TypeOK' BY <1>0, CacheType DEF Operation
<1>2. Quiet /\ pc = "up" /\ UNCHANGED <<disk, past, frame, txn_blocks>>
  BY DEF BeginOp, EndOp, Quiet, Live, Recovering, image, cache
<1>3. /\ CrashInv' /\ ReplayInv' /\ LsnInv' /\ LogInv' /\ CleanInv' /\ CleanOwesNothing'
      /\ Cuts' = Cuts /\ Found' = Found /\ Image' = Image
      /\ \A n, c, b : Redone(n, c, b)' = Redone(n, c, b)
      /\ (Written' <=> Written) /\ Live'
  BY <1>2, QuietKeeps
<1>4. pc' = pc /\ durable_lsn' = durable_lsn /\ job' = job BY <1>2 DEF Quiet, control, lsns
<1>5. \A b \in Blocks : FrameOK(b)'
  <2> SUFFICES ASSUME NEW b \in Blocks PROVE FrameOK(b)' OBVIOUS
  <2>1. FrameOK(b) BY <1>0, <1>2 DEF FrameInv, Quiet
  <2> QED BY <1>2, <1>3, <1>4, <2>1 DEF FrameOK
<1>6. FrameInv' BY <1>2, <1>3, <1>4, <1>5 DEF FrameInv
<1>7. JobInv' BY <1>2, <1>4 DEF Core, JobInv, InTransaction
<1> QED BY <1>1, <1>3, <1>6, <1>7 DEF Core

\* A block is written in an operation.
LEMMA WriteKeeps ==
  ASSUME Core, NEW b \in Blocks, NEW v \in Values, Write(b, v), UNCHANGED failures
  PROVE  Core'
<1>0. TypeOK /\ FrameInv BY DEF Core
<1>1. TypeOK' BY <1>0, CacheType DEF Operation
<1>2. Quiet /\ pc = "up" /\ UNCHANGED <<disk, past, running>>
  BY DEF Write, Quiet, Live, Recovering, image
<1>3. /\ CrashInv' /\ ReplayInv' /\ LsnInv' /\ LogInv' /\ CleanInv' /\ CleanOwesNothing'
      /\ Cuts' = Cuts /\ Found' = Found /\ Image' = Image
      /\ \A n, c, d : Redone(n, c, d)' = Redone(n, c, d)
      /\ (Written' <=> Written) /\ Live'
  BY <1>2, QuietKeeps
<1>4. pc' = pc /\ durable_lsn' = durable_lsn /\ job' = job BY <1>2 DEF Quiet, control, lsns
<1>5. /\ \A c \in Blocks : c # b => frame'[c] = frame[c]
      /\ frame'[b].in_txn /\ frame'[b].mapped /\ frame'[b].dirty = frame[b].dirty
      /\ frame'[b].lsn = frame[b].lsn
  BY <1>0 DEF Write, TypeOK, Frames
<1>6. \A c \in Blocks : (\E k \in DOMAIN txn_blocks' : txn_blocks'[k] = c)
                        <=> c = b \/ \E k \in DOMAIN txn_blocks : txn_blocks[k] = c
  <2>1. FrameOK(b) BY <1>0, <1>2 DEF FrameInv, Quiet
  <2>2. CASE frame[b].in_txn BY <1>2, <2>1, <2>2 DEF Write, FrameOK
  <2>3. CASE ~frame[b].in_txn
    <3>1. txn_blocks' = Append(txn_blocks, b) /\ txn_blocks \in Seq(Blocks) BY <1>0, <2>3 DEF Write, TypeOK
    <3>2. /\ DOMAIN txn_blocks = 1..Len(txn_blocks) /\ Len(txn_blocks) \in Nat
          /\ DOMAIN txn_blocks' = 1..(Len(txn_blocks) + 1)
          /\ txn_blocks'[Len(txn_blocks) + 1] = b
          /\ \A k \in 1..Len(txn_blocks) : txn_blocks'[k] = txn_blocks[k]
      BY <3>1
    <3> QED BY <3>2
  <2> QED BY <2>2, <2>3
<1>7. \A c \in Blocks : FrameOK(c)'
  <2> SUFFICES ASSUME NEW c \in Blocks PROVE FrameOK(c)' OBVIOUS
  <2>1. FrameOK(c) BY <1>0, <1>2 DEF FrameInv, Quiet
  <2>2. CASE c = b BY <1>2, <1>3, <1>4, <1>5, <1>6, <2>1, <2>2 DEF FrameOK
  <2>3. CASE c # b BY <1>2, <1>3, <1>4, <1>5, <1>6, <2>1, <2>3 DEF FrameOK
  <2> QED BY <2>2, <2>3
<1>8. FrameInv' BY <1>2, <1>3, <1>4, <1>7 DEF FrameInv
<1>9. JobInv' BY <1>2, <1>4 DEF Core, JobInv, InTransaction
<1> QED BY <1>1, <1>3, <1>8, <1>9 DEF Core

-----------------------------------------------------------------------------
(* Mounting *)

\* Mounting leaves the cache empty and has no commit under way.
LEMMA MountingQuiet ==
  ASSUME Core, ~Live, ~Live', UNCHANGED <<cache, running, job>>
  PROVE  JobInv' /\ FrameInv'
<1>1. JobInv /\ FrameInv BY DEF Core
<1>2. pc # "up" /\ pc' # "up" /\ pc' \notin InTransaction \cup {"failed_txn", "commit_sync", "frames"}
  BY DEF Live, Recovering, InTransaction
<1>3. JobInv' BY <1>1, <1>2 DEF JobInv
<1>4. FrameInv' BY <1>1, <1>2 DEF FrameInv, cache
<1> QED BY <1>3, <1>4

\* The records that recovery redoes from the log it reads.
LEMMA RedoIsRedone ==
  ASSUME TypeOK, LogInv, NEW c, NEW b, NEW i
  PROVE  i \in Redo(log, c) /\ log[i].block = b <=> i \in Redone(Len(log), c, b)
<1>1. DOMAIN log = 1..Len(log) BY OldLogType
<1>2. CASE log = <<>>
  <2>1. Len(log) = 0 /\ DOMAIN log = {} BY <1>2
  <2> QED BY <2>1, NothingRedone DEF Redo
<1>3. CASE log # <<>>
  <2>1. OldLog = log BY <1>3 DEF LogInv, OldLog
  <2> QED BY <1>1, <2>1 DEF Redo, Redone, Committed
<1> QED BY <1>2, <1>3

\* Until the mount truncates the log, a crash leaves all of it.
LEMMA ReplayCuts ==
  ASSUME TypeOK, LogInv, pc \in {"down", "replay", "replay_sb", "replay_sbsync", "reset"}
  PROVE  Cuts = {Len(log)}
<1>1. CASE "power" \in failures
  <2>1. truncated = <<>> /\ synced = Len(log) BY <1>1 DEF LogInv
  <2>2. Len(log) \in Nat BY OldLogType
  <2> QED BY <1>1, <2>1, <2>2 DEF Cuts, OldLog
<1>2. CASE "power" \notin failures BY <1>2 DEF Cuts
<1> QED BY <1>1, <1>2

\* A crash leaves some part of the log.
LEMMA SomeCut ==
  ASSUME TypeOK, LogInv
  PROVE  Cuts # {}
<1>1. Len(OldLog) \in Nat /\ synced \in Nat BY OldLogType DEF TypeOK
<1>2. "power" \in failures => synced \in synced..Len(OldLog) BY <1>1 DEF LogInv
<1> QED BY <1>2 DEF Cuts

\* An image that agrees with another at every block is that image.
LEMMA SameImage ==
  ASSUME NEW d \in [Blocks -> Contents], NEW T \in [Blocks -> Contents], \A b \in Blocks : d[b] = T[b]
  PROVE  d = T
OBVIOUS

\* The mount reads the superblock.
LEMMA MountKeeps ==
  ASSUME Core, Mount, UNCHANGED failures
  PROVE  Core'
<1>0. TypeOK /\ CrashInv /\ LsnInv /\ LogInv /\ CleanInv /\ CleanOwesNothing BY DEF Core
<1>1. TypeOK' BY MountingType DEF Mounting
<1>2. /\ pc = "down" /\ pc' \in {"reset", "replay"} /\ (pc' = "replay" => pos' = 1 /\ ~sb.clean)
      /\ (pc' = "reset" => sb.clean /\ pos' = 0)
      /\ UNCHANGED <<image, super, wal, cache, running, lsns, job, history>>
  BY DEF Mount
<1>3. ~Live /\ ~Live' BY <1>2 DEF Live, Recovering
<1>4. JobInv' /\ FrameInv' BY <1>2, <1>3, MountingQuiet
<1>5. /\ OldLog' = OldLog /\ Cuts' = Cuts /\ Found' = Found
      /\ \A n, c, b : Redone(n, c, b)' = Redone(n, c, b)
  BY <1>2, SameWal DEF Found, super
<1>6. CrashInv'
  <2>1. \A n : Targets(n)' = Targets(n) BY <1>2 DEF Targets, Recovering, history
  <2> QED BY <1>0, <1>2, <1>5, <2>1, CrashKeeps DEF image
<1>7. ReplayInv'
  <2>1. Len(log') \in Nat BY <1>0, <1>2, OldLogType DEF wal
  <2>2. \A b, i : i \in Redone(Len(log), sb.ckpt, b)' => i \in Nat /\ i >= 1 BY <1>2, <2>1, <1>5, RedoneIn DEF super, wal
  <2>3. pc' = "reset" => disk' \in {stable', prep'} /\ \A b \in Blocks : past'[b] = {}
    BY <1>0, <1>2, SameImage DEF CleanOwesNothing, TypeOK, image, history
  <2> QED BY <1>0, <1>2, <2>1, <2>2, <2>3 DEF ReplayInv, Recovering, super
<1>8. LsnInv' BY <1>0, <1>2, <1>3, <1>5 DEF LsnInv, super
<1>9. LogInv' BY <1>0, <1>2, <1>3, <1>5 DEF LogInv, Emptied, wal
<1>10. CleanInv' BY <1>0, <1>2, <1>5 DEF CleanInv, Recovering, wal
<1>11. CleanOwesNothing' BY <1>0, <1>2 DEF CleanOwesNothing, super, image, history
<1> QED BY <1>1, <1>4, <1>6, <1>7, <1>8, <1>9, <1>10, <1>11 DEF Core

\* Recovery looks at a record, and redoes it if its transaction committed.
LEMMA ReplayKeeps ==
  ASSUME Core, Replay, UNCHANGED failures
  PROVE  Core'
<1>0. TypeOK /\ CrashInv /\ ReplayInv /\ LsnInv /\ LogInv /\ CleanInv /\ CleanOwesNothing BY DEF Core
<1>1. TypeOK' BY MountingType DEF Mounting
<1>2. /\ pc = "replay" /\ pc' = pc /\ pos' = pos + 1 /\ pos <= Len(log)
      /\ UNCHANGED <<super, wal, cache, running, lsns, job, history>>
  BY DEF Replay
<1>3. ~Live /\ ~Live' BY <1>2 DEF Live, Recovering
<1>4. JobInv' /\ FrameInv' BY <1>2, <1>3, MountingQuiet
<1>5. /\ OldLog' = OldLog /\ Cuts' = Cuts /\ Found' = Found
      /\ \A n, c, b : Redone(n, c, b)' = Redone(n, c, b)
  BY <1>2, SameWal DEF Found, super
<1>6. pos \in 1..Len(log) /\ ~sb.clean /\ log # <<>> /\ OldLog = log /\ Len(log) \in Nat
  <2>1. pos \in 1..(Len(log) + 1) /\ ~sb.clean /\ Len(log) \in Nat BY <1>0, <1>2, OldLogType DEF ReplayInv
  <2>2. pos \in 1..Len(log) BY <1>2, <2>1
  <2>3. log # <<>> BY <2>2, <2>1
  <2> QED BY <1>0, <2>1, <2>2, <2>3 DEF LogInv, OldLog
<1>7. /\ pos \in Redo(log, sb.ckpt) => disk'[log[pos].block] = log[pos].data
      /\ \A c \in Blocks : \/ pos \in Redo(log, sb.ckpt) /\ log[pos].block = c
                           \/ disk'[c] = disk[c] /\ past'[c] = past[c]
  <2>1. CASE pos \in Redo(log, sb.ckpt)
    <3>1. log[pos].block \in Blocks /\ log[pos].data \in Contents
      BY <1>0, <2>1, OldLogType, RecordFields DEF Redo
    <3> DEFINE b == log[pos].block
               v == log[pos].data
    <3>2. b \in Blocks /\ v \in Contents /\ DiskWrite(b, v) BY <2>1, <3>1 DEF Replay
    <3>3. disk'[b] = v /\ \A c \in Blocks : c # b => disk'[c] = disk[c] /\ past'[c] = past[c]
      <4> HIDE DEF b, v
      <4> QED BY <1>0, <3>2, DiskWriteType
    <3> QED BY <2>1, <3>3
  <2>2. CASE pos \notin Redo(log, sb.ckpt) BY <2>2 DEF Replay, image
  <2> QED BY <2>1, <2>2
<1>8. \A s \in Found : s.ckpt <= sb.ckpt /\ s.ckpt \in Nat /\ sb.ckpt \in Nat
  BY <1>0 DEF LsnInv, Found, TypeOK, Superblocks
<1>9. CrashInv'
  <2>1. \A n : Targets(n)' = Targets(n) BY <1>2 DEF Targets, Recovering, history
  <2>2. Cuts = {Len(log)} BY <1>0, <1>2, ReplayCuts
  <2>3. ASSUME NEW s \in Found, NEW b \in Blocks, Redone(Len(log), s.ckpt, b) = {}
        PROVE  disk'[b] = disk[b] /\ past'[b] = past[b]
    <3>1. Redone(Len(log), sb.ckpt, b) = {} BY <1>0, <1>6, <1>8, <2>3, LaterRedoesLess
    <3> QED BY <1>0, <1>7, <3>1, RedoIsRedone
  <2> QED BY <1>0, <1>5, <2>1, <2>2, <2>3, CrashKeeps
<1>10. ReplayInv'
  <2>1. pos' \in 1..(Len(log') + 1) /\ ~sb'.clean BY <1>2, <1>6 DEF wal, super
  <2>2. ASSUME NEW b \in Blocks, NEW i \in Redone(Len(log), sb.ckpt, b), i < pos',
               \A j \in Redone(Len(log), sb.ckpt, b) : j < pos' => j <= i
        PROVE  disk'[b] = log[i].data
    <3>1. i \in 1..Len(log) /\ i \in Redo(log, sb.ckpt) /\ log[i].block = b
      BY <1>0, <2>2, RedoIsRedone, RedoneIn
    <3>2. CASE i = pos BY <1>7, <3>1, <3>2
    <3>3. CASE i # pos
      <4>1. i < pos BY <1>2, <1>6, <2>2, <3>1, <3>3
      <4>2. pos \notin Redone(Len(log), sb.ckpt, b) BY <1>2, <1>6, <2>2, <4>1, <3>1
      <4>3. disk'[b] = disk[b] BY <1>0, <1>7, <4>2, RedoIsRedone
      <4>4. \A j \in Redone(Len(log), sb.ckpt, b) : j < pos => j <= i
        BY <1>2, <1>6, <2>2, RedoneIn
      <4> QED BY <1>0, <1>2, <4>1, <4>3, <4>4 DEF ReplayInv
    <3> QED BY <3>2, <3>3
  <2> QED BY <1>2, <1>5, <2>1, <2>2 DEF ReplayInv, Recovering, wal, super
<1>11. LsnInv' BY <1>0, <1>2, <1>3, <1>5 DEF LsnInv, super
<1>12. LogInv' BY <1>0, <1>2, <1>3, <1>5 DEF LogInv, Emptied, wal
<1>13. \A s \in Found : ~s.clean BY <1>0, <1>6 DEF CleanInv, Found
<1>14. CleanInv' /\ CleanOwesNothing' BY <1>5, <1>13 DEF CleanInv, CleanOwesNothing, Found
<1> QED BY <1>1, <1>4, <1>9, <1>10, <1>11, <1>12, <1>14 DEF Core

\* Every record redone is on disk, which is synced: the image is whole.
LEMMA ReplaySyncKeeps ==
  ASSUME Core, ReplaySync, UNCHANGED failures
  PROVE  Core'
<1>0. TypeOK /\ CrashInv /\ ReplayInv /\ LsnInv /\ LogInv /\ CleanInv /\ CleanOwesNothing BY DEF Core
<1>1. TypeOK' BY MountingType DEF Mounting
<1>2. /\ pc = "replay" /\ pc' = "replay_sb" /\ pos > Len(log) /\ pos' = 0
      /\ UNCHANGED <<wal, cache, running, lsns, job, history>>
      /\ disk' = disk /\ sb' = sb /\ sbPast' = {} /\ \A b \in Blocks : past'[b] = {}
  BY <1>0, DeviceSyncType DEF ReplaySync, Step
<1>3. ~Live /\ ~Live' BY <1>2 DEF Live, Recovering
<1>4. JobInv' /\ FrameInv' BY <1>2, <1>3, MountingQuiet
<1>5. /\ OldLog' = OldLog /\ Cuts' = Cuts /\ Found' = {sb} /\ ~sb.clean
      /\ \A n, c, b : Redone(n, c, b)' = Redone(n, c, b)
  BY <1>0, <1>2, SameWal DEF Found, ReplayInv
<1>6. CrashInv'
  <2>1. \A n : Targets(n)' = Targets(n) BY <1>2 DEF Targets, Recovering, history
  <2> QED BY <1>0, <1>2, <1>5, <2>1, CrashKeeps DEF Found
<1>7. ASSUME NEW b \in Blocks, NEW i \in Redone(Len(log), sb.ckpt, b),
             \A j \in Redone(Len(log), sb.ckpt, b) : j <= i
      PROVE  disk[b] = log[i].data
  <2>1. i < pos
    <3>1. i \in 1..Len(log) /\ Len(log) \in Nat /\ pos \in Nat BY <1>0, RedoneIn, OldLogType DEF TypeOK
    <3> QED BY <1>2, <3>1
  <2> QED BY <1>0, <1>2, <1>7, <2>1 DEF ReplayInv
<1>8. disk \in {stable, prep}
  <2>1. Cuts = {Len(log)} BY <1>0, <1>2, ReplayCuts
  <2>2. PICK T \in Targets(Len(log)) : Recovers(Len(log), sb.ckpt, T)
    BY <1>0, <1>5, <2>1 DEF CrashInv, Found
  <2>3. T \in {stable, prep} BY <1>2, <2>2 DEF Targets, Recovering
  <2>4. ASSUME NEW b \in Blocks PROVE disk[b] = T[b]
    <3>1. CASE Redone(Len(log), sb.ckpt, b) = {} BY <2>2, <3>1 DEF Recovers
    <3>2. CASE Redone(Len(log), sb.ckpt, b) # {}
      <4>1. PICK i \in Redone(Len(log), sb.ckpt, b) :
                /\ \A j \in Redone(Len(log), sb.ckpt, b) : j <= i
                /\ OldLog[i].data = T[b]
        BY <2>2, <3>2 DEF Recovers
      <4>2. disk[b] = log[i].data BY <1>7, <4>1
      <4>3. log # <<>>
        <5>1. i \in 1..Len(log) BY RedoneIn
        <5> QED BY <5>1
      <4>4. OldLog = log BY <1>0, <4>3 DEF LogInv, OldLog
      <4> QED BY <4>1, <4>2, <4>4
    <3> QED BY <3>1, <3>2
  <2>5. T = disk BY <1>0, <2>3, <2>4, SameImage DEF TypeOK
  <2> QED BY <2>3, <2>5
<1>9. ReplayInv' BY <1>2, <1>5, <1>7, <1>8 DEF ReplayInv, wal, history
<1>10. LsnInv' BY <1>0, <1>2, <1>3, <1>5 DEF LsnInv
<1>11. LogInv' BY <1>0, <1>2, <1>3, <1>5 DEF LogInv, Emptied, wal
<1>12. CleanInv' /\ CleanOwesNothing' BY <1>2, <1>5 DEF CleanInv, CleanOwesNothing
<1> QED BY <1>1, <1>4, <1>6, <1>9, <1>10, <1>11, <1>12 DEF Core

\* Once replayed, the log leads to what is on disk.
LEMMA ReplayedIsOnDisk == Core /\ pc = "replay_sb" => Recovers(Len(log), sb.ckpt, disk)
<1> SUFFICES ASSUME Core, pc = "replay_sb", NEW b \in Blocks, Redone(Len(log), sb.ckpt, b) # {}
             PROVE  \E i \in Redone(Len(log), sb.ckpt, b) :
                       /\ \A j \in Redone(Len(log), sb.ckpt, b) : j <= i
                       /\ OldLog[i].data = disk[b]
  BY DEF Recovers, Core, ReplayInv, Recovering
<1>0. TypeOK /\ ReplayInv /\ LogInv BY DEF Core
<1>1. Redone(Len(log), sb.ckpt, b) \in SUBSET (1..Len(log)) /\ Len(log) \in Nat
  BY <1>0, RedoneIn, OldLogType
<1>2. PICK i \in Redone(Len(log), sb.ckpt, b) : \A j \in Redone(Len(log), sb.ckpt, b) : j <= i
  BY <1>1, LastExists
<1>3. disk[b] = log[i].data BY <1>0, <1>2 DEF ReplayInv
<1>4. log # <<>>
  <2>1. i \in 1..Len(log) BY <1>1
  <2> QED BY <2>1
<1>5. OldLog = log BY <1>0, <1>4 DEF LogInv, OldLog
<1> QED BY <1>2, <1>3, <1>5

\* Recovery's superblock names the last lsn of the log: nothing is left to redo.
LEMMA ReplaySuperblockEffect ==
  ASSUME Core, ReplaySuperblock, UNCHANGED failures
  PROVE  /\ pc = "replay_sb" /\ pc' = "replay_sbsync" /\ UNCHANGED <<wal, cache, running, lsns, job, pos, history>>
         /\ ~sb.clean /\ ~sb'.clean /\ sbPast = {} /\ Found = {sb} /\ Found' = {sb, sb'} /\ sbPast' = {sb}
         /\ sb.ckpt <= sb'.ckpt /\ disk' = disk /\ past' = past /\ Cuts = {Len(log)}
         /\ \A b : Redone(Len(log), sb'.ckpt, b) = {}
<1>0. TypeOK /\ ReplayInv /\ LsnInv /\ LogInv BY DEF Core
<1> DEFINE c == IF log # <<>> /\ log[Len(log)].lsn > sb.ckpt THEN log[Len(log)].lsn ELSE sb.ckpt
<1>1. /\ sb.ckpt \in Nat /\ c \in Nat /\ c >= sb.ckpt
      /\ \A i \in 1..Len(log) : log[i].lsn <= c /\ log[i].lsn \in Nat
  <2>1. log # <<>> => Len(log) \in 1..Len(log) BY <1>0, OldLogType, EmptySeq
  <2>2. \A i \in 1..Len(log) : log[i].lsn \in Nat BY <1>0, OldLogType, RecordFields
  <2>3. sb.ckpt \in Nat BY <1>0 DEF TypeOK, Superblocks
  <2>4. ASSUME NEW i \in 1..Len(log) PROVE log[i].lsn <= log[Len(log)].lsn /\ log # <<>>
    <3>1. log # <<>> OBVIOUS
    <3>2. OldLog = log BY <1>0, <3>1 DEF LogInv, OldLog
    <3>3. i < Len(log) => log[i].lsn < log[Len(log)].lsn BY <1>0, <2>1, <3>1, <3>2, OldLogType DEF LsnInv
    <3>4. i <= Len(log) /\ Len(log) \in Nat BY <1>0, OldLogType
    <3> QED BY <2>1, <2>2, <3>1, <3>3, <3>4
  <2> QED BY <2>1, <2>2, <2>3, <2>4
<1>2. /\ pc = "replay_sb" /\ pc' = "replay_sbsync" /\ WriteSuperblock(sb.clean, c)
      /\ UNCHANGED <<wal, cache, running, lsns, job, pos, history>>
  BY DEF ReplaySuperblock, Step
<1> HIDE DEF c
<1>3. ~sb.clean /\ sb.clean \in BOOLEAN /\ sbPast = {} BY <1>0, <1>2 DEF ReplayInv, TypeOK, Superblocks
<1>4. /\ ~sb'.clean /\ sb'.ckpt = c /\ Found = {sb} /\ Found' = {sb, sb'} /\ sbPast' = {sb}
      /\ disk' = disk /\ past' = past
  BY <1>0, <1>1, <1>2, <1>3, SuperblockType DEF Found
<1>5. Cuts = {Len(log)} BY <1>0, <1>2, ReplayCuts
<1>6. ASSUME NEW b, NEW i \in Redone(Len(log), c, b) PROVE FALSE
  <2>1. i \in 1..Len(log) /\ OldLog[i].lsn > c BY RedoneIn
  <2>2. log # <<>> BY <2>1
  <2>3. OldLog = log BY <1>0, <2>2 DEF LogInv, OldLog
  <2> QED BY <1>1, <2>1, <2>3
<1> QED BY <1>1, <1>2, <1>3, <1>4, <1>5, <1>6

\* The superblock says how much of the log is in disk.img: all of it.
LEMMA ReplaySuperblockKeeps ==
  ASSUME Core, ReplaySuperblock, UNCHANGED failures
  PROVE  Core'
<1>0. TypeOK /\ CrashInv /\ ReplayInv /\ LsnInv /\ LogInv /\ CleanInv /\ CleanOwesNothing BY DEF Core
<1>1. TypeOK' BY MountingType DEF Mounting
<1>2. /\ pc = "replay_sb" /\ pc' = "replay_sbsync" /\ UNCHANGED <<wal, cache, running, lsns, job, pos, history>>
      /\ ~sb.clean /\ ~sb'.clean /\ sbPast = {} /\ Found' = {sb, sb'} /\ sbPast' = {sb}
      /\ sb.ckpt <= sb'.ckpt /\ disk' = disk /\ past' = past /\ Cuts = {Len(log)}
      /\ \A b : Redone(Len(log), sb'.ckpt, b) = {}
  BY ReplaySuperblockEffect
<1>3. ~Live /\ ~Live' BY <1>2 DEF Live, Recovering
<1>4. JobInv' /\ FrameInv' BY <1>2, <1>3, MountingQuiet
<1>5. /\ OldLog' = OldLog /\ Cuts' = Cuts
      /\ \A n, d, b : Redone(n, d, b)' = Redone(n, d, b)
  BY <1>2, SameWal
<1>6. CrashInv'
  <2>1. \A n : disk \in Targets(n)' BY <1>0, <1>2 DEF ReplayInv, Recovering, Targets, history
  <2>2. \A b \in Blocks : past[b] = {} BY <1>0, <1>2 DEF ReplayInv, Recovering
  <2>3. Recovers(Len(log), sb.ckpt, disk) BY <1>2, ReplayedIsOnDisk
  <2>4. PICK T : T = disk OBVIOUS
  <2>5. ASSUME NEW n \in Cuts', NEW s \in Found' PROVE Recovers(n, s.ckpt, T)'
    <3>1. n = Len(log) BY <1>2, <1>5, <2>5
    <3>2. CASE s = sb
      <4>1. Recovers(n, s.ckpt, T) BY <2>3, <2>4, <3>1, <3>2
      <4> QED BY <1>2, <1>5, <4>1 DEF Recovers
    <3>3. CASE s = sb'
      <4>1. \A b : Redone(n, s.ckpt, b) = {} BY <1>2, <3>1, <3>3
      <4> QED BY <1>2, <1>5, <2>2, <2>4, <4>1 DEF Recovers
    <3> QED BY <1>2, <2>5, <3>2, <3>3
  <2> QED BY <2>1, <2>4, <2>5 DEF CrashInv
<1>7. ReplayInv' BY <1>0, <1>2 DEF ReplayInv, Recovering, history
<1>8. LsnInv' BY <1>0, <1>2, <1>3, <1>5 DEF LsnInv
<1>9. LogInv' BY <1>0, <1>2, <1>3, <1>5 DEF LogInv, Emptied, wal
<1>10. CleanInv' /\ CleanOwesNothing' BY <1>2 DEF CleanInv, CleanOwesNothing
<1> QED BY <1>1, <1>4, <1>6, <1>7, <1>8, <1>9, <1>10 DEF Core

\* The superblock is synced.
LEMMA ReplaySuperblockSyncKeeps ==
  ASSUME Core, ReplaySuperblockSync, UNCHANGED failures
  PROVE  Core'
<1>0. TypeOK /\ CrashInv /\ ReplayInv /\ LsnInv /\ LogInv /\ CleanInv /\ CleanOwesNothing BY DEF Core
<1>1. TypeOK' BY MountingType DEF Mounting
<1>2. /\ pc = "replay_sbsync" /\ pc' = "reset"
      /\ UNCHANGED <<wal, cache, running, lsns, job, pos, history>>
      /\ disk' = disk /\ sb' = sb /\ sbPast' = {} /\ \A b \in Blocks : past'[b] = {}
  BY <1>0, DeviceSyncType DEF ReplaySuperblockSync, Step
<1>3. ~Live /\ ~Live' BY <1>2 DEF Live, Recovering
<1>4. JobInv' /\ FrameInv' BY <1>2, <1>3, MountingQuiet
<1>5. /\ OldLog' = OldLog /\ Cuts' = Cuts /\ Found' = {sb} /\ ~sb.clean
      /\ \A n, c, b : Redone(n, c, b)' = Redone(n, c, b)
  BY <1>0, <1>2, SameWal DEF Found, ReplayInv
<1>6. CrashInv'
  <2>1. \A n : Targets(n)' = Targets(n) BY <1>2 DEF Targets, Recovering, history
  <2> QED BY <1>0, <1>2, <1>5, <2>1, CrashKeeps DEF Found
<1>7. ReplayInv' BY <1>0, <1>2, <1>5 DEF ReplayInv, Recovering, history
<1>8. LsnInv' BY <1>0, <1>2, <1>3, <1>5 DEF LsnInv
<1>9. LogInv' BY <1>0, <1>2, <1>3, <1>5 DEF LogInv, Emptied, wal
<1>10. CleanInv' /\ CleanOwesNothing' BY <1>2, <1>5 DEF CleanInv, CleanOwesNothing
<1> QED BY <1>1, <1>4, <1>6, <1>7, <1>8, <1>9, <1>10 DEF Core

\* Wal::reset's ftruncate: a power failure may still bring the records back.
LEMMA TruncateEffect ==
  ASSUME TypeOK, LogInv, NEW from, NEW to, Truncate(from, to), UNCHANGED failures
  PROVE  /\ pc = from /\ pc' = to /\ OldLog' = OldLog /\ log' = <<>> /\ Len(log') = 0
         /\ \A n \in Cuts' : n \in Cuts \/ n = 0
         /\ \A n, c, b : Redone(n, c, b)' = Redone(n, c, b)
         /\ (log = <<>> => truncated' = truncated)
         /\ UNCHANGED <<image, super, synced, cache, running, lsns, job, pos, history>>
<1>1. /\ pc = from /\ pc' = to /\ log' = <<>> /\ truncated' = IF log # <<>> THEN log ELSE truncated
      /\ UNCHANGED <<image, super, synced, cache, running, lsns, job, pos, history>>
  BY DEF Truncate, Step
<1>2. OldLog' = OldLog BY <1>1 DEF OldLog, LogInv
<1>3. \A n, c, b : Redone(n, c, b)' = Redone(n, c, b) BY <1>2, SameRedone
<1>4. \A n \in Cuts' : n \in Cuts \/ n = 0 BY <1>1, <1>2 DEF Cuts
<1> QED BY <1>1, <1>2, <1>3, <1>4

\* With the image whole on disk, nothing need be redone.
LEMMA CrashEither ==
  ASSUME CrashInv, NEW T, \A b \in Blocks : disk[b] = T[b] /\ past[b] = {}, \A n : T \in Targets(n)',
         OldLog' = OldLog, disk' = disk, past' = past, \A n : Targets(n) \subseteq Targets(n)',
         \A n \in Cuts' : \A s \in Found' : ~s.clean =>
            \/ n \in Cuts /\ s \in Found
            \/ \A b \in Blocks : Redone(n, s.ckpt, b) = {}
  PROVE  CrashInv'
<1> SUFFICES ASSUME NEW n \in Cuts', NEW s \in Found', ~s.clean
             PROVE  \E U \in Targets(n)' : Recovers(n, s.ckpt, U)'
  BY DEF CrashInv
<1>1. \A b : Redone(n, s.ckpt, b)' = Redone(n, s.ckpt, b) BY SameRedone
<1>2. CASE \A b \in Blocks : Redone(n, s.ckpt, b) = {}
  <2>1. Recovers(n, s.ckpt, T)' BY <1>1, <1>2 DEF Recovers
  <2> QED BY <2>1
<1>3. CASE n \in Cuts /\ s \in Found
  <2>1. PICK U \in Targets(n) : Recovers(n, s.ckpt, U) BY <1>3 DEF CrashInv
  <2>2. Recovers(n, s.ckpt, U)' BY <1>1, <2>1 DEF Recovers
  <2> QED BY <2>1, <2>2
<1> QED BY <1>2, <1>3

\* The mount truncates the log.
LEMMA MountTruncateKeeps ==
  ASSUME Core, Truncate("reset", "reset_sync"), UNCHANGED failures
  PROVE  Core'
<1>0. TypeOK /\ CrashInv /\ ReplayInv /\ LsnInv /\ LogInv /\ CleanInv /\ CleanOwesNothing BY DEF Core
<1>1. TypeOK' BY MountingType DEF Mounting
<1>2. /\ pc = "reset" /\ pc' = "reset_sync" /\ OldLog' = OldLog /\ log' = <<>>
      /\ \A n \in Cuts' : n \in Cuts \/ n = 0
      /\ (log = <<>> => truncated' = truncated)
      /\ UNCHANGED <<image, super, synced, cache, running, lsns, job, pos, history>>
  BY <1>0, TruncateEffect
<1>3. ~Live /\ ~Live' BY <1>2 DEF Live, Recovering
<1>4. JobInv' /\ FrameInv' BY <1>2, <1>3, MountingQuiet
<1>5. Found' = Found /\ disk' = disk /\ past' = past BY <1>2 DEF Found, super, image
<1>6. CrashInv'
  <2>1. \A n : Targets(n)' = Targets(n) BY <1>2 DEF Targets, Recovering, history
  <2>2. PICK T : T = disk OBVIOUS
  <2>3. \A n : T \in Targets(n)' BY <1>0, <1>2, <2>1, <2>2 DEF ReplayInv, Recovering, Targets
  <2>4. \A b \in Blocks : disk[b] = T[b] /\ past[b] = {} BY <1>0, <1>2, <2>2 DEF ReplayInv, Recovering
  <2> QED BY <1>0, <1>2, <1>5, <2>1, <2>3, <2>4, NothingRedone, CrashEither
<1>7. ReplayInv' BY <1>0, <1>2, <1>5 DEF ReplayInv, Recovering, history
<1>8. LsnInv' BY <1>0, <1>2, <1>3 DEF LsnInv, super
<1>9. LogInv' BY <1>0, <1>2, <1>3 DEF LogInv, Emptied
<1>10. CleanInv' BY <1>0, <1>2, <1>5 DEF CleanInv, Recovering
<1>11. CleanOwesNothing' BY <1>0, <1>2 DEF CleanOwesNothing, super, image, history
<1> QED BY <1>1, <1>4, <1>6, <1>7, <1>8, <1>9, <1>10, <1>11 DEF Core

\* The log is empty for good: there is nothing to cut off, and nothing to redo.
LEMMA EmptyCuts ==
  ASSUME TypeOK, LogInv, log = <<>>, truncated = <<>>
  PROVE  Cuts = {0} /\ \A n \in Cuts : \A c, b : Redone(n, c, b) = {}
<1>1. OldLog = <<>> /\ Len(OldLog) = 0 /\ Len(log) = 0 BY DEF OldLog
<1>2. synced \in Nat /\ ("power" \in failures => synced <= 0) BY <1>1 DEF TypeOK, LogInv
<1>3. Cuts = {0} BY <1>1, <1>2 DEF Cuts
<1> QED BY <1>3, NothingRedone

\* The truncation is synced.
LEMMA TruncateSyncEffect ==
  ASSUME TypeOK, TypeOK', LogInv, NEW from \in {"reset_sync", "ckpt_resetsync"}, NEW to,
         TruncateSync(from, to), UNCHANGED failures
  PROVE  /\ pc = from /\ pc' = to /\ log' = <<>> /\ truncated' = <<>> /\ synced' = 0 /\ Len(log') = 0
         /\ Cuts' = {0} /\ OldLog' = <<>> /\ \A c, b : Redone(0, c, b)' = {}
         /\ next_lsn' = sb.ckpt + 1 /\ durable_lsn' = sb.ckpt
         /\ UNCHANGED <<image, super, cache, running, job, pos, history>>
<1>1. /\ pc = from /\ pc' = to /\ log' = log /\ truncated' = <<>> /\ synced' = 0
      /\ next_lsn' = sb.ckpt + 1 /\ durable_lsn' = sb.ckpt
      /\ UNCHANGED <<image, super, cache, running, job, pos, history>>
  BY DEF TruncateSync, Step
<1>2. log = <<>> BY <1>1 DEF LogInv
<1>3. OldLog' = <<>> /\ Len(log') = 0 /\ Len(OldLog') = 0 BY <1>1, <1>2 DEF OldLog
<1>4. Cuts' = {0} BY <1>1, <1>3 DEF Cuts
<1>5. \A c, b : Redone(0, c, b)' = {} BY DEF Redone
<1> QED BY <1>1, <1>2, <1>3, <1>4, <1>5

\* The mount syncs the empty log.
LEMMA MountTruncateSyncKeeps ==
  ASSUME Core, TruncateSync("reset_sync", "mark"), UNCHANGED failures
  PROVE  Core'
<1>0. TypeOK /\ CrashInv /\ ReplayInv /\ LsnInv /\ LogInv /\ CleanInv /\ CleanOwesNothing BY DEF Core
<1>1. TypeOK' BY MountingType DEF Mounting
<1>2. /\ pc = "reset_sync" /\ pc' = "mark" /\ log' = <<>> /\ truncated' = <<>> /\ synced' = 0
      /\ Cuts' = {0} /\ OldLog' = <<>> /\ \A c, b : Redone(0, c, b)' = {}
      /\ next_lsn' = sb.ckpt + 1 /\ durable_lsn' = sb.ckpt
      /\ UNCHANGED <<image, super, cache, running, job, pos, history>>
  BY <1>0, <1>1, TruncateSyncEffect
<1>3. ~Live /\ ~Live' BY <1>2 DEF Live, Recovering
<1>4. JobInv' /\ FrameInv' BY <1>2, <1>3, MountingQuiet
<1>5. Found' = Found /\ disk' = disk /\ past' = past /\ sb' = sb /\ sbPast' = sbPast
  BY <1>2 DEF Found, super, image
<1>6. CrashInv'
  <2>1. PICK T : T = disk OBVIOUS
  <2>2. \A n : T \in Targets(n)' BY <1>0, <1>2, <2>1 DEF ReplayInv, Recovering, Targets, history
  <2>3. \A b \in Blocks : disk'[b] = T[b] /\ past'[b] = {} BY <1>0, <1>2, <1>5, <2>1 DEF ReplayInv, Recovering
  <2> QED BY <1>2, <2>2, <2>3, CrashWhole
<1>7. ReplayInv' BY <1>0, <1>2, <1>5 DEF ReplayInv, Recovering, history
<1>8. LsnInv' BY <1>0, <1>2, <1>3, <1>5 DEF LsnInv
<1>9. LogInv' BY <1>0, <1>2, <1>3 DEF LogInv, Emptied
<1>10. CleanInv' BY <1>0, <1>2, <1>5 DEF CleanInv, Recovering
<1>11. CleanOwesNothing' BY <1>0, <1>2 DEF CleanOwesNothing, super, image, history
<1> QED BY <1>1, <1>4, <1>6, <1>7, <1>8, <1>9, <1>10, <1>11 DEF Core

\* The superblock says the file system is in use.
LEMMA MarkInUseKeeps ==
  ASSUME Core, MarkInUse, UNCHANGED failures
  PROVE  Core'
<1>0. TypeOK /\ CrashInv /\ ReplayInv /\ LsnInv /\ LogInv /\ CleanInv /\ CleanOwesNothing BY DEF Core
<1>1. TypeOK' BY MountingType DEF Mounting
<1>2. /\ pc = "mark" /\ pc' = "mark_sync" /\ WriteSuperblock(FALSE, sb.ckpt)
      /\ UNCHANGED <<wal, cache, running, lsns, job, pos, history>>
  BY DEF MarkInUse, Step
<1>3. ~Live /\ ~Live' BY <1>2 DEF Live, Recovering
<1>4. JobInv' /\ FrameInv' BY <1>2, <1>3, MountingQuiet
<1>5. /\ sb.ckpt \in Nat /\ ~sb'.clean /\ sb'.ckpt = sb.ckpt /\ sbPast' = sbPast \cup {sb}
      /\ Found' = Found \cup {sb'} /\ disk' = disk /\ past' = past
  <2>1. sb.ckpt \in Nat BY <1>0 DEF TypeOK, Superblocks
  <2> QED BY <1>0, <1>2, <2>1, SuperblockType DEF Found
<1>6. /\ OldLog' = OldLog /\ Cuts' = Cuts
      /\ \A n, c, b : Redone(n, c, b)' = Redone(n, c, b)
  BY <1>2, SameWal
<1>7. log = <<>> /\ truncated = <<>> /\ \A n \in Cuts : \A c, b : Redone(n, c, b) = {}
  <2>1. log = <<>> /\ truncated = <<>> BY <1>0, <1>2 DEF LogInv, Emptied
  <2> QED BY <1>0, <2>1, EmptyCuts
<1>8. CrashInv'
  <2>1. PICK T : T = disk OBVIOUS
  <2>2. \A n : T \in Targets(n)' BY <1>0, <1>2, <2>1 DEF ReplayInv, Recovering, Targets, history
  <2>3. \A b \in Blocks : disk'[b] = T[b] /\ past'[b] = {} BY <1>0, <1>2, <1>5, <2>1 DEF ReplayInv, Recovering
  <2> QED BY <1>6, <1>7, <2>2, <2>3, CrashWhole
<1>9. ReplayInv' BY <1>0, <1>2, <1>5 DEF ReplayInv, Recovering, history
<1>10. LsnInv' BY <1>0, <1>2, <1>3, <1>5, <1>6 DEF LsnInv, lsns
<1>11. LogInv' BY <1>0, <1>2, <1>3, <1>6, <1>7 DEF LogInv, Emptied, wal
<1>12. CleanInv' BY <1>2, <1>7 DEF CleanInv, Recovering, wal
<1>13. CleanOwesNothing' BY <1>0, <1>2, <1>5 DEF CleanOwesNothing, Found, history
<1> QED BY <1>1, <1>4, <1>8, <1>9, <1>10, <1>11, <1>12, <1>13 DEF Core

\* The mount is over: the image on disk is the one that programs see.
LEMMA MountedKeeps ==
  ASSUME Core, Mounted, UNCHANGED failures
  PROVE  Core'
<1>0. TypeOK /\ ReplayInv /\ JobInv /\ LsnInv /\ LogInv /\ FrameInv BY DEF Core
<1>1. TypeOK' BY MountingType DEF Mounting
<1>2. /\ pc = "mark_sync" /\ pc' = "up" /\ stable' = disk /\ prep' = disk
      /\ UNCHANGED <<wal, cache, running, lsns, job, pos>>
      /\ disk' = disk /\ sb' = sb /\ sbPast' = {} /\ \A b \in Blocks : past'[b] = {}
  BY <1>0, DeviceSyncType DEF Mounted, Step
<1>3. ~Live /\ Live' BY <1>2 DEF Live, Recovering
<1>4. /\ OldLog' = OldLog /\ Cuts' = Cuts /\ Found' = {sb} /\ ~sb.clean
      /\ \A n, c, b : Redone(n, c, b)' = Redone(n, c, b)
  BY <1>0, <1>2, SameWal DEF Found, ReplayInv
<1>5. log = <<>> /\ truncated = <<>> /\ \A n \in Cuts : \A c, b : Redone(n, c, b) = {}
  <2>1. log = <<>> /\ truncated = <<>> BY <1>0, <1>2 DEF LogInv, Emptied
  <2> QED BY <1>0, <2>1, EmptyCuts
<1>6. CrashInv'
  <2>1. PICK T : T = disk OBVIOUS
  <2>2. \A n : T \in Targets(n)'
    BY <1>2, <2>1 DEF Targets, Recovering, After, InCheckpoint
  <2>3. \A b \in Blocks : disk'[b] = T[b] /\ past'[b] = {} BY <1>2, <2>1
  <2> QED BY <1>4, <1>5, <2>2, <2>3, CrashWhole
<1>7. ReplayInv' BY <1>0, <1>2 DEF ReplayInv, Recovering
<1>8. JobInv' BY <1>0, <1>2 DEF JobInv, InTransaction
<1>9. LsnInv'
  <2>1. DOMAIN log = {} BY <1>5
  <2>2. sb.ckpt \in Nat BY <1>0 DEF TypeOK, Superblocks
  <2> QED BY <1>0, <1>2, <1>3, <1>4, <2>1, <2>2 DEF LsnInv, wal, lsns
<1>10. LogInv' BY <1>0, <1>2, <1>4, <1>5 DEF LogInv, Emptied, wal
<1>11. CleanInv' /\ CleanOwesNothing' BY <1>2, <1>4 DEF CleanInv, CleanOwesNothing
<1>12. FrameInv'
  <2>1. \A b \in Blocks : frame'[b] = NoFrame /\ txn_blocks' = <<>> BY <1>0, <1>2, <1>3 DEF FrameInv, cache
  <2>2. \A b \in Blocks : FrameOK(b)'
    <3>1. Image' = disk BY <1>2 DEF Image, InCheckpoint
    <3>2. ~Written' BY <1>2 DEF Written, Emptied
    <3> QED BY <1>2, <2>1, <3>1, <3>2, NoFrameFields DEF FrameOK
  <2> QED BY <1>2, <1>3, <2>2 DEF FrameInv
<1> QED BY <1>1, <1>6, <1>7, <1>8, <1>9, <1>10, <1>11, <1>12 DEF Core

-----------------------------------------------------------------------------
(* Commits *)

\* Nothing is being replayed.
LEMMA ReplayLive ==
  ASSUME Live', pc' \notin {"stage", "failed_txn"} => pos' = 0
  PROVE  ReplayInv'
BY DEF ReplayInv, Live, Recovering

\* The frames stay, the image they belong to stays, and the log redoes what is dirty.
LEMMA FramesStay ==
  ASSUME Core, TypeOK', Live, Live', frame' = frame, disk' = disk,
         \A b \in Blocks : past'[b] \subseteq past[b],
         txn_blocks' = <<>>, running' = 0, durable_lsn <= durable_lsn',
         \A b \in Blocks : Image'[b] = Image[b],
         \A b \in Blocks : frame[b].in_txn => pc' \in InTransaction \cup {"failed_txn"},
         \A b \in Blocks : frame[b].dirty =>
            \A n \in Cuts' : \A s \in Found' : ~s.clean /\ Redone(n, s.ckpt, b)' # {},
         Written' => \A b \in Blocks : ~frame[b].dirty /\ past'[b] = {}
  PROVE  FrameInv'
<1> SUFFICES ASSUME NEW b \in Blocks PROVE FrameOK(b)' BY DEF FrameInv
<1>1. FrameOK(b) /\ frame[b].lsn \in Nat BY FrameFields DEF Core, FrameInv
<1>2. frame[b].dirty => frame[b].lsn <= durable_lsn'
  <2>1. durable_lsn \in Nat /\ durable_lsn' \in Nat BY DEF Core, TypeOK
  <2> QED BY <1>1, <2>1 DEF FrameOK
<1>3. pc' = "up" => (frame[b].in_txn <=> \E k \in DOMAIN txn_blocks' : txn_blocks'[k] = b)
  BY DEF InTransaction
<1> QED BY <1>1, <1>2, <1>3 DEF FrameOK

\* While mounted, the log is the one that recovery would find.
LEMMA LiveLog ==
  ASSUME Core, Live, pc \notin {"ckpt_resetsync", "failed_ckpt"}
  PROVE  /\ truncated = <<>> /\ OldLog = log /\ Len(log) \in Nat /\ DOMAIN log = 1..Len(log)
         /\ Len(log) \in Cuts /\ \A n \in Cuts : n \in Nat /\ n <= Len(log)
<1>1. TypeOK /\ LogInv BY DEF Core
<1>2. truncated = <<>> BY <1>1 DEF LogInv
<1>3. OldLog = log /\ Len(log) \in Nat /\ DOMAIN log = 1..Len(log) BY <1>1, <1>2, OldLogType
<1>4. "power" \in failures => synced \in Nat /\ synced <= Len(log) BY <1>1, <1>3 DEF LogInv, TypeOK
<1>5. Len(log) \in Cuts /\ \A n \in Cuts : n \in Nat /\ n <= Len(log)
  <2>1. CASE "power" \in failures
    <3>1. Cuts = synced..Len(log) BY <1>2, <1>3, <2>1 DEF Cuts
    <3> QED BY <1>3, <1>4, <2>1, <3>1
  <2>2. CASE "power" \notin failures
    <3>1. Cuts = {Len(log)} BY <2>2 DEF Cuts
    <3> QED BY <1>3, <3>1
  <2> QED BY <2>1, <2>2
<1> QED BY <1>2, <1>3, <1>5

\* A transaction is taken over for the commit.
LEMMA StartCommitKeeps ==
  ASSUME Core, NEW ckpt \in BOOLEAN, NEW closing \in BOOLEAN, StartCommit(ckpt, closing), UNCHANGED failures
  PROVE  Core'
<1>0. TypeOK /\ CrashInv /\ ReplayInv /\ LsnInv /\ LogInv /\ CleanInv /\ FrameInv BY DEF Core
<1>1. TypeOK' BY CommitType DEF Commit
<1>2. /\ pc = "up" /\ running = 0 /\ (closing => ckpt) /\ txn_blocks' = <<>>
      /\ job' = [blocks |-> txn_blocks, txn |-> next_lsn, ckpt |-> ckpt, closing |-> closing]
      /\ pc' = IF txn_blocks = <<>> THEN "decide" ELSE "stage"
      /\ prep' = [b \in Blocks |-> Current(b)]
      /\ UNCHANGED <<image, super, wal, frame, running, lsns, pos, stable, crashes>>
  BY DEF StartCommit
<1>3. Live /\ Live' BY <1>2 DEF Live, Recovering
<1>4. /\ job'.blocks = txn_blocks /\ job'.txn = next_lsn /\ (job'.closing => job'.ckpt) BY <1>2
<1>5. /\ OldLog' = OldLog /\ Cuts' = Cuts /\ Found' = Found
      /\ \A n, c, b : Redone(n, c, b)' = Redone(n, c, b)
  BY <1>2, SameWal DEF Found, super
<1>6. ASSUME NEW b \in Blocks
      PROVE  /\ ~frame[b].in_txn => prep'[b] = stable[b]
             /\ frame[b].in_txn => prep'[b] = frame[b].data
             /\ frame[b].in_txn <=> InJob(b)'
  <2>1. FrameOK(b) BY <1>0, <1>3 DEF FrameInv
  <2>2. Image = stable BY <1>2 DEF Image, InCheckpoint
  <2>3. prep'[b] = Current(b) BY <1>2
  <2> QED BY <1>2, <1>4, <2>1, <2>2, <2>3 DEF FrameOK, Current, InJob
<1>7. \A b \in Blocks : pc' = "decide" => ~frame[b].in_txn
  <2>1. DOMAIN <<>> = {} OBVIOUS
  <2> QED BY <1>0, <1>2, <1>3, <2>1 DEF FrameInv, FrameOK
<1>8. pc' = "decide" => prep' = stable BY <1>0, <1>1, <1>6, <1>7, SameImage DEF TypeOK
<1>9. CrashInv'
  <2>1. \A n : Targets(n) = {stable} /\ Targets(n)' = {stable}
    BY <1>2, <1>8 DEF Targets, Recovering, After, InCheckpoint
  <2> QED BY <1>0, <1>2, <1>5, <2>1, CrashKeeps DEF image
<1>10. ReplayInv' BY <1>0, <1>2, <1>3, ReplayLive DEF ReplayInv
<1>11. JobInv'
  <2>1. \A i \in DOMAIN log' : log'[i].lsn < next_lsn /\ log'[i].txn < next_lsn /\ log'[i].lsn \in Nat /\ log'[i].txn \in Nat
    BY <1>0, <1>2, <1>3, OldLogType, RecordFields DEF LsnInv, wal
  <2>2. next_lsn' = next_lsn /\ next_lsn \in Nat /\ frame' = frame /\ stable' = stable /\ pos' = 0
    BY <1>0, <1>2 DEF lsns, TypeOK, ReplayInv
  <2>3. \A k \in DOMAIN job'.blocks : k >= 1 /\ k \in Nat BY <1>0, <1>4, LenProperties DEF TypeOK
  <2>4. \A i \in DOMAIN log' : log'[i].txn # job'.txn /\ ~(log'[i].lsn >= job'.txn) BY <1>4, <2>1, <2>2
  <2>5. pc' \notin {"append", "commit_sync", "frames"} BY <1>2
  <2>6. job'.txn <= next_lsn' BY <1>4, <2>2
  <2> QED BY <1>4, <1>6, <2>2, <2>3, <2>4, <2>5, <2>6 DEF JobInv, InTransaction
<1>12. LsnInv' BY <1>0, <1>2, <1>3, <1>5 DEF LsnInv, wal, lsns, super
<1>13. LogInv' BY <1>0, <1>2, <1>3, <1>5 DEF LogInv, Emptied, wal
<1>14. \A s \in Found : ~s.clean BY <1>0, <1>2, <1>3, UncleanLive
<1>15. CleanInv' /\ CleanOwesNothing' BY <1>5, <1>14 DEF CleanInv, CleanOwesNothing, Found
<1>16. FrameInv'
  <2>1. \A b \in Blocks : Image'[b] = Image[b] BY <1>2, <1>8 DEF Image, InCheckpoint
  <2>2. \A b \in Blocks : frame[b].in_txn => pc' \in InTransaction BY <1>2, <1>7 DEF InTransaction
  <2>3. ~Written' BY <1>2 DEF Written, Emptied
  <2>4. \A b \in Blocks : frame[b].dirty => \A n \in Cuts' : \A s \in Found' : ~s.clean /\ Redone(n, s.ckpt, b)' # {}
    BY <1>0, <1>3, <1>5 DEF FrameInv, FrameOK
  <2>5. durable_lsn <= durable_lsn' BY <1>0, <1>2 DEF lsns, TypeOK
  <2> QED BY <1>2, <1>3, <2>1, <2>2, <2>3, <2>4, <2>5, <1>1, FramesStay DEF image
<1> QED BY <1>1, <1>9, <1>10, <1>11, <1>12, <1>13, <1>15, <1>16 DEF Core

\* A record is appended to the log.
LEMMA AppendEffect ==
  ASSUME Core, Live, pc \notin {"ckpt_resetsync", "failed_ckpt"}, NEW r \in Records,
         log' = Append(log, r), UNCHANGED <<synced, truncated, failures>>
  PROVE  /\ OldLog = log /\ OldLog' = log' /\ Len(log) \in Nat /\ Len(log') = Len(log) + 1
         /\ DOMAIN log = 1..Len(log) /\ DOMAIN log' = 1..(Len(log) + 1)
         /\ log'[Len(log) + 1] = r /\ \A i \in 1..Len(log) : log'[i] = log[i]
         /\ \A n \in 0..Len(log) : \A c, b : Redone(n, c, b)' = Redone(n, c, b)
         /\ Len(log) \in Cuts /\ \A n \in Cuts' : n = Len(log) + 1 \/ (n \in Cuts /\ n \in 0..Len(log))
<1>1. /\ truncated = <<>> /\ OldLog = log /\ Len(log) \in Nat /\ DOMAIN log = 1..Len(log)
      /\ Len(log) \in Cuts
  BY LiveLog
<1>2. log \in Seq(Records) BY DEF Core, TypeOK
<1>3. /\ Len(log') = Len(log) + 1 /\ DOMAIN log' = 1..(Len(log) + 1)
      /\ log'[Len(log) + 1] = r /\ \A i \in 1..Len(log) : log'[i] = log[i]
  BY <1>2, AppendProperties
<1>4. OldLog' = log' BY <1>1 DEF OldLog
<1>5. ASSUME NEW n \in 0..Len(log) PROVE \A c, b : Redone(n, c, b)' = Redone(n, c, b)
  <2>1. \A i \in 1..n : OldLog'[i] = OldLog[i] BY <1>1, <1>3, <1>4
  <2> QED BY <2>1, SameRedone
<1>6. ASSUME NEW n \in Cuts' PROVE n = Len(log) + 1 \/ (n \in Cuts /\ n \in 0..Len(log))
  <2>1. CASE "power" \in failures
    <3>1. Cuts = synced..Len(log) /\ Cuts' = synced..(Len(log) + 1)
      BY <1>1, <1>3, <1>4, <2>1 DEF Cuts
    <3>2. synced \in Nat BY DEF Core, TypeOK
    <3> QED BY <1>1, <3>1, <3>2
  <2>2. CASE "power" \notin failures BY <1>3, <2>2 DEF Cuts
  <2> QED BY <2>1, <2>2
<1> QED BY <1>1, <1>3, <1>4, <1>5, <1>6

\* A step of write_txn that appends a record of its transaction.
LEMMA WriteTxnEffect ==
  ASSUME Core, pc \in {"stage", "append"}, NEW r \in Records, r.txn = job.txn, r.lsn = next_lsn,
         log' = Append(log, r), next_lsn' = r.lsn + 1,
         UNCHANGED <<synced, truncated, failures, super, durable_lsn, job>>,
         Live', pc' \in {"stage", "commit_sync"}, ~Emptied'
  PROVE  LsnInv' /\ LogInv' /\ CleanInv' /\ CleanOwesNothing' /\ Found' = Found
<1>0. TypeOK /\ LsnInv /\ LogInv /\ CleanInv BY DEF Core
<1>1. Live /\ pc # "close_sync" /\ pc \notin {"ckpt_resetsync", "failed_ckpt"} BY DEF Live, Recovering
<1>2. /\ OldLog = log /\ OldLog' = log' /\ Len(log) \in Nat /\ Len(log') = Len(log) + 1
      /\ DOMAIN log = 1..Len(log) /\ DOMAIN log' = 1..(Len(log) + 1)
      /\ log'[Len(log) + 1] = r /\ \A i \in 1..Len(log) : log'[i] = log[i]
  BY <1>1, AppendEffect
<1>3. Found' = Found /\ \A s \in Found : ~s.clean BY <1>0, <1>1, UncleanLive DEF Found, super
<1>4. CleanInv' /\ CleanOwesNothing' BY <1>3 DEF CleanInv, CleanOwesNothing, Found
<1>5. /\ \A i \in 1..Len(log) : /\ log[i].lsn \in Nat /\ log[i].txn \in Nat
                                /\ log[i].lsn < next_lsn /\ log[i].txn < next_lsn
                                /\ log[i].lsn > sb.ckpt
      /\ next_lsn \in Nat /\ sb.ckpt \in Nat /\ durable_lsn \in Nat /\ durable_lsn < next_lsn
      /\ sb.ckpt < next_lsn /\ job.txn \in Nat /\ job.txn <= next_lsn
  <2>1. \A i \in 1..Len(log) : log[i].lsn \in Nat /\ log[i].txn \in Nat BY <1>0, OldLogType, RecordFields
  <2>2. next_lsn \in Nat /\ sb.ckpt \in Nat /\ durable_lsn \in Nat /\ job.txn \in Nat
    BY <1>0 DEF TypeOK, Superblocks, Jobs
  <2>3. job.txn <= next_lsn BY DEF Core, JobInv, InTransaction
  <2> QED BY <1>0, <1>1, <1>2, <2>1, <2>2, <2>3 DEF LsnInv
<1>6. LsnInv'
  <2>1. \A i, j \in DOMAIN OldLog' : i < j => OldLog'[i].lsn < OldLog'[j].lsn
    <3> SUFFICES ASSUME NEW i \in 1..(Len(log) + 1), NEW j \in 1..(Len(log) + 1), i < j
                 PROVE  log'[i].lsn < log'[j].lsn
      BY <1>2
    <3>1. i \in 1..Len(log) /\ log'[i] = log[i] BY <1>2
    <3>2. CASE j = Len(log) + 1 BY <1>2, <1>5, <3>1, <3>2
    <3>3. CASE j # Len(log) + 1
      <4>1. j \in 1..Len(log) BY <1>2, <3>3
      <4> QED BY <1>0, <1>2, <3>1, <4>1 DEF LsnInv
    <3> QED BY <3>2, <3>3
  <2>2. \A i \in DOMAIN log' : /\ log'[i].lsn < next_lsn' /\ log'[i].txn < next_lsn' /\ log'[i].lsn > sb.ckpt
    <3> SUFFICES ASSUME NEW i \in 1..(Len(log) + 1)
                 PROVE  log'[i].lsn < next_lsn' /\ log'[i].txn < next_lsn' /\ log'[i].lsn > sb.ckpt
      BY <1>2
    <3>1. CASE i = Len(log) + 1 BY <1>2, <1>5, <3>1
    <3>2. CASE i # Len(log) + 1
      <4>1. i \in 1..Len(log) /\ log'[i] = log[i] BY <1>2, <3>2
      <4> QED BY <1>5, <4>1
    <3> QED BY <3>1, <3>2
  <2>3. durable_lsn' < next_lsn' /\ sb'.ckpt < next_lsn' BY <1>5 DEF super
  <2>4. sb' = sb /\ sbPast' = sbPast BY DEF super
  <2>5. pc' \notin {"mark", "mark_sync"} BY DEF Live, Recovering
  <2>6. \A s \in sbPast : s.ckpt <= sb.ckpt BY <1>0 DEF LsnInv
  <2> QED BY <2>1, <2>2, <2>3, <2>4, <2>5, <2>6 DEF LsnInv
<1>7. LogInv'
  <2>1. truncated' = <<>> BY <1>0, <1>1 DEF LogInv
  <2>2. "power" \in failures => synced' <= Len(OldLog')
    <3>1. "power" \in failures => synced <= Len(log) BY <1>0, <1>2 DEF LogInv
    <3>2. synced \in Nat BY <1>0 DEF TypeOK
    <3>3. synced <= Len(log) => synced <= Len(log) + 1 BY <1>2, <3>2
    <3> QED BY <1>2, <3>1, <3>3
  <2>3. pc' \notin {"reset_sync", "down", "replay", "replay_sb", "replay_sbsync", "reset"}
    BY DEF Live, Recovering
  <2> QED BY <2>1, <2>2, <2>3 DEF LogInv
<1> QED BY <1>3, <1>4, <1>6, <1>7

\* BEGIN or a BLOCK record is appended: recovery would not redo it yet.
LEMMA StageKeeps ==
  ASSUME Core, Stage, UNCHANGED failures
  PROVE  Core'
<1>0. TypeOK /\ CrashInv /\ ReplayInv /\ JobInv /\ LsnInv /\ LogInv /\ CleanInv /\ FrameInv BY DEF Core
<1>1. TypeOK' BY CommitType DEF Commit
<1>2. /\ pc = "stage" /\ pc' = "stage" /\ pos <= Len(job.blocks) /\ pos' = pos + 1
      /\ UNCHANGED <<image, super, synced, truncated, cache, running, durable_lsn, job, stable, prep, crashes>>
  BY DEF Stage
<1>3. Live /\ Live' /\ pc \notin {"ckpt_resetsync", "failed_ckpt"} /\ pos \in Nat
  BY <1>0, <1>2 DEF Live, Recovering, TypeOK
<1>4. PICK r \in Records :
         /\ log' = Append(log, r) /\ next_lsn' = r.lsn + 1 /\ r.lsn = next_lsn /\ r.txn = job.txn
         /\ IF pos = 0 THEN r.type = "BEGIN"
            ELSE /\ r.type = "BLOCK" /\ pos \in DOMAIN job.blocks /\ r.block = job.blocks[pos]
                 /\ r.data = frame[job.blocks[pos]].data
  <2>1. CASE pos = 0
    <3> DEFINE r == Record("BEGIN", job.txn, next_lsn)
    <3>1. r \in Records /\ r.lsn = next_lsn /\ r.txn = job.txn /\ r.type = "BEGIN"
      BY <1>0 DEF Record, Records, TypeOK, Jobs
    <3>2. LogAppend(r) BY <2>1 DEF Stage
    <3> HIDE DEF r
    <3> QED BY <2>1, <3>1, <3>2 DEF LogAppend
  <2>2. CASE pos # 0
    <3> DEFINE b == job.blocks[pos]
               r == BlockRecord(job.txn, next_lsn, b, frame[b].data)
    <3>1. pos \in DOMAIN job.blocks /\ b \in Blocks BY <1>0, <1>2, <1>3, <2>2 DEF TypeOK, Jobs
    <3>2. frame[b].data \in Contents BY <1>0, <3>1, FrameFields
    <3>3. LogAppend(r) BY <2>2 DEF Stage
    <3>4. r \in Records /\ r.lsn = next_lsn /\ r.txn = job.txn /\ r.type = "BLOCK" /\ r.block = b /\ r.data = frame[b].data
      BY <1>0, <3>1, <3>2 DEF BlockRecord, Records, TypeOK, Jobs
    <3> HIDE DEF r
    <3> QED BY <2>2, <3>1, <3>3, <3>4 DEF LogAppend
  <2> QED BY <2>1, <2>2
<1>5. /\ OldLog = log /\ OldLog' = log' /\ Len(log) \in Nat /\ Len(log') = Len(log) + 1
      /\ DOMAIN log = 1..Len(log) /\ DOMAIN log' = 1..(Len(log) + 1)
      /\ log'[Len(log) + 1] = r /\ \A i \in 1..Len(log) : log'[i] = log[i]
      /\ \A n \in 0..Len(log) : \A c, b : Redone(n, c, b)' = Redone(n, c, b)
      /\ Len(log) \in Cuts /\ \A n \in Cuts' : n = Len(log) + 1 \/ (n \in Cuts /\ n \in 0..Len(log))
  BY <1>2, <1>3, <1>4, AppendEffect
<1>6. LsnInv' /\ LogInv' /\ CleanInv' /\ CleanOwesNothing' /\ Found' = Found
  <2>1. ~Emptied' BY <1>2 DEF Emptied
  <2> QED BY <1>2, <1>3, <1>4, <2>1, WriteTxnEffect
<1>7. ASSUME NEW n, n = Len(log) + 1, NEW c, NEW b PROVE Redone(n, c, b)' = Redone(Len(log), c, b)
  <2>1. r.type # "COMMIT" BY <1>4
  <2>2. \A j \in 1..Len(log) : log[j].type = "COMMIT" => log[j].txn # job.txn
    BY <1>0, <1>2, <1>5 DEF JobInv, InTransaction
  <2>3. 1..n = (1..Len(log)) \cup {Len(log) + 1} BY <1>5, <1>7
  <2>4. Redone(n, c, b)' =
          {i \in 1..n : /\ log'[i].type = "BLOCK" /\ log'[i].block = b /\ log'[i].lsn > c
                        /\ \E j \in 1..n : log'[j].type = "COMMIT" /\ log'[j].txn = log'[i].txn}
    BY <1>5 DEF Redone
  <2>5. Redone(Len(log), c, b) =
          {i \in 1..Len(log) : /\ log[i].type = "BLOCK" /\ log[i].block = b /\ log[i].lsn > c
                               /\ \E j \in 1..Len(log) : log[j].type = "COMMIT" /\ log[j].txn = log[i].txn}
    BY <1>5 DEF Redone
  <2> DEFINE l == log'
             k == Len(log)
             ends(i) == \E j \in 1..n : l[j].type = "COMMIT" /\ l[j].txn = l[i].txn
             ended(i) == \E j \in 1..k : log[j].type = "COMMIT" /\ log[j].txn = log[i].txn
  <2>6. /\ \A j \in 1..n : j \in 1..k \/ j = k + 1
        /\ \A j \in 1..k : j \in 1..n /\ l[j] = log[j]
        /\ l[k + 1] = r /\ k + 1 \notin 1..k
    BY <1>5, <2>3
  <2>7. \A i \in 1..k : ends(i) <=> ended(i) BY <2>1, <2>6
  <2>8. ~ends(k + 1) BY <1>4, <2>1, <2>2, <2>6
  <2> HIDE DEF ends, ended
  <2>9. \A i : i \in {x \in 1..n : l[x].type = "BLOCK" /\ l[x].block = b /\ l[x].lsn > c /\ ends(x)}
                <=> i \in {x \in 1..k : log[x].type = "BLOCK" /\ log[x].block = b /\ log[x].lsn > c /\ ended(x)}
    BY <2>6, <2>7, <2>8
  <2> QED BY <2>4, <2>5, <2>9 DEF ends, ended
<1>8. CrashInv'
  <2> SUFFICES ASSUME NEW n \in Cuts', NEW s \in Found', ~s.clean PROVE Recovers(n, s.ckpt, stable)'
    BY <1>2 DEF CrashInv, Targets, Recovering, After, InCheckpoint
  <2>1. PICK m \in Cuts : m \in 0..Len(log) /\ \A b : Redone(n, s.ckpt, b)' = Redone(m, s.ckpt, b)
    BY <1>5, <1>7
  <2>2. Recovers(m, s.ckpt, stable)
    BY <1>0, <1>2, <1>6, <2>1 DEF CrashInv, Targets, Recovering, After, InCheckpoint
  <2>3. \A i \in 1..Len(log) : OldLog'[i] = OldLog[i] BY <1>5
  <2>4. \A b : \A i \in Redone(m, s.ckpt, b) : i \in 1..Len(log)
    BY <1>5, <2>1, RedoneIn
  <2>5. disk' = disk /\ past' = past /\ stable' = stable BY <1>2 DEF image
  <2> QED BY <2>1, <2>2, <2>3, <2>4, <2>5 DEF Recovers
<1>9. ReplayInv' BY <1>2, <1>3, ReplayLive
<1>10. JobInv'
  <2>1. frame' = frame /\ prep' = prep /\ stable' = stable /\ job' = job /\ pc' = pc BY <1>2 DEF cache
  <2>2. \A b : InJob(b)' <=> InJob(b) BY <2>1 DEF InJob
  <2>3. next_lsn \in Nat /\ job.txn \in Nat /\ job.txn <= next_lsn /\ next_lsn' = next_lsn + 1
    BY <1>0, <1>2, <1>4 DEF TypeOK, Jobs, JobInv, InTransaction
  <2>4. \A i \in DOMAIN log' :
          /\ (log'[i].txn = job.txn <=> log'[i].lsn >= job.txn)
          /\ log'[i].txn = job.txn /\ log'[i].type = "BLOCK" =>
                InJob(log'[i].block) /\ log'[i].data = prep[log'[i].block]
          /\ log'[i].txn = job.txn => log'[i].type # "COMMIT"
    <3> SUFFICES ASSUME NEW i \in 1..(Len(log) + 1)
                 PROVE  /\ (log'[i].txn = job.txn <=> log'[i].lsn >= job.txn)
                        /\ log'[i].txn = job.txn /\ log'[i].type = "BLOCK" =>
                              InJob(log'[i].block) /\ log'[i].data = prep[log'[i].block]
                        /\ log'[i].txn = job.txn => log'[i].type # "COMMIT"
      BY <1>5
    <3>1. CASE i = Len(log) + 1
      <4>1. log'[i] = r BY <1>5, <3>1
      <4>2. r.type = "BLOCK" => InJob(r.block) /\ r.data = prep[r.block]
        <5>1. ASSUME r.type = "BLOCK"
              PROVE  /\ pos \in DOMAIN job.blocks /\ r.block = job.blocks[pos]
                     /\ r.data = frame[r.block].data /\ r.block \in Blocks
          BY <1>0, <1>4, <5>1, RecordFields
        <5>2. ASSUME r.type = "BLOCK" PROVE InJob(r.block) BY <5>1, <5>2 DEF InJob
        <5> QED BY <1>0, <1>2, <5>1, <5>2 DEF JobInv, InTransaction
      <4>3. r.type # "COMMIT" BY <1>4
      <4> QED BY <1>4, <2>3, <4>1, <4>2, <4>3
    <3>2. CASE i # Len(log) + 1
      <4>1. i \in 1..Len(log) /\ log'[i] = log[i] BY <1>5, <3>2
      <4> QED BY <1>0, <1>2, <1>5, <4>1 DEF JobInv, InTransaction
    <3> QED BY <3>1, <3>2
  <2>5. ASSUME NEW k \in DOMAIN job.blocks, k < pos'
        PROVE  \E i \in DOMAIN log' : log'[i].type = "BLOCK" /\ log'[i].txn = job.txn /\ log'[i].block = job.blocks[k]
    <3>0. k \in Nat /\ k >= 1 BY <1>0, LenProperties DEF TypeOK, Jobs
    <3>1. CASE k = pos
      <4>1. r.type = "BLOCK" /\ r.block = job.blocks[k] /\ r.txn = job.txn BY <1>4, <3>0, <3>1
      <4> QED BY <1>5, <4>1
    <3>2. CASE k # pos
      <4>1. k < pos BY <1>2, <1>3, <2>5, <3>0, <3>2
      <4>2. PICK i \in DOMAIN log : log[i].type = "BLOCK" /\ log[i].txn = job.txn /\ log[i].block = job.blocks[k]
        BY <1>0, <1>2, <4>1 DEF JobInv, InTransaction
      <4>3. i \in DOMAIN log' /\ log'[i] = log[i] BY <1>5, <4>2
      <4> QED BY <4>2, <4>3
    <3> QED BY <3>1, <3>2
  <2>6. job.txn <= next_lsn' BY <2>3
  <2>7. /\ \A b \in Blocks : ~frame[b].in_txn => prep[b] = stable[b]
        /\ \A b \in Blocks : (frame[b].in_txn <=> InJob(b)) /\ (InJob(b) => frame[b].data = prep[b])
        /\ job.closing => job.ckpt
    BY <1>0, <1>2 DEF JobInv, InTransaction
  <2> QED BY <1>2, <2>1, <2>2, <2>4, <2>5, <2>6, <2>7 DEF JobInv
<1>11. FrameInv'
  <2>1. \A b \in Blocks : Image'[b] = Image[b] BY <1>2 DEF Image, InCheckpoint
  <2>2. \A b \in Blocks : frame[b].in_txn => pc' \in InTransaction BY <1>2 DEF InTransaction
  <2>3. ~Written' BY <1>2 DEF Written, Emptied
  <2>4. ASSUME NEW b \in Blocks, frame[b].dirty, NEW n \in Cuts', NEW s \in Found'
        PROVE  ~s.clean /\ Redone(n, s.ckpt, b)' # {}
    <3>1. \E m \in Cuts : Redone(n, s.ckpt, b)' = Redone(m, s.ckpt, b) BY <1>5, <1>7
    <3> QED BY <1>0, <1>3, <1>6, <2>4, <3>1 DEF FrameInv, FrameOK
  <2>5. durable_lsn <= durable_lsn' BY <1>0, <1>2 DEF TypeOK
  <2>6. txn_blocks' = <<>> /\ running' = 0 BY <1>0, <1>2 DEF FrameInv, cache
  <2> QED BY <1>1, <1>2, <1>3, <2>1, <2>2, <2>3, <2>4, <2>5, <2>6, FramesStay DEF image, cache
<1> QED BY <1>1, <1>6, <1>8, <1>9, <1>10, <1>11 DEF Core

\* The log is synced: after the blocks, and after the COMMIT record.
LEMMA LogSyncKeeps ==
  ASSUME Core, StageSync \/ CommitSync, UNCHANGED failures
  PROVE  Core'
<1>0. TypeOK /\ CrashInv /\ ReplayInv /\ JobInv /\ LsnInv /\ LogInv /\ CleanInv /\ FrameInv BY DEF Core
<1>1. TypeOK' BY CommitType DEF Commit
<1>2. /\ \/ pc = "stage" /\ pc' = "append" /\ pos > Len(job.blocks)
         \/ pc = "commit_sync" /\ pc' = "frames"
      /\ synced' = Len(log) /\ durable_lsn' = next_lsn - 1 /\ pos' = 0
      /\ UNCHANGED <<image, super, log, truncated, cache, running, next_lsn, job, history>>
  BY DEF StageSync, CommitSync, LogSync, Step
<1>3. Live /\ Live' /\ pc \notin {"ckpt_resetsync", "failed_ckpt", "close_sync"}
  BY <1>2 DEF Live, Recovering
<1>4. /\ truncated = <<>> /\ OldLog = log /\ Len(log) \in Nat /\ DOMAIN log = 1..Len(log)
      /\ Len(log) \in Cuts
  BY <1>3, LiveLog
<1>5. Found' = Found /\ \A s \in Found : ~s.clean BY <1>0, <1>2, <1>3, UncleanLive DEF Found, super
<1>6. OldLog' = OldLog /\ \A n, c, b : Redone(n, c, b)' = Redone(n, c, b)
  <2>1. OldLog' = OldLog BY <1>2 DEF OldLog
  <2> QED BY <2>1, SameRedone
<1>7. Cuts' = {Len(log)} BY <1>2, <1>4, <1>6 DEF Cuts
<1>8. next_lsn \in Nat /\ durable_lsn \in Nat /\ durable_lsn <= durable_lsn' /\ durable_lsn' < next_lsn
  BY <1>0, <1>2, <1>3 DEF TypeOK, LsnInv
<1>9. CrashInv'
  <2>1. Targets(Len(log)) = IF pc = "stage" THEN {stable} ELSE {prep}
    BY <1>2 DEF Targets, Recovering, After, InCheckpoint
  <2>2. \A n : Targets(n)' = IF pc = "stage" THEN {stable} ELSE {prep}
    BY <1>2 DEF Targets, Recovering, After, InCheckpoint, history
  <2>3. \A n \in Cuts' : Targets(n) \subseteq Targets(n)' BY <1>7, <2>1, <2>2
  <2> QED BY <1>0, <1>2, <1>4, <1>5, <1>6, <1>7, <2>3, CrashKeeps DEF image
<1>10. ReplayInv' BY <1>2, <1>3, ReplayLive
<1>11. JobInv'
  <2>1. \A b : InJob(b)' <=> InJob(b) BY <1>2 DEF InJob
  <2>2. ASSUME NEW k \in DOMAIN job.blocks, pc = "stage" PROVE k < pos
    <3>1. k \in 1..Len(job.blocks) /\ Len(job.blocks) \in Nat BY <1>0, LenProperties DEF TypeOK, Jobs
    <3>2. pos \in Nat BY <1>0 DEF TypeOK
    <3> QED BY <1>2, <2>2, <3>1, <3>2
  <2>3. frame' = frame /\ stable' = stable /\ prep' = prep BY <1>2 DEF cache, history
  <2> QED BY <1>0, <1>2, <2>1, <2>2, <2>3 DEF JobInv, InTransaction
<1>12. LsnInv' BY <1>0, <1>2, <1>3, <1>6, <1>8 DEF LsnInv, super
<1>13. LogInv' BY <1>0, <1>2, <1>3, <1>4, <1>6 DEF LogInv, Emptied
<1>14. CleanInv' /\ CleanOwesNothing' BY <1>5 DEF CleanInv, CleanOwesNothing, Found
<1>15. FrameInv'
  <2>1. \A b \in Blocks : Image'[b] = Image[b] BY <1>2 DEF Image, InCheckpoint, history
  <2>2. \A b \in Blocks : frame[b].in_txn => pc' \in InTransaction BY <1>2 DEF InTransaction
  <2>3. ~Written' BY <1>2 DEF Written, Emptied
  <2>4. \A b \in Blocks : frame[b].dirty => \A n \in Cuts' : \A s \in Found' : ~s.clean /\ Redone(n, s.ckpt, b)' # {}
    BY <1>0, <1>3, <1>4, <1>5, <1>6, <1>7 DEF FrameInv, FrameOK
  <2>5. txn_blocks' = <<>> /\ running' = 0 BY <1>0, <1>2 DEF FrameInv, cache
  <2> QED BY <1>1, <1>2, <1>3, <1>8, <2>1, <2>2, <2>3, <2>4, <2>5, FramesStay DEF image, cache
<1> QED BY <1>1, <1>9, <1>10, <1>11, <1>12, <1>13, <1>14, <1>15 DEF Core

\* The COMMIT record is appended: from now on recovery may find the transaction, and
\* then finds all of it.
LEMMA AppendCommitKeeps ==
  ASSUME Core, AppendCommit, UNCHANGED failures
  PROVE  Core'
<1>0. TypeOK /\ CrashInv /\ ReplayInv /\ JobInv /\ LsnInv /\ LogInv /\ CleanInv /\ FrameInv BY DEF Core
<1>1. TypeOK' BY CommitType DEF Commit
<1> DEFINE r == Record("COMMIT", job.txn, next_lsn)
<1>2. /\ pc = "append" /\ pc' = "commit_sync" /\ LogAppend(r)
      /\ UNCHANGED <<image, super, synced, truncated, cache, running, durable_lsn, job, pos,
                     stable, prep, crashes>>
  BY DEF AppendCommit, Step
<1>3. r \in Records /\ r.lsn = next_lsn /\ r.txn = job.txn /\ r.type = "COMMIT"
  BY <1>0 DEF Record, Records, TypeOK, Jobs
<1> HIDE DEF r
<1>4. Live /\ Live' /\ pc \notin {"ckpt_resetsync", "failed_ckpt"} BY <1>2 DEF Live, Recovering
<1>5. log' = Append(log, r) /\ next_lsn' = r.lsn + 1 BY <1>2 DEF LogAppend
<1>6. /\ OldLog = log /\ OldLog' = log' /\ Len(log) \in Nat /\ Len(log') = Len(log) + 1
      /\ DOMAIN log = 1..Len(log) /\ DOMAIN log' = 1..(Len(log) + 1)
      /\ log'[Len(log) + 1] = r /\ \A i \in 1..Len(log) : log'[i] = log[i]
      /\ \A n \in 0..Len(log) : \A c, b : Redone(n, c, b)' = Redone(n, c, b)
      /\ Len(log) \in Cuts /\ \A n \in Cuts' : n = Len(log) + 1 \/ (n \in Cuts /\ n \in 0..Len(log))
  BY <1>2, <1>3, <1>4, <1>5, AppendEffect
<1>7. LsnInv' /\ LogInv' /\ CleanInv' /\ CleanOwesNothing' /\ Found' = Found
  <2>1. ~Emptied' BY <1>2 DEF Emptied
  <2> QED BY <1>2, <1>3, <1>4, <1>5, <2>1, WriteTxnEffect
\* What recovery redoes when it finds the record.
<1>8. ASSUME NEW n, n = Len(log) + 1, NEW c, NEW b, NEW i
      PROVE  i \in Redone(n, c, b)' <=> \/ i \in Redone(Len(log), c, b)
                                        \/ /\ i \in 1..Len(log) /\ log[i].type = "BLOCK" /\ log[i].block = b
                                           /\ log[i].lsn > c /\ log[i].txn = job.txn
  <2>1. 1..n = (1..Len(log)) \cup {Len(log) + 1} BY <1>6, <1>8
  <2>2. i \in Redone(n, c, b)' <=>
          /\ i \in 1..n /\ log'[i].type = "BLOCK" /\ log'[i].block = b /\ log'[i].lsn > c
          /\ \E j \in 1..n : log'[j].type = "COMMIT" /\ log'[j].txn = log'[i].txn
    BY <1>6 DEF Redone
  <2>3. i \in Redone(Len(log), c, b) <=>
          /\ i \in 1..Len(log) /\ log[i].type = "BLOCK" /\ log[i].block = b /\ log[i].lsn > c
          /\ \E j \in 1..Len(log) : log[j].type = "COMMIT" /\ log[j].txn = log[i].txn
    BY <1>6 DEF Redone
  <2>4. CASE i \in 1..Len(log)
    <3>1. (\E j \in 1..n : log'[j].type = "COMMIT" /\ log'[j].txn = log'[i].txn)
          <=> log[i].txn = job.txn \/ \E j \in 1..Len(log) : log[j].type = "COMMIT" /\ log[j].txn = log[i].txn
      BY <1>3, <1>6, <2>1, <2>4
    <3>2. i \in 1..n /\ log'[i] = log[i] BY <1>6, <2>1, <2>4
    <3> QED BY <2>2, <2>3, <2>4, <3>1, <3>2
  <2>5. CASE i \notin 1..Len(log)
    <3>1. i \notin Redone(n, c, b)'
      <4>1. i \in 1..n => log'[i].type = "COMMIT" BY <1>3, <1>6, <2>1, <2>5
      <4> QED BY <2>2, <4>1
    <3> QED BY <2>3, <2>5, <3>1
  <2> QED BY <2>4, <2>5
<1>9. \A s \in Found : s.ckpt \in Nat /\ \A i \in 1..Len(log) : log[i].lsn > s.ckpt /\ log[i].lsn \in Nat /\ log[i].txn \in Nat
  <2>1. \A i \in 1..Len(log) : log[i].lsn \in Nat /\ log[i].txn \in Nat /\ log[i].lsn > sb.ckpt
    BY <1>0, <1>2, <1>4, <1>6, OldLogType, RecordFields DEF LsnInv
  <2>2. \A s \in Found : s.ckpt \in Nat /\ s.ckpt <= sb.ckpt /\ sb.ckpt \in Nat
    BY <1>0 DEF LsnInv, Found, TypeOK, Superblocks
  <2> QED BY <2>1, <2>2
<1>10. CrashInv'
  <2> SUFFICES ASSUME NEW n \in Cuts', NEW s \in Found', ~s.clean
               PROVE  \E T \in Targets(n)' : Recovers(n, s.ckpt, T)'
    BY DEF CrashInv
  <2>1. disk' = disk /\ past' = past /\ stable' = stable /\ prep' = prep /\ s \in Found BY <1>2, <1>7 DEF image
  <2>2. \A m \in Cuts : Recovers(m, s.ckpt, stable)
    BY <1>0, <1>2, <2>1 DEF CrashInv, Targets, Recovering, After, InCheckpoint
  <2>3. CASE n \in Cuts /\ n \in 0..Len(log)
    <3>1. PICK T : T = stable OBVIOUS
    <3>2. T \in Targets(n)'
      <4>1. n # Len(log') BY <1>6, <2>3
      <4> QED BY <1>2, <3>1, <4>1 DEF Targets, Recovering, After, InCheckpoint
    <3>3. \A b : Redone(n, s.ckpt, b)' = Redone(n, s.ckpt, b) BY <1>6, <2>3
    <3>4. \A i \in 1..n : OldLog'[i] = OldLog[i] BY <1>6, <2>3
    <3>5. \A b : \A i \in Redone(n, s.ckpt, b) : i \in 1..n BY RedoneIn
    <3>6. Recovers(n, s.ckpt, T) BY <2>2, <2>3, <3>1
    <3>7. Recovers(n, s.ckpt, T)' BY <2>1, <3>3, <3>4, <3>5, <3>6 DEF Recovers
    <3> QED BY <3>2, <3>7
  <2>4. CASE n = Len(log) + 1
    <3>1. PICK T : T = prep OBVIOUS
    <3>2. T \in Targets(n)'
      <4>1. n = Len(log') BY <1>6, <2>4
      <4> QED BY <1>2, <3>1, <4>1 DEF Targets, Recovering, After, InCheckpoint
    <3>3. ASSUME NEW b \in Blocks
          PROVE  \/ Redone(n, s.ckpt, b)' = {} /\ disk[b] = T[b] /\ past[b] = {}
                 \/ \E i \in Redone(n, s.ckpt, b)' : /\ \A j \in Redone(n, s.ckpt, b)' : j <= i
                                                     /\ OldLog'[i].data = T[b]
      <4> DEFINE R == Redone(n, s.ckpt, b)'
      <4>1. \A i \in R : i \in 1..Len(log)
        BY <1>8, <2>4, RedoneIn
      <4>2. CASE InJob(b)
        <5>1. PICK k \in 1..Len(log) : log[k].type = "BLOCK" /\ log[k].txn = job.txn /\ log[k].block = b
          BY <1>0, <1>2, <1>6, <4>2 DEF JobInv, InTransaction, InJob
        <5>2. k \in R BY <1>8, <1>9, <2>1, <2>4, <5>1
        <5>3. R \in SUBSET (1..Len(log)) /\ R # {} BY <4>1, <5>2
        <5> HIDE DEF R
        <5>4. PICK i \in R : \A j \in R : j <= i BY <1>6, <5>3, LastExists
        <5>5. i \in 1..Len(log) /\ k <= i BY <5>2, <5>3, <5>4
        <5>6. log[i].txn = job.txn
          <6>1. log[k].lsn >= job.txn /\ (log[i].txn = job.txn <=> log[i].lsn >= job.txn)
            BY <1>0, <1>2, <1>6, <5>1, <5>5 DEF JobInv, InTransaction
          <6>2. log[k].lsn <= log[i].lsn
            <7>1. k < i => log[k].lsn < log[i].lsn BY <1>0, <1>6, <5>5 DEF LsnInv
            <7>2. log[k].lsn \in Nat /\ log[i].lsn \in Nat BY <1>9, <2>1, <5>5
            <7>3. k = i \/ k < i BY <5>5
            <7> QED BY <7>1, <7>2, <7>3
          <6>3. job.txn \in Nat /\ log[k].lsn \in Nat /\ log[i].lsn \in Nat
            BY <1>0, <1>9, <2>1, <5>5 DEF TypeOK, Jobs
          <6> QED BY <6>1, <6>2, <6>3
        <5>7. log[i].type = "BLOCK" /\ log[i].block = b
          <6>1. i \in Redone(n, s.ckpt, b)' BY <5>4 DEF R
          <6> QED BY <1>6, <1>8, <2>4, <6>1, RedoneIn
        <5>8. OldLog'[i].data = T[b] BY <1>0, <1>2, <1>6, <3>1, <5>5, <5>6, <5>7 DEF JobInv, InTransaction
        <5> QED BY <5>4, <5>8 DEF R
      <4>3. CASE ~InJob(b)
        <5>1. T[b] = stable[b] BY <1>0, <1>2, <3>1, <4>3 DEF JobInv, InTransaction
        <5>2. \A i \in 1..Len(log) : ~(log[i].type = "BLOCK" /\ log[i].txn = job.txn /\ log[i].block = b)
          BY <1>0, <1>2, <1>6, <4>3 DEF JobInv, InTransaction
        <5>3. R = Redone(Len(log), s.ckpt, b)
          <6>1. ASSUME NEW i PROVE i \in R <=> i \in Redone(Len(log), s.ckpt, b) BY <1>8, <2>4, <5>2
          <6> HIDE DEF R
          <6> QED BY <6>1
        <5>4. \A i \in 1..Len(log) : OldLog'[i] = OldLog[i] BY <1>6
        <5>5. Recovers(Len(log), s.ckpt, stable) BY <1>6, <2>2
        <5> QED BY <4>1, <5>1, <5>3, <5>4, <5>5 DEF Recovers
      <4> QED BY <4>2, <4>3
    <3>4. Recovers(n, s.ckpt, T)' BY <2>1, <3>3 DEF Recovers
    <3> QED BY <3>2, <3>4
  <2> QED BY <1>6, <2>3, <2>4
<1>11. ReplayInv' BY <1>0, <1>2, <1>4, ReplayLive DEF ReplayInv
<1>12. JobInv'
  <2>1. frame' = frame /\ prep' = prep /\ stable' = stable /\ job' = job BY <1>2 DEF cache
  <2>2. \A b : InJob(b)' <=> InJob(b) BY <2>1 DEF InJob
  <2>3. next_lsn \in Nat /\ job.txn \in Nat /\ job.txn <= next_lsn /\ next_lsn' = next_lsn + 1
    BY <1>0, <1>2, <1>3, <1>5 DEF TypeOK, Jobs, JobInv, InTransaction
  <2>4. \A i \in DOMAIN log' :
          /\ (log'[i].txn = job.txn <=> log'[i].lsn >= job.txn)
          /\ log'[i].txn = job.txn /\ log'[i].type = "BLOCK" =>
                InJob(log'[i].block) /\ log'[i].data = prep[log'[i].block]
    <3> SUFFICES ASSUME NEW i \in 1..(Len(log) + 1)
                 PROVE  /\ (log'[i].txn = job.txn <=> log'[i].lsn >= job.txn)
                        /\ log'[i].txn = job.txn /\ log'[i].type = "BLOCK" =>
                              InJob(log'[i].block) /\ log'[i].data = prep[log'[i].block]
      BY <1>6
    <3>1. CASE i = Len(log) + 1 BY <1>3, <1>6, <2>3, <3>1
    <3>2. CASE i # Len(log) + 1
      <4>1. i \in 1..Len(log) /\ log'[i] = log[i] BY <1>6, <3>2
      <4> QED BY <1>0, <1>2, <1>6, <4>1 DEF JobInv, InTransaction
    <3> QED BY <3>1, <3>2
  <2>5. ASSUME NEW k \in DOMAIN job.blocks
        PROVE  \E i \in DOMAIN log' : log'[i].type = "BLOCK" /\ log'[i].txn = job.txn /\ log'[i].block = job.blocks[k]
    <3>1. PICK i \in DOMAIN log : log[i].type = "BLOCK" /\ log[i].txn = job.txn /\ log[i].block = job.blocks[k]
      BY <1>0, <1>2 DEF JobInv, InTransaction
    <3>2. i \in DOMAIN log' /\ log'[i] = log[i] BY <1>6, <3>1
    <3> QED BY <3>1, <3>2
  <2>6. \E i \in DOMAIN log' : log'[i].type = "COMMIT" /\ log'[i].txn = job.txn
    <3>1. Len(log) + 1 \in DOMAIN log' BY <1>6
    <3> QED BY <1>3, <1>6, <3>1
  <2>7. job.txn <= next_lsn' BY <2>3
  <2>8. /\ \A b \in Blocks : ~frame[b].in_txn => prep[b] = stable[b]
        /\ \A b \in Blocks : (frame[b].in_txn <=> InJob(b)) /\ (InJob(b) => frame[b].data = prep[b])
        /\ job.closing => job.ckpt
    BY <1>0, <1>2 DEF JobInv, InTransaction
  <2> QED BY <1>2, <2>1, <2>2, <2>4, <2>5, <2>6, <2>7, <2>8 DEF JobInv
<1>13. FrameInv'
  <2>1. \A b \in Blocks : Image'[b] = Image[b] BY <1>2 DEF Image, InCheckpoint
  <2>2. \A b \in Blocks : frame[b].in_txn => pc' \in InTransaction BY <1>2 DEF InTransaction
  <2>3. ~Written' BY <1>2 DEF Written, Emptied
  <2>4. ASSUME NEW b \in Blocks, frame[b].dirty, NEW n \in Cuts', NEW s \in Found'
        PROVE  ~s.clean /\ Redone(n, s.ckpt, b)' # {}
    <3>1. \E m \in Cuts : Redone(m, s.ckpt, b) \subseteq Redone(n, s.ckpt, b)' BY <1>6, <1>8
    <3> QED BY <1>0, <1>4, <1>7, <2>4, <3>1 DEF FrameInv, FrameOK
  <2>5. durable_lsn <= durable_lsn' BY <1>0, <1>2 DEF TypeOK
  <2>6. txn_blocks' = <<>> /\ running' = 0 BY <1>0, <1>2 DEF FrameInv, cache
  <2> QED BY <1>1, <1>2, <1>4, <2>1, <2>2, <2>3, <2>4, <2>5, <2>6, FramesStay DEF image, cache
<1> QED BY <1>1, <1>7, <1>10, <1>11, <1>12, <1>13 DEF Core

\* commit_frame for every block of the transaction: its frames are dirty now, and the
\* log redoes every one of them.
LEMMA CommitFramesKeeps ==
  ASSUME Core, CommitFrames, UNCHANGED failures
  PROVE  Core'
<1>0. TypeOK /\ CrashInv /\ ReplayInv /\ JobInv /\ LsnInv /\ LogInv /\ CleanInv /\ FrameInv BY DEF Core
<1>1. TypeOK' BY CommitType DEF Commit
<1>2. /\ pc = "frames" /\ pc' = "decide"
      /\ UNCHANGED <<image, super, wal, txn_blocks, running, lsns, job, pos, history>>
  BY DEF CommitFrames, Step
<1>3. Live /\ Live' BY <1>2 DEF Live, Recovering
<1>4. ASSUME NEW b \in Blocks
      PROVE  /\ InJob(b) => /\ ~frame'[b].in_txn /\ frame'[b].dirty /\ frame'[b].lsn = next_lsn - 1
                            /\ frame'[b].mapped = frame[b].mapped /\ frame'[b].data = frame[b].data
             /\ ~InJob(b) => frame'[b] = frame[b]
  BY <1>0 DEF CommitFrames, InJob, TypeOK, Frames
<1>5. /\ OldLog' = OldLog /\ Cuts' = Cuts /\ Found' = Found
      /\ \A n, c, b : Redone(n, c, b)' = Redone(n, c, b)
  BY <1>2, SameWal DEF Found, super
<1>6. \A s \in Found : ~s.clean BY <1>0, <1>2, <1>3, UncleanLive
<1>7. /\ truncated = <<>> /\ OldLog = log /\ Len(log) \in Nat /\ DOMAIN log = 1..Len(log) /\ Cuts = {Len(log)}
  <2>1. truncated = <<>> /\ OldLog = log /\ Len(log) \in Nat /\ DOMAIN log = 1..Len(log)
    BY <1>2, <1>3, LiveLog
  <2>2. "power" \in failures => synced = Len(log) BY <1>0, <1>2 DEF LogInv
  <2> QED BY <2>1, <2>2 DEF Cuts
<1>8. ASSUME NEW b \in Blocks, InJob(b), NEW n \in Cuts, NEW s \in Found PROVE Redone(n, s.ckpt, b) # {}
  <2>1. n = Len(log) BY <1>7
  <2>2. PICK i \in 1..Len(log) : log[i].type = "BLOCK" /\ log[i].txn = job.txn /\ log[i].block = b
    BY <1>0, <1>2, <1>7, <1>8 DEF JobInv, InTransaction, InJob
  <2>3. PICK j \in 1..Len(log) : log[j].type = "COMMIT" /\ log[j].txn = job.txn
    BY <1>0, <1>2, <1>7 DEF JobInv
  <2>4. log[i].lsn > s.ckpt
    <3>1. s.ckpt \in Nat /\ s.ckpt <= sb.ckpt /\ sb.ckpt \in Nat
      BY <1>0 DEF LsnInv, Found, TypeOK, Superblocks
    <3>2. log[i].lsn \in Nat /\ log[i].lsn > sb.ckpt
      BY <1>0, <1>2, <1>3, <1>7, OldLogType, RecordFields DEF LsnInv
    <3> QED BY <3>1, <3>2
  <2>5. i \in Redone(n, s.ckpt, b) BY <1>7, <2>1, <2>2, <2>3, <2>4 DEF Redone
  <2> QED BY <2>5
<1>9. CrashInv'
  <2>1. \A n : Targets(n) = {prep} /\ Targets(n)' = {prep}
    BY <1>2 DEF Targets, Recovering, After, InCheckpoint, history
  <2> QED BY <1>0, <1>2, <1>5, <2>1, CrashKeeps DEF image
<1>10. ReplayInv' BY <1>0, <1>2, <1>3, ReplayLive DEF ReplayInv
<1>11. JobInv' BY <1>0, <1>2 DEF JobInv, InTransaction
<1>12. LsnInv' BY <1>0, <1>2, <1>3, <1>5 DEF LsnInv, wal, lsns, super
<1>13. LogInv' BY <1>0, <1>2, <1>3, <1>5 DEF LogInv, Emptied, wal
<1>14. CleanInv' /\ CleanOwesNothing' BY <1>5, <1>6 DEF CleanInv, CleanOwesNothing, Found
<1>15. FrameInv'
  <2>1. txn_blocks' = <<>> /\ running' = 0 BY <1>0, <1>2 DEF FrameInv
  <2>2. Image = stable /\ Image' = prep BY <1>2 DEF Image, InCheckpoint, history
  <2>3. ~Written' BY <1>2 DEF Written, Emptied
  <2>4. disk' = disk /\ durable_lsn' = durable_lsn /\ durable_lsn = next_lsn - 1
    BY <1>0, <1>2 DEF image, lsns, LsnInv
  <2>5. next_lsn - 1 <= durable_lsn BY <1>0, <2>4 DEF TypeOK
  <2>6. ASSUME NEW b \in Blocks PROVE FrameOK(b)'
    <3>1. FrameOK(b) BY <1>0, <1>3 DEF FrameInv
    <3>2. /\ frame[b].in_txn <=> InJob(b)
          /\ InJob(b) => frame[b].data = prep[b]
          /\ ~InJob(b) => prep[b] = stable[b]
      BY <1>0, <1>2 DEF JobInv, InTransaction
    <3>3. CASE InJob(b)
      <4>1. frame[b].mapped BY <3>1, <3>2, <3>3 DEF FrameOK
      <4> QED BY <1>2, <1>4, <1>5, <1>6, <1>8, <2>2, <2>3, <2>4, <2>5, <3>2, <3>3, <4>1 DEF FrameOK
    <3>4. CASE ~InJob(b)
      <4>1. frame'[b] = frame[b] BY <1>4, <3>4
      <4> QED BY <1>2, <1>5, <2>2, <2>3, <2>4, <3>1, <3>2, <3>4, <4>1 DEF FrameOK
    <3> QED BY <3>3, <3>4
  <2> QED BY <1>3, <2>1, <2>6 DEF FrameInv
<1> QED BY <1>1, <1>9, <1>10, <1>11, <1>12, <1>13, <1>14, <1>15 DEF Core

\* Whether there is a checkpoint too.
LEMMA DecideKeeps ==
  ASSUME Core, Decide, UNCHANGED failures
  PROVE  Core'
<1>0. TypeOK /\ CrashInv /\ ReplayInv /\ JobInv /\ LsnInv /\ LogInv /\ CleanInv /\ FrameInv BY DEF Core
<1>1. TypeOK' BY CommitType DEF Commit
<1>2. /\ pc = "decide" /\ (pc' = "write_back" \/ (pc' = "publish" /\ ~job.ckpt))
      /\ UNCHANGED <<image, super, wal, cache, running, lsns, job, pos, history>>
  BY DEF Decide
<1>3. Live /\ Live' BY <1>2 DEF Live, Recovering
<1>4. /\ OldLog' = OldLog /\ Cuts' = Cuts /\ Found' = Found
      /\ \A n, c, b : Redone(n, c, b)' = Redone(n, c, b)
  BY <1>2, SameWal DEF Found, super
<1>5. \A s \in Found : ~s.clean BY <1>0, <1>2, <1>3, UncleanLive
<1>6. CrashInv'
  <2>1. \A n : Targets(n) = {prep} /\ Targets(n)' = {prep}
    BY <1>2 DEF Targets, Recovering, After, InCheckpoint, history
  <2> QED BY <1>0, <1>2, <1>4, <2>1, CrashKeeps DEF image
<1>7. ReplayInv' BY <1>0, <1>2, <1>3, ReplayLive DEF ReplayInv
<1>8. JobInv' BY <1>0, <1>2 DEF JobInv, InTransaction
<1>9. LsnInv' BY <1>0, <1>2, <1>3, <1>4 DEF LsnInv, wal, lsns, super
<1>10. LogInv' BY <1>0, <1>2, <1>3, <1>4 DEF LogInv, Emptied, wal
<1>11. CleanInv' /\ CleanOwesNothing' BY <1>4, <1>5 DEF CleanInv, CleanOwesNothing, Found
<1>12. FrameInv'
  <2>1. \A b \in Blocks : Image'[b] = Image[b] BY <1>2 DEF Image, InCheckpoint, history
  <2>2. \A b \in Blocks : ~frame[b].in_txn BY <1>0, <1>2, <1>3 DEF FrameInv, FrameOK, InTransaction
  <2>3. ~Written' BY <1>2 DEF Written, Emptied
  <2>4. \A b \in Blocks : frame[b].dirty => \A n \in Cuts' : \A s \in Found' : ~s.clean /\ Redone(n, s.ckpt, b)' # {}
    BY <1>0, <1>3, <1>4 DEF FrameInv, FrameOK
  <2>5. durable_lsn <= durable_lsn' BY <1>0, <1>2 DEF lsns, TypeOK
  <2>6. txn_blocks' = <<>> /\ running' = 0 BY <1>0, <1>2 DEF FrameInv, cache
  <2> QED BY <1>1, <1>2, <1>3, <2>1, <2>2, <2>3, <2>4, <2>5, <2>6, FramesStay DEF image, cache
<1> QED BY <1>1, <1>6, <1>7, <1>8, <1>9, <1>10, <1>11, <1>12 DEF Core

\* The blocks, or the superblock, are synced.
LEMMA CheckpointSyncKeeps ==
  ASSUME Core, CheckpointSync \/ CheckpointSuperblockSync, UNCHANGED failures
  PROVE  Core'
<1>0. TypeOK /\ CrashInv /\ ReplayInv /\ JobInv /\ LsnInv /\ LogInv /\ CleanInv /\ FrameInv BY DEF Core
<1>1. TypeOK' BY CommitType DEF Commit
<1>2. /\ \/ pc = "write_back" /\ pc' = "ckpt_sb" /\ \A b \in Blocks : ~Writable(b)
         \/ pc = "ckpt_sbsync" /\ pc' = "ckpt_reset"
      /\ UNCHANGED <<wal, cache, running, lsns, job, pos, history>>
      /\ disk' = disk /\ sb' = sb /\ sbPast' = {} /\ \A b \in Blocks : past'[b] = {}
  BY <1>0, DeviceSyncType DEF CheckpointSync, CheckpointSuperblockSync, Step
<1>3. Live /\ Live' BY <1>2 DEF Live, Recovering
<1>4. /\ OldLog' = OldLog /\ Cuts' = Cuts /\ Found' = {sb} /\ sb \in Found
      /\ \A n, c, b : Redone(n, c, b)' = Redone(n, c, b)
  BY <1>2, SameWal DEF Found
<1>5. \A s \in Found : ~s.clean BY <1>0, <1>2, <1>3, UncleanLive
<1>6. CrashInv'
  <2>1. \A n : Targets(n) = {prep} /\ Targets(n)' = {prep}
    BY <1>2 DEF Targets, Recovering, After, InCheckpoint, history
  <2> QED BY <1>0, <1>2, <1>4, <2>1, CrashKeeps
<1>7. ReplayInv' BY <1>0, <1>2, <1>3, ReplayLive DEF ReplayInv
<1>8. JobInv' BY <1>0, <1>2 DEF JobInv, InTransaction
<1>9. LsnInv' BY <1>0, <1>2, <1>3, <1>4 DEF LsnInv, wal, lsns
<1>10. LogInv' BY <1>0, <1>2, <1>3, <1>4 DEF LogInv, Emptied, wal
<1>11. CleanInv' /\ CleanOwesNothing' BY <1>2, <1>4, <1>5 DEF CleanInv, CleanOwesNothing
<1>12. FrameInv'
  <2>1. \A b \in Blocks : Image'[b] = Image[b] BY <1>2 DEF Image, InCheckpoint, history
  <2>2. \A b \in Blocks : ~frame[b].in_txn BY <1>0, <1>2, <1>3 DEF FrameInv, FrameOK, InTransaction
  <2>3. \A b \in Blocks : ~frame[b].dirty
    <3>1. CASE pc = "write_back" BY <1>0, <1>2, <1>3, <2>2, <3>1 DEF FrameInv, FrameOK, Writable
    <3>2. CASE pc = "ckpt_sbsync" BY <1>0, <1>3, <3>2 DEF FrameInv, FrameOK, Written
    <3> QED BY <1>2, <3>1, <3>2
  <2>4. durable_lsn <= durable_lsn' BY <1>0, <1>2 DEF lsns, TypeOK
  <2>5. txn_blocks' = <<>> /\ running' = 0 BY <1>0, <1>2 DEF FrameInv, cache
  <2> QED BY <1>1, <1>2, <1>3, <2>1, <2>2, <2>3, <2>4, <2>5, FramesStay DEF cache
<1> QED BY <1>1, <1>6, <1>7, <1>8, <1>9, <1>10, <1>11, <1>12 DEF Core

\* Between the checkpoint's sync and the end of its commit, and at an unmount, disk.img
\* has the image.
LEMMA WrittenIsWhole ==
  ASSUME Core, Written
  PROVE  Live /\ \A b \in Blocks : disk[b] = Image[b] /\ past[b] = {} /\ ~frame[b].dirty /\ ~frame[b].in_txn
<1>1. Live /\ pc \notin InTransaction \cup {"up", "failed_txn"}
  BY DEF Written, Emptied, Live, Recovering, InTransaction
<1> QED BY <1>1 DEF Core, FrameInv, FrameOK

\* The superblock says that everything logged is in disk.img.
LEMMA CheckpointSuperblockKeeps ==
  ASSUME Core, CheckpointSuperblock, UNCHANGED failures
  PROVE  Core'
<1>0. TypeOK /\ CrashInv /\ ReplayInv /\ JobInv /\ LsnInv /\ LogInv /\ CleanInv /\ FrameInv BY DEF Core
<1>1. TypeOK' BY CommitType DEF Commit
<1>2. /\ pc = "ckpt_sb" /\ pc' = "ckpt_sbsync" /\ WriteSuperblock(sb.clean, next_lsn - 1)
      /\ UNCHANGED <<wal, cache, running, lsns, job, pos, history>>
  BY DEF CheckpointSuperblock, Step
<1>3. Live /\ Live' /\ Written BY <1>2 DEF Live, Recovering, Written
<1>4. \A b \in Blocks : disk[b] = Image[b] /\ past[b] = {} /\ ~frame[b].dirty /\ ~frame[b].in_txn
  BY <1>3, WrittenIsWhole
<1>5. \A s \in Found : ~s.clean BY <1>0, <1>2, <1>3, UncleanLive
<1>6. next_lsn - 1 \in Nat /\ next_lsn \in Nat /\ sb.ckpt \in Nat /\ sb.ckpt <= next_lsn - 1 /\ ~sb.clean
  <2>1. next_lsn \in Nat /\ sb.ckpt \in Nat /\ sb.ckpt < next_lsn
    BY <1>0, <1>3 DEF TypeOK, Superblocks, LsnInv
  <2> QED BY <1>5, <2>1 DEF Found
<1>7. /\ ~sb'.clean /\ sb'.ckpt = next_lsn - 1 /\ sbPast' = sbPast \cup {sb} /\ disk' = disk /\ past' = past
      /\ Found' = Found \cup {sb'}
  <2>1. sb.clean \in BOOLEAN BY <1>0 DEF TypeOK, Superblocks
  <2>2. /\ sb'.clean = sb.clean /\ sb'.ckpt = next_lsn - 1 /\ sbPast' = sbPast \cup {sb}
        /\ disk' = disk /\ past' = past
    BY <1>0, <1>2, <1>6, <2>1, SuperblockType
  <2> QED BY <1>6, <2>2 DEF Found
<1>8. /\ OldLog' = OldLog /\ Cuts' = Cuts
      /\ \A n, c, b : Redone(n, c, b)' = Redone(n, c, b)
  BY <1>2, SameWal
<1>9. CrashInv'
  <2>1. \A n : Targets(n) = {prep} /\ Targets(n)' = {prep}
    BY <1>2 DEF Targets, Recovering, After, InCheckpoint, history
  <2>2. Image = prep BY <1>2 DEF Image, InCheckpoint
  <2>3. PICK T : T = prep OBVIOUS
  <2>4. ASSUME NEW n \in Cuts', NEW b \in Blocks PROVE Redone(n, sb'.ckpt, b) = {}
    <3> SUFFICES ASSUME NEW i \in Redone(n, sb'.ckpt, b) PROVE FALSE OBVIOUS
    <3>1. /\ OldLog = log /\ Len(log) \in Nat /\ DOMAIN log = 1..Len(log) /\ n \in Nat /\ n <= Len(log)
      BY <1>2, <1>3, <1>8, LiveLog
    <3>2. i \in 1..n /\ OldLog[i].lsn > sb'.ckpt BY RedoneIn
    <3>3. i \in 1..Len(log) BY <3>1, <3>2
    <3>4. log[i].lsn < next_lsn /\ log[i].lsn \in Nat
      BY <1>0, <1>3, <3>1, <3>3, OldLogType, RecordFields DEF LsnInv
    <3> QED BY <1>6, <1>7, <3>1, <3>2, <3>4
  <2>5. \A b \in Blocks : disk[b] = T[b] /\ past[b] = {} BY <1>4, <2>2, <2>3
  <2>6. \A n \in Cuts' : \A s \in Found' : (n \in Cuts /\ s \in Found) \/ \A b \in Blocks : Redone(n, s.ckpt, b) = {}
    BY <1>7, <1>8, <2>4
  <2> QED BY <1>0, <1>7, <1>8, <2>1, <2>3, <2>5, <2>6, CrashEither
<1>10. ReplayInv' BY <1>0, <1>2, <1>3, ReplayLive DEF ReplayInv
<1>11. JobInv' BY <1>0, <1>2 DEF JobInv, InTransaction
<1>12. LsnInv'
  <2>1. \A s \in sbPast' : s.ckpt <= sb'.ckpt
    <3>1. \A s \in sbPast : s.ckpt \in Nat /\ s.ckpt <= sb.ckpt BY <1>0 DEF TypeOK, Superblocks, LsnInv
    <3> QED BY <1>6, <1>7, <3>1
  <2>2. sb'.ckpt < next_lsn' /\ next_lsn' = next_lsn BY <1>2, <1>6, <1>7 DEF lsns
  <2> QED BY <1>0, <1>2, <1>3, <1>7, <1>8, <2>1, <2>2 DEF LsnInv, wal, lsns
<1>13. LogInv' BY <1>0, <1>2, <1>3, <1>8 DEF LogInv, Emptied, wal
<1>14. CleanInv' /\ CleanOwesNothing' BY <1>5, <1>7 DEF CleanInv, CleanOwesNothing, Found
<1>15. FrameInv'
  <2>1. \A b \in Blocks : Image'[b] = Image[b] BY <1>2 DEF Image, InCheckpoint, history
  <2>2. durable_lsn <= durable_lsn' BY <1>0, <1>2 DEF lsns, TypeOK
  <2>3. txn_blocks' = <<>> /\ running' = 0 BY <1>0, <1>2 DEF FrameInv, cache
  <2> QED BY <1>1, <1>2, <1>3, <1>4, <1>7, <2>1, <2>2, <2>3, FramesStay DEF cache
<1> QED BY <1>1, <1>9, <1>10, <1>11, <1>12, <1>13, <1>14, <1>15 DEF Core

\* The checkpoint truncates the log.
LEMMA CheckpointTruncateKeeps ==
  ASSUME Core, Truncate("ckpt_reset", "ckpt_resetsync"), UNCHANGED failures
  PROVE  Core'
<1>0. TypeOK /\ CrashInv /\ ReplayInv /\ JobInv /\ LsnInv /\ LogInv /\ CleanInv /\ FrameInv BY DEF Core
<1>1. TypeOK' BY CommitType DEF Commit
<1>2. /\ pc = "ckpt_reset" /\ pc' = "ckpt_resetsync" /\ OldLog' = OldLog /\ log' = <<>>
      /\ \A n \in Cuts' : n \in Cuts \/ n = 0
      /\ UNCHANGED <<image, super, synced, cache, running, lsns, job, pos, history>>
  BY <1>0, TruncateEffect
<1>3. Live /\ Live' /\ Written BY <1>2 DEF Live, Recovering, Written
<1>4. \A b \in Blocks : disk[b] = Image[b] /\ past[b] = {} /\ ~frame[b].dirty /\ ~frame[b].in_txn
  BY <1>3, WrittenIsWhole
<1>5. Found' = Found /\ \A s \in Found : ~s.clean BY <1>0, <1>2, <1>3, UncleanLive DEF Found, super
<1>6. CrashInv'
  <2>1. \A n : Targets(n) = {prep} /\ Targets(n)' = {prep}
    BY <1>2 DEF Targets, Recovering, After, InCheckpoint, history
  <2>2. PICK T : T = prep OBVIOUS
  <2>3. \A b \in Blocks : disk[b] = T[b] /\ past[b] = {} BY <1>2, <1>4, <2>2 DEF Image, InCheckpoint
  <2> QED BY <1>0, <1>2, <1>5, <2>1, <2>2, <2>3, NothingRedone, CrashEither DEF image
<1>7. ReplayInv' BY <1>0, <1>2, <1>3, ReplayLive DEF ReplayInv
<1>8. JobInv' BY <1>0, <1>2 DEF JobInv, InTransaction
<1>9. LsnInv'
  <2>1. DOMAIN log' = {} BY <1>2
  <2> QED BY <1>0, <1>2, <1>3, <2>1 DEF LsnInv, lsns, super
<1>10. LogInv' BY <1>0, <1>2, <1>3 DEF LogInv, Emptied
<1>11. CleanInv' /\ CleanOwesNothing' BY <1>5 DEF CleanInv, CleanOwesNothing, Found
<1>12. FrameInv'
  <2>1. \A b \in Blocks : Image'[b] = Image[b] BY <1>2 DEF Image, InCheckpoint, history
  <2>2. durable_lsn <= durable_lsn' BY <1>0, <1>2 DEF lsns, TypeOK
  <2>3. txn_blocks' = <<>> /\ running' = 0 BY <1>0, <1>2 DEF FrameInv, cache
  <2> QED BY <1>1, <1>2, <1>3, <1>4, <2>1, <2>2, <2>3, FramesStay DEF cache, image
<1> QED BY <1>1, <1>6, <1>7, <1>8, <1>9, <1>10, <1>11, <1>12 DEF Core

\* The empty log is synced: the checkpoint is over.
LEMMA CheckpointTruncateSyncKeeps ==
  ASSUME Core, TruncateSync("ckpt_resetsync", "publish"), UNCHANGED failures
  PROVE  Core'
<1>0. TypeOK /\ CrashInv /\ ReplayInv /\ JobInv /\ LsnInv /\ LogInv /\ CleanInv /\ FrameInv BY DEF Core
<1>1. TypeOK' BY CommitType DEF Commit
<1>2. /\ pc = "ckpt_resetsync" /\ pc' = "publish" /\ log' = <<>> /\ truncated' = <<>> /\ synced' = 0
      /\ Cuts' = {0} /\ OldLog' = <<>> /\ \A c, b : Redone(0, c, b)' = {}
      /\ next_lsn' = sb.ckpt + 1 /\ durable_lsn' = sb.ckpt
      /\ UNCHANGED <<image, super, cache, running, job, pos, history>>
  BY <1>0, <1>1, TruncateSyncEffect
<1>3. Live /\ Live' /\ Written BY <1>2 DEF Live, Recovering, Written
<1>4. \A b \in Blocks : disk[b] = Image[b] /\ past[b] = {} /\ ~frame[b].dirty /\ ~frame[b].in_txn
  BY <1>3, WrittenIsWhole
<1>5. Found' = Found /\ \A s \in Found : ~s.clean BY <1>0, <1>2, <1>3, UncleanLive DEF Found, super
<1>6. disk' = disk /\ past' = past /\ sb' = sb /\ sbPast' = sbPast BY <1>2 DEF image, super
<1>7. CrashInv'
  <2>1. \A n : Targets(n)' = {prep} BY <1>2 DEF Targets, Recovering, After, InCheckpoint, history
  <2>2. PICK T : T = prep OBVIOUS
  <2>3. \A b \in Blocks : disk'[b] = T[b] /\ past'[b] = {} BY <1>2, <1>4, <1>6, <2>2 DEF Image, InCheckpoint
  <2> QED BY <1>2, <2>1, <2>2, <2>3, CrashWhole
<1>8. ReplayInv' BY <1>0, <1>2, <1>3, ReplayLive DEF ReplayInv
<1>9. JobInv' BY <1>0, <1>2 DEF JobInv, InTransaction
<1>10. LsnInv'
  <2>1. DOMAIN log' = {} BY <1>2
  <2>2. sb.ckpt \in Nat BY <1>0 DEF TypeOK, Superblocks
  <2> QED BY <1>0, <1>2, <1>3, <1>6, <2>1, <2>2 DEF LsnInv
<1>11. LogInv' BY <1>0, <1>2, <1>3 DEF LogInv, Emptied
<1>12. CleanInv' /\ CleanOwesNothing' BY <1>5 DEF CleanInv, CleanOwesNothing, Found
<1>13. FrameInv'
  <2>1. \A b \in Blocks : Image'[b] = Image[b] BY <1>2 DEF Image, InCheckpoint, history
  <2>2. durable_lsn <= durable_lsn'
    BY <1>0, <1>2, <1>3 DEF TypeOK, LsnInv, Superblocks
  <2>3. txn_blocks' = <<>> /\ running' = 0 BY <1>0, <1>2 DEF FrameInv, cache
  <2> QED BY <1>1, <1>2, <1>3, <1>4, <1>6, <2>1, <2>2, <2>3, FramesStay DEF cache
<1> QED BY <1>1, <1>7, <1>8, <1>9, <1>10, <1>11, <1>12, <1>13 DEF Core

\* The commit is over.
LEMMA PublishKeeps ==
  ASSUME Core, Publish, UNCHANGED failures
  PROVE  Core'
<1>0. TypeOK /\ CrashInv /\ ReplayInv /\ JobInv /\ LsnInv /\ LogInv /\ CleanInv /\ FrameInv BY DEF Core
<1>1. TypeOK' BY CommitType DEF Commit
<1>2. /\ pc = "publish" /\ pc' = (IF job.closing THEN "close_sb" ELSE "up") /\ job' = NoJob /\ stable' = prep
      /\ UNCHANGED <<image, super, wal, cache, running, lsns, pos, prep, crashes>>
  BY DEF Publish
<1>3. Live /\ Live' BY <1>2 DEF Live, Recovering
<1>4. pc' = "close_sb" => job.ckpt BY <1>0, <1>2 DEF JobInv
<1>5. pc' = "close_sb" => Written /\ log = <<>> /\ truncated = <<>> BY <1>0, <1>2, <1>3, <1>4 DEF Written, Emptied, LogInv
<1>6. /\ OldLog' = OldLog /\ Cuts' = Cuts /\ Found' = Found
      /\ \A n, c, b : Redone(n, c, b)' = Redone(n, c, b)
  BY <1>2, SameWal DEF Found, super
<1>7. \A s \in Found : ~s.clean BY <1>0, <1>2, <1>3, UncleanLive
<1>8. CrashInv'
  <2>1. \A n : Targets(n) = {prep} /\ Targets(n)' = {prep}
    BY <1>2 DEF Targets, Recovering, After, InCheckpoint
  <2> QED BY <1>0, <1>2, <1>6, <2>1, CrashKeeps DEF image
<1>9. ReplayInv' BY <1>0, <1>2, <1>3, ReplayLive DEF ReplayInv
<1>10. JobInv'
  <2>1. ~job'.closing BY <1>2 DEF NoJob
  <2> QED BY <1>2, <2>1 DEF JobInv, InTransaction
<1>11. LsnInv' BY <1>0, <1>2, <1>3, <1>6 DEF LsnInv, wal, lsns, super
<1>12. LogInv' BY <1>0, <1>2, <1>3, <1>5, <1>6 DEF LogInv, Emptied, wal
<1>13. CleanInv' /\ CleanOwesNothing' BY <1>6, <1>7 DEF CleanInv, CleanOwesNothing, Found
<1>14. FrameInv'
  <2>1. \A b \in Blocks : Image'[b] = Image[b] BY <1>2 DEF Image, InCheckpoint
  <2>2. \A b \in Blocks : ~frame[b].in_txn BY <1>0, <1>2, <1>3 DEF FrameInv, FrameOK, InTransaction
  <2>3. Written' => \A b \in Blocks : ~frame[b].dirty /\ past'[b] = {}
    <3>1. Written' => pc' = "close_sb" BY <1>2 DEF Written, Emptied
    <3> QED BY <1>2, <1>5, <3>1, WrittenIsWhole DEF image
  <2>4. \A b \in Blocks : frame[b].dirty => \A n \in Cuts' : \A s \in Found' : ~s.clean /\ Redone(n, s.ckpt, b)' # {}
    BY <1>0, <1>3, <1>6 DEF FrameInv, FrameOK
  <2>5. durable_lsn <= durable_lsn' BY <1>0, <1>2 DEF lsns, TypeOK
  <2>6. txn_blocks' = <<>> /\ running' = 0 BY <1>0, <1>2 DEF FrameInv, cache
  <2> QED BY <1>1, <1>2, <1>3, <2>1, <2>2, <2>3, <2>4, <2>5, <2>6, FramesStay DEF image, cache
<1> QED BY <1>1, <1>8, <1>9, <1>10, <1>11, <1>12, <1>13, <1>14 DEF Core

\* The unmount marks the image clean.
LEMMA CloseSuperblockKeeps ==
  ASSUME Core, CloseSuperblock, UNCHANGED failures
  PROVE  Core'
<1>0. TypeOK /\ CrashInv /\ ReplayInv /\ JobInv /\ LsnInv /\ LogInv /\ CleanInv /\ FrameInv BY DEF Core
<1>1. TypeOK' BY CommitType DEF Commit
<1>2. /\ pc = "close_sb" /\ pc' = "close_sync" /\ WriteSuperblock(TRUE, sb.ckpt)
      /\ UNCHANGED <<wal, cache, running, lsns, job, pos, history>>
  BY DEF CloseSuperblock, Step
<1>3. Live /\ Live' /\ Written BY <1>2 DEF Live, Recovering, Written, Emptied
<1>4. \A b \in Blocks : disk[b] = Image[b] /\ past[b] = {} /\ ~frame[b].dirty /\ ~frame[b].in_txn
  BY <1>3, WrittenIsWhole
<1>5. /\ sb.ckpt \in Nat /\ sb'.clean /\ sb'.ckpt = sb.ckpt /\ sbPast' = sbPast \cup {sb}
      /\ Found' = Found \cup {sb'} /\ disk' = disk /\ past' = past
  <2>1. sb.ckpt \in Nat BY <1>0 DEF TypeOK, Superblocks
  <2> QED BY <1>0, <1>2, <2>1, SuperblockType DEF Found
<1>6. /\ OldLog' = OldLog /\ Cuts' = Cuts
      /\ \A n, c, b : Redone(n, c, b)' = Redone(n, c, b)
  BY <1>2, SameWal
<1>7. Image = stable /\ Image' = stable BY <1>2 DEF Image, InCheckpoint, history
<1>8. CrashInv'
  <2>1. \A n : Targets(n) = {stable} /\ Targets(n)' = {stable}
    BY <1>2 DEF Targets, Recovering, After, InCheckpoint, history
  <2> QED BY <1>0, <1>5, <1>6, <2>1, CrashKeeps
<1>9. ReplayInv' BY <1>0, <1>2, <1>3, ReplayLive DEF ReplayInv
<1>10. JobInv' BY <1>0, <1>2 DEF JobInv, InTransaction
<1>11. LsnInv'
  <2>1. \A s \in sbPast' : s.ckpt <= sb'.ckpt BY <1>0, <1>5 DEF LsnInv
  <2> QED BY <1>0, <1>2, <1>3, <1>5, <1>6, <2>1 DEF LsnInv, wal, lsns
<1>12. LogInv' BY <1>0, <1>2, <1>3, <1>6 DEF LogInv, Emptied, wal
<1>13. CleanInv' BY <1>0, <1>2 DEF CleanInv, LogInv, Emptied, wal
<1>14. CleanOwesNothing' BY <1>2, <1>4, <1>5, <1>7 DEF CleanOwesNothing, history
<1>15. FrameInv'
  <2>1. durable_lsn <= durable_lsn' BY <1>0, <1>2 DEF lsns, TypeOK
  <2>2. txn_blocks' = <<>> /\ running' = 0 BY <1>0, <1>2 DEF FrameInv, cache
  <2> QED BY <1>1, <1>2, <1>3, <1>4, <1>5, <1>7, <2>1, <2>2, FramesStay DEF cache
<1> QED BY <1>1, <1>8, <1>9, <1>10, <1>11, <1>12, <1>13, <1>14, <1>15 DEF Core

\* A process that has let go of everything is not mounted and has no frames.
LEMMA ForgetQuiet ==
  ASSUME Forget
  PROVE  /\ pc' = "down" /\ ~Live' /\ ~Emptied' /\ ReplayInv' /\ JobInv' /\ FrameInv'
<1>1. /\ txn_blocks' = <<>> /\ running' = 0 /\ pos' = 0 /\ pc' = "down" /\ job' = NoJob /\ ~NoJob.closing
      /\ \A b \in Blocks : frame'[b] = NoFrame
  BY ForgetType
<1>2. ~Live' BY <1>1 DEF Live, Recovering
<1>3. ~Emptied' BY <1>1 DEF Emptied
<1>4. ReplayInv' BY <1>1 DEF ReplayInv
<1>5. JobInv' BY <1>1 DEF JobInv, InTransaction
<1>6. FrameInv' BY <1>1, <1>2 DEF FrameInv
<1> QED BY <1>1, <1>2, <1>3, <1>4, <1>5, <1>6

\* Whatever is under way, a crash must leave one of two images.
LEMMA EitherImage == \A n : Targets(n) \subseteq {stable, prep}
BY DEF Targets

\* The unmount is over: its superblock is synced.
LEMMA ClosedKeeps ==
  ASSUME Core, Closed, UNCHANGED failures
  PROVE  Core'
<1>0. TypeOK /\ CrashInv /\ LsnInv /\ LogInv /\ CleanInv /\ CleanOwesNothing BY DEF Core
<1>1. TypeOK' BY CommitType DEF Commit
<1>2. pc = "close_sync" /\ DeviceSync /\ Forget /\ UNCHANGED <<wal, history>> BY DEF Closed
<1>3. pc' = "down" /\ ~Live' /\ ~Emptied' /\ ReplayInv' /\ JobInv' /\ FrameInv' BY <1>2, ForgetQuiet
<1>4. /\ disk' = disk /\ sb' = sb /\ sbPast' = {} /\ \A b \in Blocks : past'[b] = {}
  BY <1>0, <1>2, DeviceSyncType
<1>5. Found' = {sb} /\ Found' \subseteq Found BY <1>4 DEF Found
<1>6. /\ OldLog' = OldLog /\ Cuts' = Cuts
      /\ \A n, c, b : Redone(n, c, b)' = Redone(n, c, b)
  BY <1>2, SameWal
<1>7. log = <<>> /\ truncated = <<>> /\ OldLog = <<>> BY <1>0, <1>2 DEF LogInv, Emptied, OldLog
<1>8. CrashInv'
  <2>1. \A n : Targets(n) \subseteq Targets(n)'
    BY <1>2, <1>3, EitherImage DEF Targets, Recovering, history
  <2> QED BY <1>0, <1>4, <1>5, <1>6, <2>1, CrashKeeps
<1>9. LsnInv' BY <1>0, <1>3, <1>4, <1>6 DEF LsnInv
<1>10. LogInv'
  <2>1. "power" \in failures => synced = Len(log) BY <1>0, <1>7 DEF LogInv, TypeOK
  <2> QED BY <1>0, <1>3, <1>6, <1>7, <1>2, <2>1 DEF LogInv, wal
<1>11. CleanInv' BY <1>3, <1>5 DEF CleanInv, Recovering
<1>12. CleanOwesNothing' BY <1>0, <1>2, <1>4 DEF CleanOwesNothing, history
<1> QED BY <1>1, <1>3, <1>8, <1>9, <1>10, <1>11, <1>12 DEF Core

\* A write or a sync of the commit fails: the error is kept, nothing is undone.
LEMMA CommitErrorKeeps ==
  ASSUME Separate, Core, CommitError, UNCHANGED failures
  PROVE  Core'
<1>0. TypeOK /\ CrashInv /\ ReplayInv /\ JobInv /\ LsnInv /\ LogInv /\ CleanInv /\ FrameInv BY DEF Core
<1>1. TypeOK' BY <1>0, FailureType DEF Failure
<1>2. /\ \/ pc \in {"stage", "append", "commit_sync"} /\ pc' = "failed_txn"
         \/ pc \in {"write_back", "ckpt_sb", "ckpt_sbsync", "ckpt_reset", "ckpt_resetsync"} /\ pc' = "failed_ckpt"
      /\ UNCHANGED <<image, super, wal, cache, running, lsns, job, pos, history>>
  BY DEF CommitError, InTransaction, InCheckpoint
<1>3. Live /\ Live' /\ ~Emptied' /\ ~Written' BY <1>2 DEF Live, Recovering, Emptied, Written
<1>4. /\ OldLog' = OldLog /\ Cuts' = Cuts /\ Found' = Found
      /\ \A n, c, b : Redone(n, c, b)' = Redone(n, c, b)
  BY <1>2, SameWal DEF Found, super
<1>5. \A s \in Found : ~s.clean BY <1>0, <1>2, <1>3, UncleanLive
<1>6. \A n : Targets(n) \subseteq Targets(n)'
  <2>1. CASE pc' = "failed_txn"
    BY <1>2, <2>1, EitherImage DEF Targets, Recovering, history
  <2>2. CASE pc' = "failed_ckpt"
    BY <1>2, <2>2 DEF Targets, Recovering, After, InCheckpoint, history
  <2> QED BY <1>2, <2>1, <2>2
<1>7. CrashInv' BY <1>0, <1>2, <1>4, <1>6, CrashKeeps DEF image
<1>8. ReplayInv' BY <1>0, <1>2, <1>3, ReplayLive DEF ReplayInv
<1>9. JobInv' BY <1>0, <1>2 DEF JobInv, InTransaction, cache, history
<1>10. LsnInv'
  <2>1. pc' = "failed_txn" => pc \notin {"ckpt_sbsync", "ckpt_reset", "ckpt_resetsync", "failed_ckpt"} BY <1>2
  <2> QED BY <1>0, <1>2, <1>3, <1>4, <2>1 DEF LsnInv, wal, lsns, super
<1>11. LogInv'
  <2>1. ASSUME "power" \in failures PROVE pc \in {"write_back", "ckpt_sb", "ckpt_sbsync"} /\ pc' = "failed_ckpt"
    <3>1. "log_io" \notin failures BY <1>0, <2>1 DEF Separate, TypeOK
    <3>2. pc \notin LogSteps BY <3>1 DEF CommitError, IoError
    <3> QED BY <1>2, <3>2 DEF LogSteps
  <2>2. "power" \in failures => synced <= Len(OldLog) /\ truncated = <<>> /\ synced = Len(log)
    BY <1>0, <2>1 DEF LogInv
  <2> QED BY <1>0, <1>2, <1>3, <1>4, <2>1, <2>2 DEF LogInv, wal
<1>12. CleanInv' /\ CleanOwesNothing' BY <1>4, <1>5 DEF CleanInv, CleanOwesNothing, Found
<1>13. FrameInv'
  <2>1. Image' = Image BY <1>2 DEF Image, InCheckpoint, history
  <2>2. \A b \in Blocks : frame[b].in_txn => pc' = "failed_txn"
    BY <1>0, <1>2, <1>3 DEF FrameInv, FrameOK, InTransaction
  <2>3. \A b \in Blocks : frame[b].dirty => \A n \in Cuts' : \A s \in Found' : ~s.clean /\ Redone(n, s.ckpt, b)' # {}
    BY <1>0, <1>3, <1>4 DEF FrameInv, FrameOK
  <2>4. durable_lsn <= durable_lsn' BY <1>0, <1>2 DEF lsns, TypeOK
  <2>5. txn_blocks' = <<>> /\ running' = 0 BY <1>0, <1>2 DEF FrameInv, cache
  <2> QED BY <1>1, <1>2, <1>3, <2>1, <2>2, <2>3, <2>4, <2>5, FramesStay DEF image, cache
<1> QED BY <1>1, <1>7, <1>8, <1>9, <1>10, <1>11, <1>12, <1>13 DEF Core

\* The log redoes a block whose write may be under way.
LEMMA WritingIsLogged ==
  ASSUME Core, NEW b \in Blocks, Writing(b), NEW n \in Cuts, NEW s \in Found
  PROVE  ~s.clean /\ Redone(n, s.ckpt, b) # {}
<1>0. TypeOK /\ ReplayInv /\ LsnInv /\ LogInv /\ CleanInv /\ FrameInv BY DEF Core
<1>1. CASE Live /\ Writable(b)
  BY <1>0, <1>1 DEF Writable, FrameInv, FrameOK
<1>2. CASE pc = "replay" /\ pos \in Redo(log, sb.ckpt) /\ log[pos].block = b
  <2>0. n = Len(log) BY <1>0, <1>2, ReplayCuts
  <2>1. pos \in Redone(Len(log), sb.ckpt, b) BY <1>0, <1>2, RedoIsRedone
  <2>2. s.ckpt \in Nat /\ sb.ckpt \in Nat /\ s.ckpt <= sb.ckpt
    BY <1>0 DEF Found, LsnInv, TypeOK, Superblocks
  <2>3. Len(log) \in Nat /\ Len(log) <= Len(OldLog)
    <3>1. CASE truncated = <<>> BY <1>0, <3>1, OldLogType
    <3>2. CASE truncated # <<>>
      <4>1. Len(log) = 0 BY <1>0, <3>2 DEF LogInv
      <4> QED BY <1>0, <4>1, OldLogType
    <3> QED BY <3>1, <3>2
  <2>4. Redone(Len(log), s.ckpt, b) # {} BY <1>0, <2>1, <2>2, <2>3, LaterRedoesLess
  <2>5. log # <<>>
    <3>1. pos \in 1..Len(log) BY <2>1, RedoneIn
    <3> QED BY <2>3, <3>1
  <2>6. ~s.clean
    <3>1. ~sb.clean /\ sb \in Found BY <1>0, <1>2 DEF ReplayInv, Found
    <3> QED BY <1>0, <2>5, <3>1 DEF CleanInv
  <2> QED BY <2>0, <2>4, <2>6
<1> QED BY <1>1, <1>2 DEF Writing

\* A process that ends, not in the middle of a transaction where power fails: the
\* files stay as they were written, but for a block whose write was under way.
Ends == /\ Forget /\ UNCHANGED <<super, wal, stable, prep, failures>>
        /\ \/ UNCHANGED image
           \/ \E b \in Blocks : Writing(b) /\ DiskWrite(b, Torn)
        /\ "power" \in failures => truncated = <<>> /\ synced = Len(log)

\* It writes only what the log still redoes.
LEMMA EndsWrites ==
  ASSUME Core, Ends
  PROVE  /\ OldLog' = OldLog /\ Cuts' = Cuts /\ Found' = Found /\ sb' = sb
         /\ \A n, c, b : Redone(n, c, b)' = Redone(n, c, b)
         /\ \A b \in Blocks : \/ disk'[b] = disk[b] /\ past'[b] = past[b]
                              \/ \A n \in Cuts : \A s \in Found : ~s.clean /\ Redone(n, s.ckpt, b) # {}
<1>0. TypeOK BY DEF Core
<1>1. /\ OldLog' = OldLog /\ Cuts' = Cuts /\ Found' = Found /\ sb' = sb
      /\ \A n, c, b : Redone(n, c, b)' = Redone(n, c, b)
  BY SameWal DEF Ends, Found, super
<1>2. CASE UNCHANGED image BY <1>1, <1>2 DEF image
<1>3. ASSUME NEW c \in Blocks, Writing(c), DiskWrite(c, Torn)
      PROVE  /\ \A b \in Blocks : b # c => disk'[b] = disk[b] /\ past'[b] = past[b]
             /\ \A n \in Cuts : \A s \in Found : ~s.clean /\ Redone(n, s.ckpt, c) # {}
  <2>1. Torn \in Contents BY DEF Contents
  <2> QED BY <1>0, <1>3, <2>1, DiskWriteType, WritingIsLogged
<1> QED BY <1>1, <1>2, <1>3 DEF Ends

\* So the invariant holds of what it leaves.
LEMMA ProcessEnds ==
  ASSUME Core, TypeOK', Ends
  PROVE  Core'
<1>0. TypeOK /\ CrashInv /\ ReplayInv /\ LsnInv /\ LogInv /\ CleanInv /\ FrameInv /\ CleanOwesNothing BY DEF Core
<1>1. pc' = "down" /\ ~Live' /\ ~Emptied' /\ ReplayInv' /\ JobInv' /\ FrameInv' BY ForgetQuiet DEF Ends
<1>2. /\ OldLog' = OldLog /\ Cuts' = Cuts /\ Found' = Found
      /\ \A n, c, b : Redone(n, c, b)' = Redone(n, c, b)
  BY EndsWrites
<1>3. \A b \in Blocks : \/ disk'[b] = disk[b] /\ past'[b] = past[b]
                        \/ \A n \in Cuts : \A s \in Found : ~s.clean /\ Redone(n, s.ckpt, b) # {}
  BY EndsWrites
<1>4. Cuts # {} BY <1>0, SomeCut
<1>5. CrashInv'
  <2>1. \A n : Targets(n) \subseteq Targets(n)'
    BY <1>1, EitherImage DEF Targets, Recovering, Ends
  <2> QED BY <1>0, <1>2, <1>3, <2>1, CrashKeeps
<1>6. LsnInv' BY <1>0, <1>1, <1>2 DEF LsnInv, super, Ends
<1>7. LogInv' BY <1>0, <1>1, <1>2 DEF LogInv, wal, Ends
<1>8. CleanInv' BY <1>0, <1>1, <1>2 DEF CleanInv, Recovering, wal, Ends
<1>9. CleanOwesNothing' BY <1>0, <1>2, <1>3, <1>4 DEF CleanOwesNothing, Found, Ends
<1> QED BY <1>1, <1>5, <1>6, <1>7, <1>8, <1>9 DEF Core

\* Where power fails, a process that ends early has synced what it wrote to the log.
LEMMA EarlyEnds ==
  ASSUME Separate, TypeOK, LogInv, Kill \/ CloseFailed \/ MountFailed, UNCHANGED failures
  PROVE  Ends
<1>1. /\ Forget /\ UNCHANGED <<super, wal, stable, prep, failures>>
      /\ UNCHANGED image \/ \E b \in Blocks : Writing(b) /\ DiskWrite(b, Torn)
  BY DEF Kill, CloseFailed, MountFailed, history
<1>2. ASSUME "power" \in failures PROVE truncated = <<>> /\ synced = Len(log)
  <2>1. "kill" \notin failures /\ "log_io" \notin failures BY <1>2 DEF Separate, TypeOK
  <2>2. pc \notin {"stage", "append", "commit_sync", "reset_sync", "ckpt_resetsync"}
    BY <2>1 DEF Kill, CloseFailed, MountFailed, IoError, LogSteps, Recovering
  <2> QED BY <1>2, <2>2 DEF LogInv
<1> QED BY <1>1, <1>2 DEF Ends

\* The process is killed, or ends because the unmount or the mount failed.
LEMMA KillKeeps ==
  ASSUME Separate, Core, Kill \/ CloseFailed \/ MountFailed, UNCHANGED failures
  PROVE  Core'
<1>1. TypeOK /\ LogInv BY DEF Core
<1>2. TypeOK' BY <1>1, FailureType DEF Failure
<1>3. Ends BY <1>1, EarlyEnds
<1> QED BY <1>2, <1>3, ProcessEnds

\* Power fails: of what was not synced, any part is left.
LEMMA PowerFailEffect ==
  ASSUME Core, PowerFail, UNCHANGED failures
  PROVE  /\ "power" \in failures /\ Forget /\ stable' = stable /\ prep' = prep
         /\ \A b \in Blocks : disk'[b] \in {disk[b]} \cup past[b] /\ past'[b] = {}
         /\ sb' \in Found /\ sbPast' = {} /\ Found' = {sb'} /\ truncated' = <<>>
         /\ \E n \in Cuts : /\ n \in Nat /\ n <= Len(OldLog) /\ Len(log') = n /\ synced' = n /\ DOMAIN log' = 1..n
                            /\ OldLog' = log' /\ Cuts' = {n} /\ \A i \in 1..n : OldLog'[i] = OldLog[i]
                            /\ \A c, b : Redone(n, c, b)' = Redone(n, c, b)
<1>0. TypeOK /\ LogInv BY DEF Core
<1>1. /\ "power" \in failures /\ Forget /\ stable' = stable /\ prep' = prep
      /\ \A b \in Blocks : disk'[b] \in {disk[b]} \cup past[b] /\ past'[b] = {}
      /\ sb' \in Found /\ sbPast' = {} /\ truncated' = <<>> /\ synced' = Len(log')
  BY DEF PowerFail, Found
<1>2. Found' = {sb'} BY <1>1 DEF Found
<1>3. OldLog \in Seq(Records) /\ Len(OldLog) \in Nat /\ DOMAIN OldLog = 1..Len(OldLog) BY <1>0, OldLogType
<1>4. PICK n \in Cuts : n \in Nat /\ n <= Len(OldLog) /\ log' = SubSeq(OldLog, 1, n)
  <2>1. CASE \E m \in synced..Len(OldLog) : log' = SubSeq(OldLog, 1, m)
    <3>1. PICK m \in synced..Len(OldLog) : log' = SubSeq(OldLog, 1, m) BY <2>1
    <3>2. m \in Cuts BY <1>1, <3>1 DEF Cuts
    <3>3. m \in Nat /\ m <= Len(OldLog) BY <1>0, <1>3, <3>1 DEF TypeOK
    <3> QED BY <3>1, <3>2, <3>3
  <2>2. CASE truncated # <<>> /\ log' = <<>>
    <3>1. 0 \in Cuts BY <1>1, <2>2 DEF Cuts
    <3>2. SubSeq(OldLog, 1, 0) = <<>> BY <1>3
    <3> QED BY <1>3, <2>2, <3>1, <3>2
  <2> QED BY <2>1, <2>2 DEF PowerFail, OldLog
<1>5. Len(log') = n /\ DOMAIN log' = 1..n /\ \A i \in 1..n : log'[i] = OldLog[i] BY <1>3, <1>4
<1>6. OldLog' = log' /\ Cuts' = {n}
  <2>1. OldLog' = log' BY <1>1 DEF OldLog
  <2>2. Cuts' = (synced'..Len(log')) \cup {m \in {0} : truncated' # <<>>} BY <1>1, <2>1 DEF Cuts
  <2> QED BY <1>1, <1>4, <1>5, <2>1, <2>2
<1>7. \A c, b : Redone(n, c, b)' = Redone(n, c, b) BY <1>5, <1>6, SameRedone
<1> QED BY <1>1, <1>2, <1>4, <1>5, <1>6, <1>7

\* What is recovered then is what would have been before.
LEMMA PowerFailRecovers ==
  ASSUME Core, PowerFail, UNCHANGED failures, NEW n, NEW c, NEW T, Recovers(n, c, T),
         \A i \in 1..n : OldLog'[i] = OldLog[i], \A b : Redone(n, c, b)' = Redone(n, c, b)
  PROVE  Recovers(n, c, T)'
<1>1. \A b \in Blocks : disk'[b] \in {disk[b]} \cup past[b] /\ past'[b] = {} BY PowerFailEffect
<1>2. \A b \in Blocks : \A i \in Redone(n, c, b) : OldLog'[i] = OldLog[i] BY RedoneIn
<1> QED BY <1>1, <1>2 DEF Recovers

\* So the invariant holds of what is left.
LEMMA PowerFailKeeps ==
  ASSUME Core, PowerFail, UNCHANGED failures
  PROVE  Core'
<1>0. TypeOK /\ CrashInv /\ LsnInv /\ LogInv /\ CleanOwesNothing BY DEF Core
<1>1. TypeOK' BY <1>0, FailureType DEF Failure
<1>2. /\ "power" \in failures /\ Forget /\ stable' = stable /\ prep' = prep
      /\ \A b \in Blocks : disk'[b] \in {disk[b]} \cup past[b] /\ past'[b] = {}
      /\ sb' \in Found /\ sbPast' = {} /\ Found' = {sb'} /\ truncated' = <<>>
  BY PowerFailEffect
<1>3. PICK n \in Cuts : /\ n \in Nat /\ n <= Len(OldLog) /\ Len(log') = n /\ synced' = n /\ DOMAIN log' = 1..n
                        /\ OldLog' = log' /\ Cuts' = {n} /\ \A i \in 1..n : OldLog'[i] = OldLog[i]
                        /\ \A c, b : Redone(n, c, b)' = Redone(n, c, b)
  BY PowerFailEffect
<1>4. pc' = "down" /\ ~Live' /\ ~Emptied' /\ ReplayInv' /\ JobInv' /\ FrameInv' BY <1>2, ForgetQuiet
<1>5. Len(OldLog) \in Nat /\ DOMAIN OldLog = 1..Len(OldLog) BY <1>0, OldLogType
<1>6. CrashInv'
  <2>1. \A m : Targets(m)' = {stable, prep} BY <1>2, <1>4 DEF Targets, Recovering
  <2>2. ASSUME NEW s \in Found', ~s.clean PROVE \E T \in {stable, prep} : Recovers(n, s.ckpt, T)'
    <3>1. PICK T \in Targets(n) : Recovers(n, s.ckpt, T) BY <1>0, <1>2, <2>2 DEF CrashInv
    <3>2. T \in {stable, prep} BY <3>1, EitherImage
    <3>3. Recovers(n, s.ckpt, T)' BY <1>3, <3>1, PowerFailRecovers
    <3> QED BY <3>2, <3>3
  <2> QED BY <1>3, <2>1, <2>2 DEF CrashInv
<1>7. LsnInv'
  <2>1. \A i, j \in DOMAIN OldLog' : i < j => OldLog'[i].lsn < OldLog'[j].lsn
    BY <1>0, <1>3, <1>5 DEF LsnInv
  <2> QED BY <1>2, <1>4, <2>1 DEF LsnInv
<1>8. LogInv' BY <1>2, <1>3, <1>4 DEF LogInv
<1>9. CleanInv' BY <1>2, <1>4 DEF CleanInv, Recovering
<1>10. CleanOwesNothing' BY <1>0, <1>2 DEF CleanOwesNothing, Found
<1> QED BY <1>1, <1>4, <1>6, <1>7, <1>8, <1>9, <1>10 DEF Core

\* A step that changes nothing: a call that is refused, or one of another part.
LEMMA StutterKeeps ==
  ASSUME Core, UNCHANGED vars
  PROVE  Core'
<1>1. /\ UNCHANGED <<disk, past, sb, sbPast, log, synced, truncated, frame, txn_blocks, running>>
      /\ UNCHANGED <<next_lsn, durable_lsn, pc, job, pos, stable, prep, crashes, failures>>
  BY DEF vars, image, super, wal, cache, lsns, control, history
<1>2. OldLog' = OldLog /\ Cuts' = Cuts /\ Found' = Found /\ (Live' <=> Live) /\ (Emptied' <=> Emptied)
      /\ Image' = Image
  BY <1>1 DEF OldLog, Cuts, Found, Live, Emptied, Image
<1>3. /\ \A n, c, b : Redone(n, c, b)' = Redone(n, c, b)
      /\ \A n : Targets(n)' = Targets(n)
  BY <1>1, <1>2 DEF Redone, Targets
<1>4. TypeOK' BY <1>1 DEF Core, TypeOK
<1>5. CrashInv' BY <1>1, <1>2, <1>3, CrashKeeps DEF Core
<1>6. ReplayInv' BY <1>1, <1>2, <1>3 DEF Core, ReplayInv
<1>7. JobInv' BY <1>1 DEF Core, JobInv, InJob
<1>8. LsnInv' /\ LogInv' BY <1>1, <1>2 DEF Core, LsnInv, LogInv
<1>9. CleanInv' /\ CleanOwesNothing' BY <1>1, <1>2 DEF Core, CleanInv, CleanOwesNothing
<1>10. FrameInv'
  <2>1. Written' <=> Written BY <1>1, <1>2 DEF Written
  <2>2. \A b \in Blocks : FrameOK(b) => FrameOK(b)' BY <1>1, <1>2, <1>3, <2>1 DEF FrameOK
  <2> QED BY <1>1, <1>2, <2>2 DEF Core, FrameInv
<1> QED BY <1>4, <1>5, <1>6, <1>7, <1>8, <1>9, <1>10 DEF Core

(***************************************************************************)
(* The invariant, from the initial state on.                               *)
(***************************************************************************)

\* What another image left is a log.
LEMMA StaleLogIsLog ==
  ASSUME NEW b \in Blocks, NEW v \in Values
  PROVE  /\ StaleLog(b, v) \in Seq(Records)
         /\ \A i, j \in DOMAIN StaleLog(b, v) : i < j => StaleLog(b, v)[i].lsn < StaleLog(b, v)[j].lsn
<1>1. Record("BEGIN", 1, 1) \in Records /\ Record("COMMIT", 1, 3) \in Records BY DEF Record, Records
<1>2. BlockRecord(1, 2, b, v) \in Records BY DEF BlockRecord, Records, Contents
<1>3. Record("BEGIN", 1, 1).lsn = 1 /\ BlockRecord(1, 2, b, v).lsn = 2 /\ Record("COMMIT", 1, 3).lsn = 3
  BY DEF Record, BlockRecord
<1>4. PICK x, y, z : x = Record("BEGIN", 1, 1) /\ y = BlockRecord(1, 2, b, v) /\ z = Record("COMMIT", 1, 3) OBVIOUS
<1>5. StaleLog(b, v) = <<x, y, z>> BY <1>4 DEF StaleLog
<1>6. x \in Records /\ y \in Records /\ z \in Records /\ x.lsn = 1 /\ y.lsn = 2 /\ z.lsn = 3 BY <1>1, <1>2, <1>3, <1>4
<1> HIDE DEF Records
<1>7. <<x, y, z>> \in Seq(Records) BY <1>6
<1>8. \A i, j \in DOMAIN <<x, y, z>> : i < j => <<x, y, z>>[i].lsn < <<x, y, z>>[j].lsn
  <2>1. DOMAIN <<x, y, z>> = 1..3 OBVIOUS
  <2>2. <<x, y, z>>[1] = x /\ <<x, y, z>>[2] = y /\ <<x, y, z>>[3] = z OBVIOUS
  <2>3. ASSUME NEW i \in 1..3, NEW j \in 1..3, i < j PROVE <<x, y, z>>[i].lsn < <<x, y, z>>[j].lsn
    <3>1. (i = 1 /\ j = 2) \/ (i = 1 /\ j = 3) \/ (i = 2 /\ j = 3) BY <2>3
    <3> QED BY <1>6, <2>2, <3>1
  <2> QED BY <2>1, <2>3
<1> QED BY <1>5, <1>7, <1>8

\* A freshly made image, unmounted.
LEMMA InitCore == Init => Core
<1> SUFFICES ASSUME Init PROVE Core OBVIOUS
<1>1. /\ disk = [b \in Blocks |-> Zero] /\ past = [b \in Blocks |-> {}]
      /\ sb = [clean |-> TRUE, ckpt |-> 0] /\ sbPast = {} /\ synced = Len(log) /\ truncated = <<>>
      /\ frame = [b \in Blocks |-> NoFrame] /\ txn_blocks = <<>> /\ running = 0
      /\ next_lsn = 0 /\ durable_lsn = 0 /\ pc = "down" /\ job = NoJob /\ pos = 0
      /\ stable = disk /\ prep = disk /\ crashes = 0 /\ failures \in FailureModes
  BY DEF Init
<1>2. log \in Seq(Records) /\ \A i, j \in DOMAIN log : i < j => log[i].lsn < log[j].lsn
  <2>1. CASE log = <<>> BY <2>1
  <2>2. CASE \E b \in Blocks, v \in Values : log = StaleLog(b, v) BY <2>2, StaleLogIsLog
  <2> QED BY <2>1, <2>2 DEF Init
<1>3. TypeOK
  <2>1. Zero \in Contents BY ValuesAssumption DEF Contents
  <2>2. sb \in Superblocks BY <1>1 DEF Superblocks
  <2>3. job \in Jobs BY <1>1 DEF NoJob, Jobs
  <2>4. pc \in Labels BY <1>1 DEF Labels, Recovering
  <2>5. NoFrame \in Frames BY NoFrameFields
  <2>6. Len(log) \in Nat BY <1>2
  <2> HIDE DEF NoFrame
  <2> QED BY <1>1, <1>2, <2>1, <2>2, <2>3, <2>4, <2>5, <2>6 DEF TypeOK
<1>4. OldLog = log /\ Found = {sb} /\ sb.clean /\ ~Live /\ ~Emptied
  BY <1>1 DEF OldLog, Found, Live, Recovering, Emptied
<1>5. CrashInv BY <1>4 DEF CrashInv
<1>6. ReplayInv BY <1>1 DEF ReplayInv
<1>7. JobInv BY <1>1 DEF JobInv, InTransaction, NoJob
<1>8. LsnInv BY <1>1, <1>2, <1>4 DEF LsnInv
<1>9. LogInv
  <2>1. Len(log) \in Nat BY <1>2
  <2> QED BY <1>1, <1>4, <2>1 DEF LogInv
<1>10. CleanInv BY <1>1, <1>4 DEF CleanInv, Recovering
<1>11. FrameInv BY <1>1, <1>4 DEF FrameInv
<1>12. CleanOwesNothing BY <1>1 DEF CleanOwesNothing
<1> QED BY <1>3, <1>5, <1>6, <1>7, <1>8, <1>9, <1>10, <1>11, <1>12 DEF Core

\* Every step keeps the invariant.
LEMMA StepKeepsCore ==
  ASSUME Separate, Core, [Next]_vars
  PROVE  Core'
<1>1. CASE Mounting /\ UNCHANGED failures
  BY <1>1, MountKeeps, ReplayKeeps, ReplaySyncKeeps, ReplaySuperblockKeeps, ReplaySuperblockSyncKeeps,
     MountTruncateKeeps, MountTruncateSyncKeeps, MarkInUseKeeps, MountedKeeps DEF Mounting
<1>2. CASE Cache /\ UNCHANGED failures
  BY <1>2, LoadKeeps, WriteBackKeeps, EvictKeeps, WriteBackFailKeeps DEF Cache
<1>3. CASE Operation /\ UNCHANGED failures
  BY <1>3, CountKeeps, WriteKeeps DEF Operation
<1>4. CASE Commit /\ UNCHANGED failures
  BY <1>4, StartCommitKeeps, StageKeeps, LogSyncKeeps, AppendCommitKeeps, CommitFramesKeeps, DecideKeeps,
     CheckpointSyncKeeps, CheckpointSuperblockKeeps, CheckpointTruncateKeeps, CheckpointTruncateSyncKeeps,
     PublishKeeps, CloseSuperblockKeeps, ClosedKeeps DEF Commit
<1>5. CASE Failure /\ UNCHANGED failures
  BY <1>5, CommitErrorKeeps, StutterKeeps, KillKeeps, PowerFailKeeps DEF Failure, Rejected
<1>6. CASE UNCHANGED vars BY <1>6, StutterKeeps
<1> QED BY <1>1, <1>2, <1>3, <1>4, <1>5, <1>6 DEF Next

(***************************************************************************)
(* All that a crash may leave leads to one image.                          *)
(***************************************************************************)

\* Most steps are not about it.
LEMMA AgreeElsewhere ==
  ASSUME pc' \notin Recovering \cup {"failed_txn", "commit_sync"}
  PROVE  AgreeInv'
BY DEF AgreeInv, Recovering

\* Once the image is whole, a step leaves the image alone; what it makes a crash
\* find besides redoes nothing.
LEMMA AgreeWhole ==
  ASSUME AgreeInv, pc \in Recovering \ {"down", "replay"}, pc' \in Recovering \ {"down", "replay"},
         disk' = disk, \A b \in Blocks : past'[b] = {},
         \A n \in Cuts' : \A s \in Found' : ~s.clean =>
            \/ n \in Cuts /\ s \in Found /\ OldLog' = OldLog
            \/ \A b \in Blocks : Redone(n, s.ckpt, b)' = {}
  PROVE  AgreeInv'
<1>1. PICK T : T = disk OBVIOUS
<1>2. ASSUME NEW n \in Cuts', NEW s \in Found', ~s.clean PROVE Recovers(n, s.ckpt, T)'
  <2>1. CASE n \in Cuts /\ s \in Found /\ OldLog' = OldLog
    <3>1. Recovers(n, s.ckpt, T) BY <1>1, <1>2, <2>1 DEF AgreeInv
    <3>2. \A c, b : Redone(n, c, b)' = Redone(n, c, b) BY <2>1, SameRedone
    <3> QED BY <2>1, <3>1, <3>2 DEF Recovers
  <2>2. CASE \A b \in Blocks : Redone(n, s.ckpt, b)' = {}
    BY <1>1, <2>2 DEF Recovers
  <2> QED BY <1>2, <2>1, <2>2
<1>3. \A n \in Cuts' : \A s \in Found' : ~s.clean => Recovers(n, s.ckpt, disk)'
  BY <1>1, <1>2
<1> QED BY <1>3 DEF AgreeInv, Recovering

\* All that a crash may leave leads to one of the two images.
Settled == \E T \in {stable, prep} :
    \A n \in Cuts : \A s \in Found : ~s.clean => Recovers(n, s.ckpt, T)

\* That stays so while only blocks that the log redoes are written.
LEMMA SettledStays ==
  ASSUME Settled, Cuts' = Cuts, Found' = Found, OldLog' = OldLog, stable' = stable, prep' = prep,
         \A b \in Blocks : \/ disk'[b] = disk[b] /\ past'[b] = past[b]
                           \/ \A n \in Cuts : \A s \in Found : ~s.clean /\ Redone(n, s.ckpt, b) # {}
  PROVE  Settled'
<1>1. PICK T \in {stable, prep} : \A n \in Cuts : \A s \in Found : ~s.clean => Recovers(n, s.ckpt, T)
  BY DEF Settled
<1>2. ASSUME NEW n \in Cuts, NEW s \in Found, ~s.clean PROVE Recovers(n, s.ckpt, T)'
  <2>1. Recovers(n, s.ckpt, T) BY <1>1, <1>2
  <2>2. \A c, b : Redone(n, c, b)' = Redone(n, c, b) BY SameRedone
  <2> QED BY <2>1, <2>2 DEF Recovers
<1> QED BY <1>1, <1>2 DEF Settled

\* One log and one superblock lead to one image.
LEMMA SettledAlone == Core /\ pc = "down" /\ Found = {sb} => Settled
<1> SUFFICES ASSUME Core, pc = "down", Found = {sb} PROVE Settled OBVIOUS
<1>0. TypeOK /\ LogInv /\ CrashInv BY DEF Core
<1>1. Cuts = {Len(log)} BY <1>0, ReplayCuts
<1>2. Targets(Len(log)) = {stable, prep} BY DEF Targets, Recovering
<1>3. ~sb.clean => \E T \in {stable, prep} : Recovers(Len(log), sb.ckpt, T) BY <1>0, <1>1, <1>2 DEF CrashInv
<1> QED BY <1>1, <1>3 DEF Settled

\* No commit is being written.
LEMMA SettledElsewhere ==
  ASSUME Core, AgreeInv, "power" \in failures,
         pc \in Recovering \cup {"failed_ckpt", "close_sb", "close_sync"}
  PROVE  Settled
<1>0. TypeOK /\ CrashInv /\ ReplayInv BY DEF Core
<1>1. CASE pc \in {"down", "replay"} BY <1>1 DEF AgreeInv, Settled
<1>2. CASE pc \in Recovering \ {"down", "replay"}
  <2>1. disk \in {stable, prep} BY <1>0, <1>2 DEF ReplayInv
  <2>2. \A n \in Cuts : \A s \in Found : ~s.clean => Recovers(n, s.ckpt, disk) BY <1>2 DEF AgreeInv
  <2> QED BY <2>1, <2>2 DEF Settled
<1>3. CASE pc = "failed_ckpt"
  <2>1. \A n : Targets(n) = {prep} BY <1>3 DEF Targets, Recovering, After
  <2> QED BY <1>0, <2>1 DEF CrashInv, Settled
<1>4. CASE pc \in {"close_sb", "close_sync"}
  <2>1. \A n : Targets(n) = {stable} BY <1>4 DEF Targets, Recovering, After, InCheckpoint
  <2> QED BY <1>0, <2>1 DEF CrashInv, Settled
<1> QED BY <1>1, <1>2, <1>3, <1>4

\* The steps of a mount.
LEMMA MountingAgrees ==
  ASSUME Core, Core', AgreeInv, Mounting, UNCHANGED failures
  PROVE  AgreeInv'
<1>0. TypeOK /\ TypeOK' /\ ReplayInv /\ LogInv /\ CleanInv /\ CleanOwesNothing BY DEF Core
<1>1. CASE Mount
  <2>1. /\ pc' = IF sb.clean THEN "reset" ELSE "replay"
        /\ UNCHANGED <<image, super, wal, cache, running, lsns, job, history>> /\ pc = "down"
    BY <1>1 DEF Mount
  <2>2. OldLog' = OldLog /\ Cuts' = Cuts /\ Found' = Found BY <2>1, SameWal DEF Found, super
  <2>3. CASE ~sb.clean
    <3>1. pc' = "replay" BY <2>1, <2>3
    <3>2. \A n, c, T : Recovers(n, c, T)' <=> Recovers(n, c, T)
      BY <2>1, <2>2, SameWal DEF Recovers, image
    <3>3. stable' = stable /\ prep' = prep BY <2>1 DEF history
    <3> QED BY <2>1, <2>2, <3>1, <3>2, <3>3 DEF AgreeInv, Recovering
  <2>4. CASE sb.clean
    <3>1. \A b \in Blocks : past'[b] = {} BY <1>0, <2>1, <2>4 DEF CleanOwesNothing, image
    <3>2. ASSUME NEW n \in Cuts', NEW s \in Found', ~s.clean PROVE n = 0
      <4>1. s \in Found /\ sb \in Found BY <2>2, <3>2 DEF Found
      <4>2. log = <<>> BY <1>0, <2>4, <3>2, <4>1 DEF CleanInv
      <4>3. Cuts = {Len(log)} BY <1>0, <2>1, ReplayCuts
      <4> QED BY <2>2, <3>2, <4>2, <4>3
    <3>3. \A n \in Cuts' : \A s \in Found' : ~s.clean => \A b \in Blocks : Redone(n, s.ckpt, b)' = {}
      BY <3>2 DEF Redone
    <3>4. pc' = "reset" BY <2>1, <2>4
    <3> QED BY <3>1, <3>3, <3>4 DEF AgreeInv, Recovers
  <2> QED BY <2>3, <2>4
<1>2. CASE Replay
  <2>1. pc = "replay" /\ pc' = "replay" /\ UNCHANGED <<super, wal, history>> BY <1>2 DEF Replay
  <2>2. Cuts' = Cuts /\ Found' = Found /\ OldLog' = OldLog BY <2>1, SameWal DEF Found, super
  <2>3. \A b \in Blocks : \/ disk'[b] = disk[b] /\ past'[b] = past[b]
                          \/ \A n \in Cuts : \A s \in Found : ~s.clean /\ Redone(n, s.ckpt, b) # {}
    <3>1. CASE pos \in Redo(log, sb.ckpt)
      <4>1. PICK c : c = log[pos].block OBVIOUS
      <4>2. DiskWrite(c, log[pos].data) BY <1>2, <3>1, <4>1 DEF Replay
      <4>3. pos \in 1..Len(log) /\ log[pos].type = "BLOCK" BY <1>0, <3>1, OldLogType DEF Redo
      <4>4. c \in Blocks /\ log[pos].data \in Contents BY <1>0, <4>1, <4>3, OldLogType, RecordFields
      <4>5. Writing(c) BY <2>1, <3>1, <4>1 DEF Writing
      <4>6. \A n \in Cuts : \A s \in Found : ~s.clean /\ Redone(n, s.ckpt, c) # {} BY <4>4, <4>5, WritingIsLogged
      <4> QED BY <1>0, <4>2, <4>4, <4>6, DiskWriteType
    <3>2. CASE pos \notin Redo(log, sb.ckpt) BY <1>2, <3>2 DEF Replay, image
    <3> QED BY <3>1, <3>2
  <2>4. ASSUME "power" \in failures PROVE Settled'
    <3>1. Settled BY <2>1, <2>4 DEF AgreeInv, Settled
    <3> QED BY <2>1, <2>2, <2>3, <3>1, SettledStays DEF history
  <2> QED BY <2>1, <2>4 DEF AgreeInv, Settled, Recovering
<1>3. CASE ReplaySync
  <2>1. pc = "replay" /\ pc' = "replay_sb" /\ DeviceSync /\ UNCHANGED <<wal, cache, running, lsns, job, history>>
    BY <1>3 DEF ReplaySync, Step
  <2>2. Found' = {sb'} BY <1>0, <2>1, DeviceSyncType DEF Found
  <2>3. Cuts' = {Len(log')}
    <3>1. Cuts = {Len(log)} BY <1>0, <2>1, ReplayCuts
    <3> QED BY <2>1, <3>1, SameWal DEF wal
  <2>4. (Core /\ pc = "replay_sb" => Recovers(Len(log), sb.ckpt, disk))' BY ReplayedIsOnDisk, PTL
  <2>5. Recovers(Len(log), sb.ckpt, disk)' BY <2>1, <2>4
  <2> QED BY <2>1, <2>2, <2>3, <2>5 DEF AgreeInv
<1>4. CASE ReplaySuperblock
  <2>1. /\ pc = "replay_sb" /\ pc' = "replay_sbsync" /\ UNCHANGED wal
        /\ Found = {sb} /\ Found' = {sb, sb'} /\ disk' = disk /\ past' = past /\ Cuts = {Len(log)}
        /\ \A b : Redone(Len(log), sb'.ckpt, b) = {}
    BY <1>4, ReplaySuperblockEffect
  <2>2. /\ OldLog' = OldLog /\ Cuts' = Cuts /\ \A n, d, b : Redone(n, d, b)' = Redone(n, d, b)
    BY <2>1, SameWal
  <2>3. \A b \in Blocks : past[b] = {} BY <1>0, <2>1 DEF ReplayInv, Recovering
  <2>4. ASSUME NEW n \in Cuts', NEW s \in Found'
        PROVE  \/ n \in Cuts /\ s \in Found /\ OldLog' = OldLog
               \/ \A b \in Blocks : Redone(n, s.ckpt, b)' = {}
    BY <2>1, <2>2, <2>4
  <2> QED BY <2>1, <2>3, <2>4, AgreeWhole DEF Recovering
<1>5. CASE ReplaySuperblockSync
  <2>1. pc = "replay_sbsync" /\ pc' = "reset" /\ DeviceSync /\ UNCHANGED wal BY <1>5 DEF ReplaySuperblockSync, Step
  <2>2. /\ disk' = disk /\ \A b \in Blocks : past'[b] = {}
        /\ Found' = {sb}
    BY <1>0, <2>1, DeviceSyncType DEF Found
  <2>3. OldLog' = OldLog /\ Cuts' = Cuts BY <2>1, SameWal
  <2> QED BY <2>1, <2>2, <2>3, AgreeWhole DEF Recovering, Found
<1>6. CASE Truncate("reset", "reset_sync")
  <2>1. /\ pc = "reset" /\ pc' = "reset_sync" /\ OldLog' = OldLog
        /\ \A n \in Cuts' : n \in Cuts \/ n = 0
        /\ \A n, c, b : Redone(n, c, b)' = Redone(n, c, b)
        /\ UNCHANGED <<image, super, synced, cache, running, lsns, job, pos, history>>
    BY <1>0, <1>6, TruncateEffect
  <2>2. \A b \in Blocks : past[b] = {} BY <1>0, <2>1 DEF ReplayInv, Recovering
  <2> QED BY <2>1, <2>2, NothingRedone, AgreeWhole DEF Recovering, Found, image, super
<1>7. CASE TruncateSync("reset_sync", "mark")
  <2>1. /\ pc = "reset_sync" /\ pc' = "mark" /\ Cuts' = {0} /\ \A c, b : Redone(0, c, b)' = {}
        /\ UNCHANGED image
    BY <1>0, <1>7, TruncateSyncEffect
  <2>2. \A b \in Blocks : past[b] = {} BY <1>0, <2>1 DEF ReplayInv, Recovering
  <2> QED BY <2>1, <2>2, AgreeWhole DEF Recovering, image
<1>8. CASE MarkInUse
  <2>1. pc = "mark" /\ pc' = "mark_sync" /\ UNCHANGED <<image, wal>> BY <1>8 DEF MarkInUse, Step, WriteSuperblock
  <2>2. \A b \in Blocks : past[b] = {} BY <1>0, <2>1 DEF ReplayInv, Recovering
  <2>3. log = <<>> /\ truncated = <<>> BY <1>0, <2>1 DEF LogInv, Emptied
  <2>4. \A n \in Cuts' : \A c, b : Redone(n, c, b)' = {} BY <1>0, <2>1, <2>3, EmptyCuts, SameWal
  <2> QED BY <2>1, <2>2, <2>4, AgreeWhole DEF Recovering, image
<1>9. CASE Mounted
  <2>1. pc' = "up" BY <1>9 DEF Mounted, Step
  <2> QED BY <2>1, AgreeElsewhere DEF Recovering
<1> QED BY <1>1, <1>2, <1>3, <1>4, <1>5, <1>6, <1>7, <1>8, <1>9 DEF Mounting

\* The cache's own steps do not touch a frame of the transaction, and write only
\* what the log can redo.
LEMMA CacheAgrees ==
  ASSUME Core, AgreeInv, Cache, UNCHANGED failures
  PROVE  AgreeInv'
<1>0. TypeOK /\ FrameInv /\ LogInv BY DEF Core
<1>1. PICK b \in Blocks : Load(b) \/ WriteBack(b) \/ Evict(b) \/ WriteBackFail(b) BY DEF Cache
<1>2. Quiet BY <1>1 DEF Load, WriteBack, Evict, WriteBackFail, Quiet, cache
<1>3. \A c \in Blocks : frame'[c].in_txn => frame'[c].data = frame[c].data /\ frame[c].in_txn
  <2>1. CASE Load(b)
    <3>1. frame'[b] = Loaded(disk[b]) /\ \A c \in Blocks : c # b => frame'[c] = frame[c]
      BY <1>0, <2>1 DEF Load, TypeOK
    <3>2. disk[b] \in Contents BY <1>0 DEF TypeOK
    <3> QED BY <3>1, <3>2, NoFrameFields
  <2>2. CASE WriteBack(b)
    <3>1. \A c \in Blocks : frame'[c].data = frame[c].data /\ frame'[c].in_txn = frame[c].in_txn
      BY <1>0, <2>2 DEF WriteBack, TypeOK, Frames
    <3> QED BY <3>1
  <2>3. CASE Evict(b)
    <3>1. frame'[b] = NoFrame /\ \A c \in Blocks : c # b => frame'[c] = frame[c]
      BY <1>0, <2>3 DEF Evict, TypeOK
    <3> QED BY <3>1, NoFrameFields
  <2>4. CASE WriteBackFail(b) BY <2>4 DEF WriteBackFail, cache
  <2> QED BY <1>1, <2>1, <2>2, <2>3, <2>4
<1>4. pc' = pc /\ prep' = prep /\ log' = log /\ synced' = synced BY <1>2 DEF Quiet, control, history, wal
<1>5. pc \notin Recovering BY <1>2 DEF Quiet, Live
<1> QED BY <1>3, <1>4, <1>5 DEF AgreeInv, Recovering

\* Nothing changes.
LEMMA StutterAgrees ==
  ASSUME AgreeInv, UNCHANGED vars
  PROVE  AgreeInv'
<1>1. UNCHANGED <<disk, past, sb, sbPast, log, synced, truncated, frame, pc, stable, prep, failures>>
  BY DEF vars, image, super, wal, cache, control, history
<1>2. Cuts' = Cuts /\ OldLog' = OldLog /\ Found' = Found /\ \A n, c, b : Redone(n, c, b)' = Redone(n, c, b)
  BY <1>1, SameWal DEF wal, Found
<1>3. \A n, c, T : Recovers(n, c, T)' <=> Recovers(n, c, T) BY <1>1, <1>2 DEF Recovers
<1> QED BY <1>1, <1>2, <1>3 DEF AgreeInv

\* The process is down, and disk.img and the log are synced.
LEMMA DownAgrees ==
  ASSUME Core', pc' = "down", sbPast' = {}
  PROVE  AgreeInv'
<1>1. Found' = {sb'} BY DEF Found
<1>2. (Core /\ pc = "down" /\ Found = {sb} => Settled)' BY SettledAlone, PTL
<1>3. Settled' BY <1>1, <1>2
<1> QED BY <1>3 DEF AgreeInv, Settled, Recovering

\* The commit: its COMMIT record is the one that is not synced.
LEMMA CommitAgrees ==
  ASSUME Core, Core', AgreeInv, Commit, UNCHANGED failures
  PROVE  AgreeInv'
<1>0. TypeOK /\ LogInv BY DEF Core
<1>1. CASE AppendCommit
  <2>1. pc = "append" /\ pc' = "commit_sync" /\ synced' = synced BY <1>1 DEF AppendCommit, Step
  <2>2. Live BY <2>1 DEF Live, Recovering
  <2>3. OldLog = log /\ Len(log) \in Nat BY <2>1, <2>2, LiveLog
  <2>4. "power" \in failures => synced <= Len(log) BY <1>0, <2>3 DEF LogInv
  <2>5. Len(log') = Len(log) + 1 BY <1>0, <1>1 DEF AppendCommit, LogAppend, TypeOK
  <2>6. "power" \in failures => synced' < Len(log') BY <1>0, <2>1, <2>3, <2>4, <2>5 DEF TypeOK
  <2> QED BY <2>1, <2>6 DEF AgreeInv, Recovering
<1>2. CASE Closed
  <2>1. pc' = "down" /\ sbPast' = {} BY <1>2 DEF Closed, Forget, DeviceSync
  <2> QED BY <2>1, DownAgrees
<1>3. CASE pc' \notin Recovering \cup {"failed_txn", "commit_sync"} BY <1>3, AgreeElsewhere
<1>4. ASSUME NEW x \in BOOLEAN, NEW y \in BOOLEAN, StartCommit(x, y)
      PROVE  pc' \notin Recovering \cup {"failed_txn", "commit_sync"}
  BY <1>4 DEF StartCommit, Recovering
<1>5. ASSUME \/ Stage \/ StageSync \/ CommitSync \/ CommitFrames \/ Decide
             \/ CheckpointSync \/ CheckpointSuperblock \/ CheckpointSuperblockSync
             \/ Truncate("ckpt_reset", "ckpt_resetsync") \/ TruncateSync("ckpt_resetsync", "publish")
             \/ Publish \/ CloseSuperblock
      PROVE  pc' \notin Recovering \cup {"failed_txn", "commit_sync"}
  BY <1>5 DEF Stage, StageSync, CommitSync, LogSync, CommitFrames, Decide, CheckpointSync, CheckpointSuperblock,
     CheckpointSuperblockSync, Truncate, TruncateSync, Publish, CloseSuperblock, Step, Recovering
<1> QED BY <1>1, <1>2, <1>3, <1>4, <1>5 DEF Commit

\* A process that ends where power fails is not writing a commit.
LEMMA FailureAgrees ==
  ASSUME Separate, Core, Core', AgreeInv, Failure, UNCHANGED failures
  PROVE  AgreeInv'
<1>0. TypeOK /\ JobInv /\ LogInv BY DEF Core
<1>1. CASE CommitError
  <2>1. /\ \/ pc \in {"stage", "append", "commit_sync"} /\ pc' = "failed_txn"
           \/ pc' = "failed_ckpt"
        /\ UNCHANGED <<image, super, wal, cache, running, lsns, job, pos, history>>
    BY <1>1 DEF CommitError, InTransaction
  <2>2. CASE pc' = "failed_ckpt" BY <2>2, AgreeElsewhere DEF Recovering
  <2>3. CASE pc \in {"stage", "append", "commit_sync"} /\ pc' = "failed_txn"
    <3>1. \A b \in Blocks : frame'[b].in_txn => frame'[b].data = prep'[b]
      BY <1>0, <2>1, <2>3 DEF JobInv, InTransaction, cache, history
    <3> QED BY <2>3, <3>1 DEF AgreeInv, Recovering
  <2> QED BY <2>1, <2>2, <2>3
<1>2. CASE Kill \/ CloseFailed \/ MountFailed
  <2>1. Ends BY <1>0, <1>2, EarlyEnds
  <2>2. pc' = "down" BY <2>1 DEF Ends, Forget
  <2>3. ASSUME "power" \in failures PROVE Settled'
    <3>1. "kill" \notin failures BY <1>0, <2>3 DEF Separate, TypeOK
    <3>2. pc # "failed_txn" BY <1>0, <2>3 DEF LogInv
    <3>3. pc \in Recovering \cup {"failed_ckpt", "close_sb", "close_sync"}
      BY <1>2, <3>1, <3>2 DEF Kill, CloseFailed, MountFailed
    <3>4. Settled BY <2>3, <3>3, SettledElsewhere
    <3>5. /\ Cuts' = Cuts /\ Found' = Found /\ OldLog' = OldLog
          /\ \A b \in Blocks : \/ disk'[b] = disk[b] /\ past'[b] = past[b]
                               \/ \A n \in Cuts : \A s \in Found : ~s.clean /\ Redone(n, s.ckpt, b) # {}
      BY <2>1, EndsWrites
    <3> QED BY <2>1, <3>4, <3>5, SettledStays DEF Ends
  <2> QED BY <2>2, <2>3 DEF AgreeInv, Settled
<1>3. CASE PowerFail
  <2>1. pc' = "down" /\ sbPast' = {} BY <1>3 DEF PowerFail, Forget
  <2> QED BY <2>1, DownAgrees
<1> QED BY <1>1, <1>2, <1>3, StutterAgrees DEF Failure, Rejected

\* A freshly made image has one superblock.
LEMMA InitAgrees == Init => AgreeInv
<1> SUFFICES ASSUME Init PROVE AgreeInv OBVIOUS
<1>1. Core /\ pc = "down" /\ Found = {sb} BY InitCore DEF Init, Found
<1>2. Settled BY <1>1, SettledAlone
<1> QED BY <1>1, <1>2 DEF AgreeInv, Settled, Recovering

\* Every step keeps the agreement.
LEMMA StepAgrees ==
  ASSUME Separate, Core, AgreeInv, [Next]_vars
  PROVE  AgreeInv'
<1>1. Core' BY StepKeepsCore
<1>2. CASE Operation
  <2>1. pc' = "up" BY <1>2 DEF Operation, BeginOp, EndOp, Write, control
  <2> QED BY <2>1, AgreeElsewhere DEF Recovering
<1> QED BY <1>1, <1>2, StutterAgrees, MountingAgrees, CacheAgrees, CommitAgrees, FailureAgrees DEF Next

\* What the invariant is for: the log holds what disk.img may lose or has not got.
LEMMA CoreMeans ==
  ASSUME Core
  PROVE  CommitFindsFrames /\ UnsyncedIsLogged /\ DirtyIsLogged
<1>0. TypeOK /\ CrashInv /\ JobInv /\ LogInv /\ CleanInv /\ FrameInv BY DEF Core
<1>1. CommitFindsFrames
  <2> SUFFICES ASSUME pc \in InTransaction, NEW k \in DOMAIN job.blocks
               PROVE  frame[job.blocks[k]].mapped /\ frame[job.blocks[k]].in_txn
    BY DEF CommitFindsFrames
  <2>1. job.blocks[k] \in Blocks BY <1>0 DEF TypeOK, Jobs
  <2>2. frame[job.blocks[k]].in_txn BY <1>0, <2>1 DEF JobInv, InJob
  <2>3. Live BY DEF Live, InTransaction, Recovering
  <2> QED BY <1>0, <2>1, <2>2, <2>3 DEF FrameInv, FrameOK
<1>2. Len(log) \in Cuts
  <2>1. CASE "power" \notin failures BY <2>1 DEF Cuts
  <2>2. CASE "power" \in failures /\ truncated = <<>>
    <3>1. OldLog = log /\ Len(log) \in Nat /\ synced \in Nat /\ synced <= Len(log)
      BY <1>0, <2>2, OldLogType DEF LogInv, TypeOK
    <3> QED BY <2>2, <3>1 DEF Cuts
  <2>3. CASE "power" \in failures /\ truncated # <<>>
    <3>1. Len(log) = 0 BY <1>0, <2>3 DEF LogInv
    <3> QED BY <2>3, <3>1 DEF Cuts
  <2> QED BY <2>1, <2>2, <2>3
<1>3. ASSUME Live, ~Written PROVE \E T \in Targets(Len(log)) : Recovers(Len(log), sb.ckpt, T)
  <2>1. pc # "close_sync" BY <1>3 DEF Written, Emptied
  <2>2. sb \in Found /\ ~sb.clean BY <1>0, <1>3, <2>1, UncleanLive DEF Found
  <2> QED BY <1>0, <1>2, <2>2 DEF CrashInv
<1>4. UnsyncedIsLogged
  <2> SUFFICES ASSUME Live, NEW b \in Blocks, past[b] # {}
               PROVE  \E i \in Redo(log, sb.ckpt) : log[i].block = b
    BY DEF UnsyncedIsLogged
  <2>1. ~Written BY <1>0 DEF FrameInv, FrameOK
  <2>2. PICK i \in Redone(Len(log), sb.ckpt, b) : TRUE BY <1>3, <2>1 DEF Recovers
  <2> QED BY <1>0, <2>2, RedoIsRedone
<1>5. DirtyIsLogged
  <2> SUFFICES ASSUME Live, NEW b \in Blocks, frame[b].dirty, ~frame[b].in_txn
               PROVE  \E i \in Redo(log, sb.ckpt) : log[i].block = b /\ log[i].data = frame[b].data
    BY DEF DirtyIsLogged
  <2>1. FrameOK(b) BY <1>0 DEF FrameInv
  <2>2. ~Written /\ frame[b].data = Image[b] BY <2>1 DEF FrameOK
  <2>3. PICK T \in Targets(Len(log)) : Recovers(Len(log), sb.ckpt, T) BY <1>3, <2>2
  <2>4. Redone(Len(log), sb.ckpt, b) # {} BY <1>2, <2>1 DEF FrameOK, Found
  <2>5. PICK i \in Redone(Len(log), sb.ckpt, b) : OldLog[i].data = T[b] BY <2>3, <2>4 DEF Recovers
  <2>6. log # <<>> /\ OldLog = log
    <3>1. i \in 1..Len(log) BY <2>5, RedoneIn
    <3>2. log # <<>> BY <3>1
    <3> QED BY <1>0, <3>2, OldLogType DEF LogInv
  <2>7. T[b] = Image[b]
    <3>1. CASE pc \in InTransaction \cup {"failed_txn"}
      <4>1. prep[b] = stable[b] BY <1>0, <3>1 DEF JobInv
      <4>2. T \in {stable, prep} BY <2>3, EitherImage
      <4>3. Image = stable BY <3>1 DEF Image, InTransaction, InCheckpoint
      <4> QED BY <4>1, <4>2, <4>3
    <3>2. CASE pc \in InCheckpoint \cup {"publish", "failed_ckpt"}
      BY <2>3, <3>2 DEF Image, Targets, InCheckpoint, After, Recovering
    <3>3. CASE pc \in {"up", "close_sb", "close_sync"}
      BY <2>3, <3>3 DEF Image, Targets, InCheckpoint, After, Recovering
    <3> QED BY <1>0, <3>1, <3>2, <3>3 DEF TypeOK, Labels, Live
  <2> QED BY <1>0, <2>2, <2>5, <2>6, <2>7, RedoIsRedone
<1> QED BY <1>1, <1>4, <1>5

\* On a machine on which processes are killed and both files may give errors, or
\* power fails and disk.img may give errors (Separate), the invariant holds for
\* every set of blocks, every bound and any number of crashes, failed mounts and
\* failed unmounts.
THEOREM Invariance ==
  ASSUME Separate
  PROVE  Spec => []Inv
<1>1. Init => Core /\ AgreeInv BY InitCore, InitAgrees
<1>2. Core /\ AgreeInv /\ [Next]_vars => Core' /\ AgreeInv' BY StepKeepsCore, StepAgrees
<1>3. Core /\ AgreeInv => Inv BY CoreMeans DEF Core, Inv
<1> QED BY <1>1, <1>2, <1>3, PTL DEF Spec

\* Recovery is atomic: however often and wherever it failed, the mount that gets
\* through (recover() in src/recovery.cpp) leaves the image of the last commit that
\* returned or of the one under way, whole.
THEOREM RecoveryIsAtomic ==
  ASSUME Separate
  PROVE  Spec => []RecoveryAtomic
<1>1. Init => Core BY InitCore
<1>2. Core /\ [Next]_vars => Core' BY StepKeepsCore
<1>3. Core => RecoveryAtomic BY DEF Core, ReplayInv, RecoveryAtomic, Recovering
<1> QED BY <1>1, <1>2, <1>3, PTL DEF Spec

\* Whenever the next mount may find clean_unmount set, and so discard the log
\* (Storage::Impl in src/storage.cpp), disk.img durably holds the last commit.
THEOREM CleanIsComplete ==
  ASSUME Separate
  PROVE  Spec => []CleanOwesNothing
<1>1. Init => Core BY InitCore
<1>2. Core /\ [Next]_vars => Core' BY StepKeepsCore
<1>3. Core => CleanOwesNothing BY DEF Core
<1> QED BY <1>1, <1>2, <1>3, PTL DEF Spec

-----------------------------------------------------------------------------
(* Storage implements AtomicStore: every step of the cache, the log, a      *)
(* checkpoint, a recovery or a crash is one step of an array of blocks with *)
(* a durable copy, or none.                                                 *)

\* The refinement mapping, as Store gives it.
Memory == IF Live THEN [b \in Blocks |-> Current(b)] ELSE View
Phase == IF ~Live THEN "down"
         ELSE IF pc \in InTransaction \cup {"failed_txn"} /\ View # prep
              THEN "committing" ELSE "up"

\* A step of Storage that AtomicStore sees, or does not see.
Simulated == Store!Next \/ UNCHANGED Store!vars

-----------------------------------------------------------------------------
(* The steps of AtomicStore, in terms of the mapping. *)

\* Nothing that AtomicStore knows of changes.
LEMMA AbstractStutter ==
  ASSUME Memory' = Memory, View' = View, running' = running, Phase' = Phase
  PROVE  Simulated
BY DEF Simulated, Store!vars, Memory, Phase

\* A commit begins.
LEMMA AbstractBeginCommit ==
  ASSUME Phase = "up", running = 0, Phase' = "committing",
         Memory' = Memory, View' = View, running' = running
  PROVE  Simulated
BY DEF Simulated, Store!Next, Store!BeginCommit, Memory, Phase

\* A commit becomes durable.
LEMMA AbstractEndCommit ==
  ASSUME Phase = "committing", View' = Memory, Phase' = "up", Memory' = Memory, running' = running
  PROVE  Simulated
BY DEF Simulated, Store!Next, Store!EndCommit, Memory, Phase

\* A crash or an unmount.
LEMMA AbstractCrash ==
  ASSUME View' = View \/ (Phase = "committing" /\ View' = Memory),
         Memory' = View', running' = 0, Phase' = "down"
  PROVE  Simulated
<1>1. Store!Crash BY DEF Store!Crash, Memory, Phase
<1> QED BY <1>1 DEF Simulated, Store!Next

\* A mount.
LEMMA AbstractMount ==
  ASSUME Phase = "down", Phase' = "up", Memory' = Memory, View' = View, running' = running
  PROVE  Simulated
BY DEF Simulated, Store!Next, Store!Mount, Memory, Phase

\* An operation begins or ends.
LEMMA AbstractCount ==
  ASSUME Phase = "up", running' = running + 1 \/ (running > 0 /\ running' = running - 1),
         Memory' = Memory, View' = View, Phase' = Phase
  PROVE  Simulated
BY DEF Simulated, Store!Next, Store!Begin, Store!End, Memory, Phase

\* An operation writes.
LEMMA AbstractWrite ==
  ASSUME Phase = "up", running > 0, NEW b \in Blocks, NEW v \in Values,
         Memory' = [Memory EXCEPT ![b] = v], View' = View, running' = running, Phase' = Phase
  PROVE  Simulated
<1>1. Store!Write(b, v) BY DEF Store!Write, Memory, Phase
<1> QED BY <1>1 DEF Simulated, Store!Next

-----------------------------------------------------------------------------
(* The durable image: disk.img with the safe part of the log replayed. *)

\* How many records of the log a crash is sure to leave.
SafeCut == IF "power" \in failures THEN synced ELSE Len(log)

\* The safe part of the log is one of the prefixes that a crash may leave.
LEMMA SafePart ==
  ASSUME TypeOK, LogInv
  PROVE  /\ SafeCut \in Nat /\ SafeCut \in Cuts /\ SafeCut <= Len(OldLog)
         /\ SafeLog \in Seq(Records) /\ DOMAIN SafeLog = 1..SafeCut
         /\ \A i \in 1..SafeCut : SafeLog[i] = OldLog[i]
<1>1. /\ OldLog \in Seq(Records) /\ Len(OldLog) \in Nat /\ log \in Seq(Records) /\ Len(log) \in Nat
      /\ DOMAIN log = 1..Len(log) /\ (truncated = <<>> => OldLog = log)
  BY OldLogType
<1>2. CASE "power" \in failures
  <2>1. SafeCut = synced /\ synced \in Nat /\ synced <= Len(OldLog) BY <1>2 DEF SafeCut, TypeOK, LogInv
  <2>2. SafeLog = SubSeq(OldLog, 1, synced) BY <1>2 DEF SafeLog, OldLog
  <2>3. synced \in Cuts BY <1>1, <1>2, <2>1 DEF Cuts
  <2> QED BY <1>1, <2>1, <2>2, <2>3
<1>3. CASE "power" \notin failures
  <2>1. SafeCut = Len(log) /\ SafeLog = log /\ SafeCut \in Cuts BY <1>3 DEF SafeCut, SafeLog, Cuts
  <2>2. CASE truncated = <<>> BY <1>1, <2>1, <2>2
  <2>3. CASE truncated # <<>>
    <3>1. Len(log) = 0 BY <2>3 DEF LogInv
    <3> QED BY <1>1, <2>1, <3>1
  <2> QED BY <2>2, <2>3
<1> QED BY <1>2, <1>3

\* What it redoes.
LEMMA SafeRedo ==
  ASSUME TypeOK, LogInv, NEW c, NEW b
  PROVE  {i \in Redo(SafeLog, c) : SafeLog[i].block = b} = Redone(SafeCut, c, b)
<1>1. SafeCut \in Nat /\ DOMAIN SafeLog = 1..SafeCut /\ \A i \in 1..SafeCut : SafeLog[i] = OldLog[i] BY SafePart
<1>2. \A x : x \in Committed(SafeLog) <=> \E j \in 1..SafeCut : OldLog[j].type = "COMMIT" /\ OldLog[j].txn = x
  BY <1>1 DEF Committed
<1>3. \A i : i \in Redo(SafeLog, c) <=>
             (/\ i \in 1..SafeCut /\ OldLog[i].lsn > c /\ OldLog[i].type = "BLOCK"
              /\ OldLog[i].txn \in Committed(SafeLog))
  BY <1>1 DEF Redo
<1> QED BY <1>1, <1>2, <1>3 DEF Redone

\* A block of it: the last record that is redone, or what is on disk.
LEMMA ViewBlock ==
  ASSUME TypeOK, LogInv, NEW b \in Blocks
  PROVE  /\ sb.clean \/ Redone(SafeCut, sb.ckpt, b) = {} => View[b] = disk[b]
         /\ ~sb.clean => \A i \in Redone(SafeCut, sb.ckpt, b) :
               (\A j \in Redone(SafeCut, sb.ckpt, b) : j <= i) => View[b] = OldLog[i].data
<1> DEFINE R == {i \in Redo(SafeLog, sb.ckpt) : SafeLog[i].block = b}
           k == CHOOSE i \in R : \A j \in R : j <= i
<1>1. View[b] = IF sb.clean \/ R = {} THEN disk[b] ELSE SafeLog[k].data BY DEF View
<1>2. R = Redone(SafeCut, sb.ckpt, b) BY SafeRedo
<1>3. ASSUME ~sb.clean, NEW i \in R, \A j \in R : j <= i PROVE View[b] = OldLog[i].data
  <2>1. k \in R /\ \A j \in R : j <= k BY <1>3
  <2>2. R \subseteq 1..SafeCut /\ SafeCut \in Nat BY <1>2, RedoneIn, SafePart
  <2> HIDE DEF k, R
  <2>3. k = i BY <1>3, <2>1, <2>2
  <2>4. View[b] = SafeLog[i].data BY <1>1, <1>3, <2>3
  <2>5. SafeLog[i] = OldLog[i] BY <2>2, SafePart
  <2> QED BY <2>4, <2>5
<1> HIDE DEF k, R
<1> QED BY <1>1, <1>2, <1>3

\* What is true of it in every state.
ViewFacts ==
    /\ SafeCut \in Nat /\ SafeCut \in Cuts /\ SafeCut <= Len(OldLog)
    /\ sb.clean => View = disk /\ View = stable
    /\ ~sb.clean => View \in Targets(SafeCut) /\ Recovers(SafeCut, sb.ckpt, View)
    /\ ~sb.clean => \A T \in [Blocks -> Contents] : Recovers(SafeCut, sb.ckpt, T) => View = T
    /\ View \in [Blocks -> Contents]

\* They follow from the invariant.
LEMMA ViewHas == Core => ViewFacts
<1> SUFFICES ASSUME Core PROVE ViewFacts OBVIOUS
<1>0. TypeOK /\ LogInv /\ CrashInv /\ CleanOwesNothing BY DEF Core
<1>1. SafeCut \in Nat /\ SafeCut \in Cuts /\ SafeCut <= Len(OldLog) BY <1>0, SafePart
<1>2. View = [b \in Blocks |-> View[b]] BY DEF View
<1>3. ASSUME NEW T \in [Blocks -> Contents], \A b \in Blocks : View[b] = T[b] PROVE View = T
  <2>1. T = [b \in Blocks |-> T[b]] OBVIOUS
  <2> QED BY <1>2, <1>3, <2>1
<1>4. sb.clean => View = disk /\ View = stable
  <2> SUFFICES ASSUME sb.clean PROVE View = disk /\ View = stable OBVIOUS
  <2>1. \A b \in Blocks : View[b] = disk[b] /\ View[b] = stable[b] BY <1>0, ViewBlock DEF CleanOwesNothing
  <2>2. disk \in [Blocks -> Contents] /\ stable \in [Blocks -> Contents] BY <1>0 DEF TypeOK
  <2> QED BY <1>3, <2>1, <2>2
<1>5. ASSUME ~sb.clean, NEW T \in [Blocks -> Contents], Recovers(SafeCut, sb.ckpt, T) PROVE View = T
  <2>1. ASSUME NEW b \in Blocks PROVE View[b] = T[b] BY <1>0, <1>5, ViewBlock DEF Recovers
  <2> QED BY <1>3, <2>1
<1>6. ~sb.clean => View \in Targets(SafeCut) /\ Recovers(SafeCut, sb.ckpt, View) /\ View \in [Blocks -> Contents]
  <2> SUFFICES ASSUME ~sb.clean
               PROVE  View \in Targets(SafeCut) /\ Recovers(SafeCut, sb.ckpt, View) /\ View \in [Blocks -> Contents]
    OBVIOUS
  <2>1. PICK T \in Targets(SafeCut) : Recovers(SafeCut, sb.ckpt, T) BY <1>0, <1>1 DEF CrashInv, Found
  <2>2. T \in [Blocks -> Contents] BY <1>0, <2>1, EitherImage DEF TypeOK
  <2>3. View = T BY <1>5, <2>1, <2>2
  <2> QED BY <2>1, <2>2, <2>3
<1>7. View \in [Blocks -> Contents] BY <1>0, <1>4, <1>6 DEF TypeOK
<1> QED BY <1>1, <1>4, <1>5, <1>6, <1>7 DEF ViewFacts

\* The same after a step.
LEMMA ViewHasNext ==
  ASSUME Core'
  PROVE  ViewFacts'
BY ViewHas, PTL

\* A step that leaves log and superblock, and writes only blocks that the safe part
\* of the log redoes, leaves the durable image.
LEMMA ViewStays ==
  ASSUME Core, Core', OldLog' = OldLog, SafeCut' = SafeCut, sb' = sb,
         \A b \in Blocks : sb.clean \/ Redone(SafeCut, sb.ckpt, b) = {} =>
            disk'[b] = disk[b] /\ (past[b] = {} => past'[b] = {})
  PROVE  View' = View
<1>0. ViewFacts /\ ViewFacts' BY ViewHas, ViewHasNext
<1>1. CASE sb.clean
  <2>1. disk \in [Blocks -> Contents] /\ disk' \in [Blocks -> Contents] BY DEF Core, TypeOK
  <2>2. disk' = disk BY <1>1, <2>1, SameImage
  <2> QED BY <1>0, <1>1, <2>2 DEF ViewFacts
<1>2. CASE ~sb.clean
  <2>1. PICK T, n, c : T = View /\ n = SafeCut /\ c = sb.ckpt OBVIOUS
  <2>2. Recovers(n, c, T) /\ T \in [Blocks -> Contents] BY <1>0, <1>2, <2>1 DEF ViewFacts
  <2>3. \A b : Redone(n, c, b)' = Redone(n, c, b) BY SameRedone
  <2>4. Recovers(n, c, T)' BY <2>1, <2>2, <2>3 DEF Recovers
  <2>5. Recovers(SafeCut, sb.ckpt, T)' BY <2>1, <2>4
  <2> QED BY <1>0, <1>2, <2>1, <2>2, <2>5 DEF ViewFacts
<1> QED BY <1>1, <1>2

\* What it is while mounted, and while the image is whole.
PhaseFacts ==
    /\ pc \in After => View = prep
    /\ pc \in {"up", "stage", "append", "close_sb", "close_sync"} => View = stable
    /\ pc = "commit_sync" => View = IF "power" \in failures THEN stable ELSE prep
    /\ pc = "failed_txn" => View \in {stable, prep}
    /\ pc \in Recovering \ {"down", "replay"} => View = disk
    /\ pc \in InTransaction \cup {"failed_txn"} => Memory = prep

\* These too, with the agreement of all that a crash may leave.
LEMMA PhaseHas == Core /\ AgreeInv => PhaseFacts
<1> SUFFICES ASSUME Core, AgreeInv PROVE PhaseFacts OBVIOUS
<1>0. TypeOK /\ LogInv /\ CleanInv /\ JobInv /\ FrameInv /\ ViewFacts BY ViewHas DEF Core
<1>1. Live /\ pc # "close_sync" => View \in Targets(SafeCut) BY <1>0, UncleanLive DEF ViewFacts, Found
<1>2. pc \in After => View = prep BY <1>1 DEF After, InCheckpoint, Live, Recovering, Targets
<1>3. pc \in {"up", "stage", "append", "close_sb"} => View = stable
  BY <1>1 DEF After, InCheckpoint, Live, Recovering, Targets
<1>4. pc = "close_sync" => View = stable
  BY <1>0 DEF ViewFacts, After, InCheckpoint, Recovering, Targets
<1>5. pc = "commit_sync" => View = IF "power" \in failures THEN stable ELSE prep
  <2>1. pc = "commit_sync" /\ "power" \in failures => SafeCut # Len(log)
    BY <1>0 DEF AgreeInv, SafeCut, TypeOK
  <2>2. pc = "commit_sync" /\ "power" \notin failures => SafeCut = Len(log) BY DEF SafeCut
  <2> QED BY <1>1, <2>1, <2>2 DEF After, InCheckpoint, Live, Recovering, Targets
<1>6. pc = "failed_txn" => View \in {stable, prep}
  <2>1. pc = "failed_txn" => Live /\ pc # "close_sync" BY DEF Live, Recovering
  <2> QED BY <1>1, <2>1, EitherImage
<1>7. pc \in Recovering \ {"down", "replay"} => View = disk
  <2> SUFFICES ASSUME pc \in Recovering \ {"down", "replay"}, ~sb.clean PROVE View = disk BY <1>0 DEF ViewFacts
  <2>1. Recovers(SafeCut, sb.ckpt, disk) BY <1>0 DEF AgreeInv, ViewFacts, Found
  <2> QED BY <1>0, <2>1 DEF ViewFacts, TypeOK
<1>8. pc \in InTransaction \cup {"failed_txn"} => Memory = prep
  <2> SUFFICES ASSUME pc \in InTransaction \cup {"failed_txn"} PROVE Memory = prep OBVIOUS
  <2>1. Live /\ Image = stable BY DEF Live, Recovering, InTransaction, Image, InCheckpoint
  <2>2. ASSUME NEW b \in Blocks PROVE Current(b) = prep[b]
    <3>1. FrameOK(b) BY <1>0, <2>1 DEF FrameInv
    <3>2. CASE frame[b].in_txn
      <4>1. frame[b].mapped BY <3>1, <3>2 DEF FrameOK
      <4>2. frame[b].data = prep[b]
        BY <1>0, <3>2 DEF JobInv, AgreeInv
      <4> QED BY <4>1, <4>2 DEF Current
    <3>3. CASE ~frame[b].in_txn
      <4>1. prep[b] = stable[b] BY <1>0, <3>3 DEF JobInv
      <4>2. frame[b].mapped => frame[b].data = stable[b] BY <2>1, <3>1, <3>3 DEF FrameOK
      <4>3. ~frame[b].mapped => disk[b] = stable[b] BY <2>1, <3>1 DEF FrameOK
      <4> QED BY <4>1, <4>2, <4>3 DEF Current
    <3> QED BY <3>2, <3>3
  <2>3. prep = [b \in Blocks |-> prep[b]] BY <1>0 DEF TypeOK
  <2> QED BY <2>1, <2>2, <2>3 DEF Memory
<1> QED BY <1>2, <1>3, <1>4, <1>5, <1>6, <1>7, <1>8 DEF PhaseFacts

\* The same after a step.
LEMMA PhaseHasNext ==
  ASSUME Core', AgreeInv'
  PROVE  PhaseFacts'
BY PhaseHas, PTL

-----------------------------------------------------------------------------
(* Each step of Storage, seen by AtomicStore. *)

\* While nothing is mounted AtomicStore only sees the durable image.
LEMMA DownStutter ==
  ASSUME ~Live, ~Live', View' = View, running' = running
  PROVE  Simulated
BY AbstractStutter DEF Memory, Phase

\* The same blocks are read from the same frames and disk.
LEMMA SameMemory ==
  ASSUME Live, Live', \A b \in Blocks : Current(b)' = Current(b)
  PROVE  Memory' = Memory
BY DEF Memory

\* A mount: only its last step is seen.
LEMMA MountingSimulated ==
  ASSUME Core, Core', AgreeInv, AgreeInv', Mounting, UNCHANGED failures
  PROVE  Simulated
<1>0. TypeOK /\ LogInv /\ ReplayInv /\ FrameInv /\ PhaseFacts /\ PhaseFacts' /\ ViewFacts
  BY PhaseHas, PhaseHasNext, ViewHas DEF Core
<1>1. CASE Mount
  <2>1. ~Live /\ ~Live' /\ UNCHANGED <<image, super, wal, running>> BY <1>1 DEF Mount, Live, Recovering
  <2>2. View' = View BY <2>1, SameWal, ViewStays DEF image, super, wal, SafeCut
  <2> QED BY <2>1, <2>2, DownStutter
<1>2. CASE Replay
  <2>1. ~Live /\ ~Live' /\ pc = "replay" /\ UNCHANGED <<super, wal, running>> BY <1>2 DEF Replay, Live, Recovering
  <2>2. SafeCut = Len(log) BY <1>0, <2>1, ReplayCuts DEF ViewFacts
  <2>3. ~sb.clean BY <1>0, <2>1 DEF ReplayInv
  <2>4. \A b \in Blocks : Redone(SafeCut, sb.ckpt, b) = {} => disk'[b] = disk[b] /\ past'[b] = past[b]
    <3>1. CASE pos \in Redo(log, sb.ckpt)
      <4>1. DiskWrite(log[pos].block, log[pos].data) BY <1>2, <3>1 DEF Replay
      <4>2. pos \in 1..Len(log) /\ log[pos].type = "BLOCK" BY <1>0, <3>1, OldLogType DEF Redo
      <4>3. log[pos].block \in Blocks /\ log[pos].data \in Contents BY <1>0, <4>2, OldLogType, RecordFields
      <4>4. Redone(SafeCut, sb.ckpt, log[pos].block) # {} BY <1>0, <2>2, <3>1, RedoIsRedone
      <4> QED BY <1>0, <4>1, <4>3, <4>4, DiskWriteType
    <3>2. CASE pos \notin Redo(log, sb.ckpt) BY <1>2, <3>2 DEF Replay, image
    <3> QED BY <3>1, <3>2
  <2>5. View' = View BY <2>1, <2>3, <2>4, SameWal, ViewStays DEF super, wal, SafeCut
  <2> QED BY <2>1, <2>5, DownStutter
<1>3. CASE ReplaySync
  <2>1. ~Live /\ ~Live' /\ DeviceSync /\ UNCHANGED <<wal, running>> BY <1>3 DEF ReplaySync, Step, Live, Recovering
  <2>2. disk' = disk /\ sb' = sb /\ \A b \in Blocks : past'[b] = {} BY <1>0, <2>1, DeviceSyncType
  <2>3. View' = View BY <2>1, <2>2, SameWal, ViewStays DEF wal, SafeCut
  <2> QED BY <2>1, <2>3, DownStutter
<1>4. CASE \/ ReplaySuperblock \/ ReplaySuperblockSync \/ Truncate("reset", "reset_sync")
           \/ TruncateSync("reset_sync", "mark") \/ MarkInUse
  <2>1. /\ pc \in Recovering \ {"down", "replay"} /\ pc' \in Recovering \ {"down", "replay"}
        /\ disk' = disk /\ running' = running
    BY <1>4 DEF ReplaySuperblock, ReplaySuperblockSync, Truncate, TruncateSync, MarkInUse, Step, Recovering,
       WriteSuperblock, DeviceSync, image
  <2>2. View' = View BY <1>0, <2>1 DEF PhaseFacts
  <2>3. ~Live /\ ~Live' BY <2>1 DEF Live
  <2> QED BY <2>1, <2>2, <2>3, DownStutter
<1>5. CASE Mounted
  <2>1. /\ pc = "mark_sync" /\ pc' = "up" /\ disk' = disk /\ stable' = disk /\ UNCHANGED <<cache, running>>
    BY <1>5 DEF Mounted, Step, DeviceSync
  <2>2. ~Live /\ Live' BY <2>1 DEF Live, Recovering
  <2>3. View = disk /\ View' = disk BY <1>0, <2>1 DEF PhaseFacts, Recovering
  <2>4. \A b \in Blocks : Current(b)' = disk[b]
    <3>1. \A b \in Blocks : ~frame'[b].mapped BY <1>0, <2>1, <2>2, NoFrameFields DEF FrameInv, cache
    <3> QED BY <2>1, <3>1 DEF Current
  <2>5. disk = [b \in Blocks |-> disk[b]] BY <1>0 DEF TypeOK
  <2>6. Memory = disk /\ Memory' = disk BY <2>2, <2>3, <2>4, <2>5 DEF Memory
  <2>7. Phase = "down" /\ Phase' = "up" BY <2>1, <2>2 DEF Phase, InTransaction
  <2> QED BY <2>1, <2>3, <2>6, <2>7, AbstractMount
<1> QED BY <1>1, <1>2, <1>3, <1>4, <1>5 DEF Mounting

\* Loads, write-backs and evictions change neither what is read nor what a crash leaves.
LEMMA CacheSimulated ==
  ASSUME Core, Core', AgreeInv, AgreeInv', Cache, UNCHANGED failures
  PROVE  Simulated
<1>0. TypeOK /\ LogInv /\ FrameInv /\ ViewFacts BY ViewHas DEF Core
<1>1. PICK b \in Blocks : Load(b) \/ WriteBack(b) \/ Evict(b) \/ WriteBackFail(b) BY DEF Cache
<1>2. Quiet /\ Live /\ running' = running BY <1>1 DEF Load, WriteBack, Evict, WriteBackFail, Quiet, cache
<1>3. /\ pc' = pc /\ prep' = prep /\ sb' = sb /\ UNCHANGED wal /\ Live'
  BY <1>2 DEF Quiet, control, history, super, Live
<1>4. FrameOK(b) /\ frame[b].data \in Contents /\ Torn \in Contents /\ disk[b] \in Contents
  BY <1>0, <1>2, FrameFields DEF FrameInv, Contents, TypeOK
<1>5. \A c \in Blocks : \/ disk'[c] = disk[c] /\ past'[c] = past[c]
                        \/ frame[c].dirty
  BY <1>0, <1>1, <1>4, DiskWriteType DEF Load, WriteBack, Evict, WriteBackFail, Writable, image
<1>6. View' = View
  <2>1. \A c \in Blocks : frame[c].dirty => ~sb.clean /\ Redone(SafeCut, sb.ckpt, c) # {}
    BY <1>0, <1>2 DEF FrameInv, FrameOK, ViewFacts, Found
  <2> QED BY <1>3, <1>5, <2>1, SameWal, ViewStays DEF wal, SafeCut
<1>7. \A c \in Blocks : Current(c)' = Current(c)
  <2>1. CASE Load(b)
    <3>1. disk' = disk /\ frame'[b] = Loaded(disk[b]) /\ ~frame[b].mapped
          /\ \A c \in Blocks : c # b => frame'[c] = frame[c]
      BY <1>0, <2>1 DEF Load, TypeOK, image
    <3> QED BY <1>4, <3>1, NoFrameFields DEF Current
  <2>2. CASE WriteBack(b)
    <3>1. \A c \in Blocks : frame'[c].data = frame[c].data /\ frame'[c].mapped = frame[c].mapped
      BY <1>0, <2>2 DEF WriteBack, TypeOK, Frames
    <3>2. frame[b].mapped /\ \A c \in Blocks : c # b => disk'[c] = disk[c]
      BY <1>0, <1>4, <2>2, DiskWriteType DEF WriteBack, Writable, FrameOK
    <3> QED BY <3>1, <3>2 DEF Current
  <2>3. CASE Evict(b)
    <3>1. /\ frame'[b] = NoFrame /\ frame[b].mapped /\ ~frame[b].in_txn
          /\ \A c \in Blocks : c # b => frame'[c] = frame[c]
      BY <1>0, <2>3 DEF Evict, TypeOK
    <3>2. disk'[b] = frame[b].data /\ \A c \in Blocks : c # b => disk'[c] = disk[c]
      <4>1. CASE ~frame[b].dirty /\ UNCHANGED image BY <1>4, <3>1, <4>1 DEF FrameOK, image
      <4>2. CASE DiskWrite(b, frame[b].data) BY <1>0, <1>4, <4>2, DiskWriteType
      <4> QED BY <2>3, <4>1, <4>2 DEF Evict
    <3> QED BY <3>1, <3>2, NoFrameFields DEF Current
  <2>4. CASE WriteBackFail(b)
    <3>1. frame' = frame /\ frame[b].mapped /\ \A c \in Blocks : c # b => disk'[c] = disk[c]
      BY <1>0, <1>4, <2>4, DiskWriteType DEF WriteBackFail, Writable, FrameOK, cache
    <3> QED BY <3>1 DEF Current
  <2> QED BY <1>1, <2>1, <2>2, <2>3, <2>4
<1>8. Memory' = Memory BY <1>2, <1>3, <1>7, SameMemory
<1>9. Phase' = Phase BY <1>2, <1>3, <1>6 DEF Phase
<1> QED BY <1>2, <1>6, <1>8, <1>9, AbstractStutter

\* An operation begins, writes, ends.
LEMMA OperationSimulated ==
  ASSUME Core, Core', AgreeInv, AgreeInv', Operation, UNCHANGED failures
  PROVE  Simulated
<1>0. TypeOK /\ PhaseFacts /\ PhaseFacts' BY PhaseHas, PhaseHasNext DEF Core
<1>1. pc = "up" /\ pc' = "up" /\ disk' = disk /\ stable' = stable
  BY DEF Operation, BeginOp, EndOp, Write, image, control, history
<1>2. Live /\ Live' /\ Phase = "up" /\ Phase' = "up" BY <1>1 DEF Live, Recovering, Phase, InTransaction
<1>3. View' = View BY <1>0, <1>1 DEF PhaseFacts
<1>4. CASE BeginOp \/ EndOp
  <2>1. frame' = frame /\ (running' = running + 1 \/ (running > 0 /\ running' = running - 1))
    BY <1>4 DEF BeginOp, EndOp, cache
  <2>2. Memory' = Memory BY <1>1, <1>2, <2>1, SameMemory DEF Current
  <2> QED BY <1>2, <1>3, <2>1, <2>2, AbstractCount
<1>5. ASSUME NEW b \in Blocks, NEW v \in Values, Write(b, v) PROVE Simulated
  <2>1. running > 0 /\ running' = running BY <1>5 DEF Write
  <2>2. /\ frame'[b].mapped /\ frame'[b].data = v
        /\ \A c \in Blocks : c # b => frame'[c] = frame[c]
    BY <1>0, <1>5 DEF Write, TypeOK, Frames
  <2>3. \A c \in Blocks : Current(c)' = IF c = b THEN v ELSE Current(c) BY <1>1, <2>2 DEF Current
  <2>4. Memory' = [Memory EXCEPT ![b] = v] BY <1>2, <2>3 DEF Memory
  <2> QED BY <1>2, <1>3, <2>1, <2>4, AbstractWrite
<1> QED BY <1>4, <1>5 DEF Operation

\* While the transaction is written, at most one step is seen: the one that makes
\* it durable.
LEMMA TransactionStep ==
  ASSUME Core, Core', AgreeInv, AgreeInv', pc \in InTransaction \cup {"failed_txn"},
         pc' \in InTransaction \cup {"failed_txn"}, prep' = prep, running' = running, View' = View \/ View' = prep
  PROVE  Simulated
<1>1. Memory = prep /\ Memory' = prep BY PhaseHas, PhaseHasNext DEF PhaseFacts
<1>2. Live /\ Live' BY DEF Live, Recovering, InTransaction
<1>3. CASE View' = View
  <2>1. Phase' = Phase BY <1>2, <1>3 DEF Phase
  <2> QED BY <1>1, <1>3, <2>1, AbstractStutter
<1>4. CASE View' # View
  <2>1. View # prep /\ View' = prep BY <1>4
  <2>2. Phase = "committing" /\ Phase' = "up" BY <1>2, <2>1 DEF Phase
  <2> QED BY <1>1, <2>1, <2>2, AbstractEndCommit
<1> QED BY <1>3, <1>4

\* After it, nothing is seen until the unmount.
LEMMA DurableStep ==
  ASSUME Live, Live', View' = View, running' = running, \A b \in Blocks : Current(b)' = Current(b),
         pc \in InTransaction \cup {"failed_txn"} => View = prep,
         pc' \in InTransaction \cup {"failed_txn"} => View' = prep'
  PROVE  Simulated
<1>1. Memory' = Memory BY SameMemory
<1>2. Phase = "up" /\ Phase' = "up" BY DEF Phase
<1> QED BY <1>1, <1>2, AbstractStutter

\* A commit, a checkpoint, an unmount.
LEMMA CommitSimulated ==
  ASSUME Core, Core', AgreeInv, AgreeInv', Commit, UNCHANGED failures
  PROVE  Simulated
<1>0. TypeOK /\ PhaseFacts /\ PhaseFacts' BY PhaseHas, PhaseHasNext DEF Core
<1>1. ASSUME NEW x \in BOOLEAN, NEW y \in BOOLEAN, StartCommit(x, y) PROVE Simulated
  <2>1. /\ pc = "up" /\ pc' \in {"stage", "decide"} /\ running = 0 /\ running' = running
        /\ UNCHANGED <<image, super, wal, frame>>
    BY <1>1 DEF StartCommit
  <2>2. Live /\ Live' /\ Phase = "up" BY <2>1 DEF Live, Recovering, Phase, InTransaction
  <2>3. View' = View BY <2>1, SameWal, ViewStays DEF image, super, wal, SafeCut
  <2>4. Memory' = Memory BY <2>1, <2>2, SameMemory DEF Current, image
  <2>5. Phase' \in {"up", "committing"} BY <2>2 DEF Phase
  <2> QED BY <2>1, <2>2, <2>3, <2>4, <2>5, AbstractStutter, AbstractBeginCommit
<1>2. CASE Stage \/ StageSync \/ AppendCommit \/ CommitSync
  <2>1. /\ pc \in {"stage", "append", "commit_sync"} /\ pc' \in {"stage", "append", "commit_sync", "frames"}
        /\ stable' = stable /\ prep' = prep /\ running' = running
    BY <1>2 DEF Stage, StageSync, AppendCommit, CommitSync, LogSync, Step, history
  <2>2. pc = "commit_sync" => pc' = "frames" BY <1>2 DEF Stage, StageSync, AppendCommit, CommitSync, LogSync, Step
  <2>3. View' = View \/ View' = prep BY <1>0, <2>1, <2>2 DEF PhaseFacts, After
  <2> QED BY <2>1, <2>3, TransactionStep DEF InTransaction
<1>3. CASE \/ CommitFrames \/ Decide \/ CheckpointSync \/ CheckpointSuperblock \/ CheckpointSuperblockSync
           \/ Truncate("ckpt_reset", "ckpt_resetsync") \/ TruncateSync("ckpt_resetsync", "publish")
  <2>1. /\ pc \in After /\ pc' \in After /\ pc' \notin InTransaction \cup {"failed_txn"}
        /\ disk' = disk /\ prep' = prep /\ running' = running
    BY <1>3 DEF CommitFrames, Decide, CheckpointSync, CheckpointSuperblock, CheckpointSuperblockSync, Truncate,
       TruncateSync, Step, After, InCheckpoint, InTransaction, DeviceSync, WriteSuperblock, image, history
  <2>2. \A b \in Blocks : frame'[b].mapped = frame[b].mapped /\ frame'[b].data = frame[b].data
    <3>1. CASE CommitFrames BY <1>0, <3>1 DEF CommitFrames, TypeOK, Frames
    <3>2. CASE ~CommitFrames
      BY <1>3, <3>2 DEF Decide, CheckpointSync, CheckpointSuperblock, CheckpointSuperblockSync, Truncate,
         TruncateSync, cache
    <3> QED BY <3>1, <3>2
  <2>3. Live /\ Live' BY <2>1 DEF Live, Recovering, After, InCheckpoint
  <2>4. View = prep /\ View' = prep BY <1>0, <2>1 DEF PhaseFacts
  <2> QED BY <2>1, <2>2, <2>3, <2>4, DurableStep DEF Current
<1>4. CASE Publish \/ CloseSuperblock
  <2>1. /\ disk' = disk /\ frame' = frame /\ running' = running
        /\ \/ pc = "publish" /\ pc' \in {"up", "close_sb"} /\ stable' = prep
           \/ pc = "close_sb" /\ pc' = "close_sync" /\ stable' = stable
    BY <1>4 DEF Publish, CloseSuperblock, Step, WriteSuperblock, image, cache, history
  <2>2. Live /\ Live' BY <2>1 DEF Live, Recovering
  <2>3. View' = View BY <1>0, <2>1 DEF PhaseFacts, After
  <2> QED BY <2>1, <2>2, <2>3, DurableStep DEF Current, InTransaction
<1>5. CASE Closed
  <2>1. DeviceSync /\ Forget /\ UNCHANGED wal BY <1>5 DEF Closed
  <2>2. disk' = disk /\ sb' = sb /\ \A b \in Blocks : past'[b] = {} BY <1>0, <2>1, DeviceSyncType
  <2>3. View' = View BY <2>1, <2>2, SameWal, ViewStays DEF wal, SafeCut
  <2>4. ~Live' /\ running' = 0 BY <2>1, ForgetQuiet, ForgetType
  <2>5. Memory' = View' /\ Phase' = "down" BY <2>4 DEF Memory, Phase
  <2> QED BY <2>3, <2>4, <2>5, AbstractCrash
<1> QED BY <1>1, <1>2, <1>3, <1>4, <1>5 DEF Commit

\* A process that ends leaves the durable image.
LEMMA KillSimulated ==
  ASSUME Separate, Core, Core', Kill \/ CloseFailed \/ MountFailed, UNCHANGED failures
  PROVE  Simulated
<1>0. TypeOK /\ LogInv /\ ViewFacts BY ViewHas DEF Core
<1>1. Ends BY <1>0, EarlyEnds
<1>2. SafeCut \in Cuts /\ sb \in Found /\ SafeCut' = SafeCut BY <1>0, <1>1 DEF ViewFacts, Found, SafeCut, Ends, wal
<1>3. /\ OldLog' = OldLog /\ sb' = sb
      /\ \A b \in Blocks : \/ disk'[b] = disk[b] /\ past'[b] = past[b]
                           \/ ~sb.clean /\ Redone(SafeCut, sb.ckpt, b) # {}
  BY <1>1, <1>2, EndsWrites
<1>4. View' = View BY <1>2, <1>3, ViewStays
<1>5. ~Live' /\ running' = 0 BY <1>1, ForgetQuiet, ForgetType DEF Ends
<1>6. Memory' = View' /\ Phase' = "down" BY <1>5 DEF Memory, Phase
<1> QED BY <1>4, <1>5, <1>6, AbstractCrash

\* A power failure leaves the durable image, or that of the commit under way.
LEMMA PowerFailSimulated ==
  ASSUME Core, Core', AgreeInv, AgreeInv', PowerFail, UNCHANGED failures
  PROVE  Simulated
<1>0. /\ TypeOK /\ LogInv /\ CrashInv /\ CleanInv /\ CleanOwesNothing /\ TypeOK'
      /\ PhaseFacts /\ ViewFacts /\ ViewFacts'
  BY PhaseHas, ViewHas, ViewHasNext DEF Core
<1>1. /\ "power" \in failures /\ Forget /\ stable' = stable /\ prep' = prep
      /\ \A b \in Blocks : disk'[b] \in {disk[b]} \cup past[b] /\ past'[b] = {}
      /\ sb' \in Found
  BY PowerFailEffect
<1>2. PICK n \in Cuts : /\ n \in Nat /\ synced' = n /\ \A i \in 1..n : OldLog'[i] = OldLog[i]
                        /\ \A c, b : Redone(n, c, b)' = Redone(n, c, b)
  BY PowerFailEffect
<1>3. SafeCut' = n BY <1>1, <1>2 DEF SafeCut
<1>4. PICK s : s = sb' OBVIOUS
<1>5. s \in Found BY <1>1, <1>4
<1>6. ~Live' /\ running' = 0 BY <1>1, ForgetQuiet, ForgetType
<1>7. Memory' = View' /\ Phase' = "down" BY <1>6 DEF Memory, Phase
<1>8. ASSUME ~s.clean, NEW T \in [Blocks -> Contents], Recovers(n, s.ckpt, T) PROVE View' = T
  <2>1. Recovers(n, s.ckpt, T)' BY <1>2, <1>8, PowerFailRecovers
  <2>2. Recovers(SafeCut, sb.ckpt, T)' BY <1>3, <1>4, <2>1
  <2> QED BY <1>0, <1>4, <1>8, <2>2 DEF ViewFacts
<1>9. pc \in {"down", "replay"} => n = SafeCut
  BY <1>0, <1>2, ReplayCuts DEF ViewFacts
<1>10. View' = View \/ (Phase = "committing" /\ View' = Memory)
  <2>1. CASE s.clean
    <3>1. View' = stable BY <1>0, <1>1, <1>4, <2>1 DEF ViewFacts
    <3>2. disk \in [Blocks -> Contents] /\ stable \in [Blocks -> Contents] BY <1>0 DEF TypeOK
    <3>3. \A b \in Blocks : disk[b] = stable[b] BY <1>0, <1>5, <2>1 DEF CleanOwesNothing, Found
    <3>4. disk = stable BY <3>2, <3>3, SameImage
    <3>5. pc \in Recovering \cup {"close_sync"} BY <1>0, <1>5, <2>1 DEF CleanInv
    <3>6. CASE pc \in {"down", "replay"}
      <4>1. CASE sb.clean BY <1>0, <3>1, <4>1 DEF ViewFacts
      <4>2. CASE ~sb.clean
        <5>1. log = <<>> /\ truncated = <<>> BY <1>0, <1>1, <1>5, <2>1, <4>2 DEF CleanInv, Found
        <5>2. \A b \in Blocks : Redone(SafeCut, sb.ckpt, b) = {} BY <1>0, <5>1, EmptyCuts DEF ViewFacts
        <5>3. \A b \in Blocks : View[b] = disk[b] BY <1>0, <4>2, <5>2 DEF ViewFacts, Recovers
        <5> QED BY <1>0, <3>1, <3>2, <3>4, <5>3, SameImage DEF ViewFacts
      <4> QED BY <4>1, <4>2
    <3>7. CASE pc \in Recovering \ {"down", "replay"} BY <1>0, <3>1, <3>4, <3>7 DEF PhaseFacts
    <3>8. CASE pc = "close_sync" BY <1>0, <3>1, <3>8 DEF PhaseFacts
    <3> QED BY <3>5, <3>6, <3>7, <3>8
  <2>2. CASE ~s.clean /\ pc \in {"down", "replay"}
    <3>1. CASE sb.clean
      <4>1. log = <<>> /\ truncated = <<>> BY <1>0, <1>1, <1>5, <2>2, <3>1 DEF CleanInv, Found
      <4>2. \A b \in Blocks : Redone(n, s.ckpt, b) = {} BY <1>0, <1>2, <4>1, EmptyCuts
      <4>3. \A b \in Blocks : past[b] = {} BY <1>0, <3>1 DEF CleanOwesNothing
      <4>4. Recovers(n, s.ckpt, disk) /\ disk \in [Blocks -> Contents] BY <1>0, <4>2, <4>3 DEF Recovers, TypeOK
      <4> QED BY <1>0, <1>8, <2>2, <3>1, <4>4 DEF ViewFacts
    <3>2. CASE ~sb.clean
      <4>1. PICK T \in {stable, prep} : \A m \in Cuts : \A r \in Found : ~r.clean => Recovers(m, r.ckpt, T)
        BY <1>1, <2>2 DEF AgreeInv
      <4>2. T \in [Blocks -> Contents] BY <1>0, <4>1 DEF TypeOK
      <4>3. View = T BY <1>0, <3>2, <4>1, <4>2 DEF ViewFacts, Found
      <4>4. View' = T BY <1>2, <1>5, <1>8, <2>2, <4>1, <4>2
      <4> QED BY <4>3, <4>4
    <3> QED BY <3>1, <3>2
  <2>3. CASE ~s.clean /\ pc \in Recovering \ {"down", "replay"}
    <3>1. Recovers(n, s.ckpt, disk) BY <1>2, <1>5, <2>3 DEF AgreeInv
    <3>2. disk \in [Blocks -> Contents] BY <1>0 DEF TypeOK
    <3> QED BY <1>0, <1>8, <2>3, <3>1, <3>2 DEF PhaseFacts
  <2>4. CASE ~s.clean /\ Live
    <3>1. PICK T \in Targets(n) : Recovers(n, s.ckpt, T) BY <1>0, <1>2, <1>5, <2>4 DEF CrashInv
    <3>2. T \in [Blocks -> Contents]
      <4>1. T \in {stable, prep} BY <3>1, EitherImage
      <4> QED BY <1>0, <4>1 DEF TypeOK
    <3>3. View' = T BY <1>8, <2>4, <3>1, <3>2
    <3>4. CASE pc \in After
      BY <1>0, <2>4, <3>1, <3>3, <3>4 DEF PhaseFacts, Targets, Live, After, InCheckpoint, Recovering
    <3>5. CASE pc \in {"up", "stage", "append", "close_sb", "close_sync"}
      BY <1>0, <3>1, <3>3, <3>5 DEF PhaseFacts, Targets, After, InCheckpoint, Recovering
    <3>6. CASE pc = "commit_sync"
      <4>1. View = stable /\ Memory = prep BY <1>0, <1>1, <3>6 DEF PhaseFacts, InTransaction
      <4>2. T \in {stable, prep} BY <3>1, EitherImage
      <4>3. View # prep => Phase = "committing" BY <2>4, <3>6 DEF Phase, InTransaction
      <4> QED BY <3>3, <4>1, <4>2, <4>3
    <3>7. pc # "failed_txn" BY <1>0, <1>1 DEF LogInv
    <3> QED BY <1>0, <2>4, <3>4, <3>5, <3>6, <3>7 DEF TypeOK, Labels, Live, After, InTransaction
  <2> QED BY <2>1, <2>2, <2>3, <2>4 DEF Live
<1> QED BY <1>6, <1>7, <1>10, AbstractCrash

\* Errors are not seen.
LEMMA ErrorSimulated ==
  ASSUME Core, Core', AgreeInv, AgreeInv', CommitError, UNCHANGED failures
  PROVE  Simulated
<1>0. PhaseFacts BY PhaseHas
<1>1. /\ \/ pc \in InTransaction /\ pc' = "failed_txn"
         \/ pc \in InCheckpoint /\ pc' = "failed_ckpt"
      /\ UNCHANGED <<image, super, wal, cache, running, history>>
  BY DEF CommitError
<1>2. View' = View BY <1>1, SameWal, ViewStays DEF image, super, wal, SafeCut
<1>3. CASE pc' = "failed_txn"
  <2>1. pc \in InTransaction BY <1>1, <1>3
  <2> QED BY <1>1, <1>2, <1>3, <2>1, TransactionStep DEF history
<1>4. CASE pc' = "failed_ckpt"
  <2>1. pc \in InCheckpoint BY <1>1, <1>4
  <2>2. Live /\ Live' BY <1>4, <2>1 DEF Live, Recovering, InCheckpoint
  <2> QED BY <1>1, <1>2, <1>4, <2>1, <2>2, DurableStep DEF Current, InCheckpoint, InTransaction, image, cache
<1> QED BY <1>1, <1>3, <1>4

\* Every step of Storage is one of AtomicStore, or is not seen.
LEMMA StepSimulation ==
  ASSUME Separate, Core, Core', AgreeInv, AgreeInv', [Next]_vars
  PROVE  Simulated
<1>1. CASE UNCHANGED vars
  <2>1. UNCHANGED <<disk, past, sb, wal, frame, running, pc, prep, failures>> BY <1>1 DEF vars, image, super, cache, control, history
  <2>2. View' = View BY <2>1, SameWal, ViewStays DEF wal, SafeCut
  <2>3. Memory' = Memory /\ Phase' = Phase BY <2>1, <2>2 DEF Memory, Phase, Current, Live
  <2> QED BY <2>1, <2>2, <2>3, AbstractStutter
<1> QED BY <1>1, MountingSimulated, CacheSimulated, OperationSimulated, CommitSimulated, ErrorSimulated,
           KillSimulated, PowerFailSimulated DEF Next, Failure, Rejected

\* The storage layer keeps the journal's promise: whatever the interleaving of writes,
\* syncs, errors and crashes (Separate), it behaves like an array of blocks whose
\* durable copy changes by whole transactions only.
THEOREM Refinement ==
  ASSUME Separate
  PROVE  Spec => ImplementsAtomicStore
<1>1. Init => Core /\ AgreeInv BY InitCore, InitAgrees
<1>2. Core /\ AgreeInv /\ [Next]_vars => Core' /\ AgreeInv' BY StepKeepsCore, StepAgrees
<1>3. Init => Store!Init
  <2> SUFFICES ASSUME Init PROVE Store!Init OBVIOUS
  <2>1. ~Live /\ running = 0 BY DEF Init, Live, Recovering
  <2>2. View = disk
    <3>1. sb.clean BY DEF Init
    <3> QED BY <1>1, <3>1, ViewHas DEF ViewFacts
  <2>3. disk \in [Blocks -> Values] BY ValuesAssumption DEF Init
  <2> QED BY <2>1, <2>2, <2>3 DEF Store!Init, Store!Images
<1>4. Core /\ AgreeInv /\ Core' /\ AgreeInv' /\ [Next]_vars => Simulated BY StepSimulation
<1>5. Simulated => [Store!Next]_(Store!vars) BY DEF Simulated
<1> QED BY <1>1, <1>2, <1>3, <1>4, <1>5, PTL DEF Spec, ImplementsAtomicStore, Store!Spec
=============================================================================
