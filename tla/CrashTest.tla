----------------------------- MODULE CrashTest -----------------------------
(***************************************************************************)
(* The crash test (tools/crashtest.cpp) run against the journal and the    *)
(* log in sectors. A child process makes the calls of a workload, reports  *)
(* each through a pipe and is killed in one of its writes, which is cut    *)
(* short (src/fault.cpp); a second kill may come in the recovery. The      *)
(* parent knows how many calls were completed and how many were synced;    *)
(* it mounts the image and compares the tree with its model.               *)
(*                                                                         *)
(* There is one thread, no flusher and no fsync, as in the test; a block   *)
(* holds the number of the call that last wrote it, as data_for() makes    *)
(* the contents of every call different.                                   *)
(***************************************************************************)
EXTENDS Wal, FiniteSetsExt, SequencesExt

CONSTANTS
    Length,             \* how many operations the workload has
    MaxOp, MaxTxn,      \* MAX_OP_BLOCKS, max_txn_blocks_
    CheckpointCells     \* checkpoint_bytes

\* An operation: a call that changes some blocks, or one that makes what was
\* changed durable.
Op == [kind : {"call"}, blocks : SUBSET Blocks \ {{}}]
      \cup [kind : {"fsync", "sync"}, blocks : {{}}]

\* Which calls come in which order is left to a seed: any that succeed.
make_workload == [1..Length -> Op]

VARIABLES
    ops, op,            \* the workload, and the child's place in it
    mem,                \* what the cache and the image say together
    txn, staged,        \* txn_blocks_, and how many of them are in the log
    dirty,              \* committed blocks that are not written back
    want,               \* checkpoint_requested_
    next,               \* where a commit goes on
    image, sb,          \* disk.img: the blocks; checkpoint lsn and clean flag
    redo,               \* recovery: the records to write
    completed, synced,  \* what the parent has read from the pipe
    kills,              \* kills still to come, at most
    pc

child == <<ops, op, mem, txn, staged, dirty, want, next>>
parent == <<completed, synced>>
vars == <<wal, child, image, sb, redo, parent, kills, pc>>

\* What a half written block holds: nothing any call has written.
Half == Len(ops) + 1

Zero == [b \in Blocks |-> 0]

\* The calls that change something, and the tree after the first k of them.
mutates(o) == o.kind = "call"
Calls == SelectSeq(ops, mutates)
apply(k) == [b \in Blocks |-> Max({0} \cup {j \in 1..k : b \in Calls[j].blocks})]

\* How many calls the first i operations hold.
CallsIn(i) == Len(SelectSeq(SubSeq(ops, 1, i), mutates))

\* The child has mounted a fresh image, and arms the crash.
Init ==
    /\ ops \in make_workload /\ op = 1
    /\ mem = Zero /\ image = Zero
    /\ sb = [lsn |-> 0, clean |-> FALSE]
    /\ file = <<>> /\ batch = <<>> /\ next_lsn = 1
    /\ txn = <<>> /\ staged = 0 /\ dirty = {} /\ want = FALSE /\ next = "op"
    /\ redo = <<>> /\ completed = 0 /\ synced = 0 /\ kills \in {1, 2}
    /\ pc = "op"

-----------------------------------------------------------------------------
(* The three kinds of write, any of which may be the last one (before_write). *)

Die == kills > 0 /\ kills' = kills - 1 /\ pc' = "dead"
Goto(label) == pc' = label /\ UNCHANGED kills

LogWrite(cells, label) ==
    \/ file' = file \o cells /\ Goto(label)
    \/ \E part \in Cut(cells) : file' = file \o part /\ Die

ImageWrite(b, data, label) ==
    \/ image' = [image EXCEPT ![b] = data] /\ Goto(label)
    \/ \E left \in {image[b], Half} : image' = [image EXCEPT ![b] = left] /\ Die

\* The superblock is within the first sector.
SbWrite(new, label) ==
    \/ sb' = new /\ Goto(label)
    \/ sb' \in {sb, new} /\ Die

-----------------------------------------------------------------------------
(* The child: one call after another *)

More == pc = "op" /\ op <= Len(ops)

StartCommit(after, checkpoint) ==
    /\ want' = checkpoint /\ next' = after
    /\ Goto(IF txn # <<>> THEN "begin" ELSE IF checkpoint THEN "checkpoint" ELSE after)

Fits == txn = <<>> \/ Len(txn) + MaxOp <= MaxTxn

\* begin_op: the transaction is full and commits first.
BeginOp ==
    /\ More /\ ops[op].kind = "call" /\ ~Fits
    /\ StartCommit("op", FALSE)
    /\ UNCHANGED <<wal, ops, op, mem, txn, staged, dirty, image, sb, redo, parent>>

\* A call, and end_op: a transaction past its limit commits.
Call ==
    /\ More /\ ops[op].kind = "call" /\ Fits
    /\ mem' = [b \in Blocks |-> IF b \in ops[op].blocks THEN CallsIn(op) ELSE mem[b]]
    /\ txn' = txn \o SetToSeq(ops[op].blocks \ ToSet(txn))
    /\ next' = "report"
    /\ Goto(IF Len(txn') > MaxTxn THEN "begin" ELSE "report")
    /\ UNCHANGED <<wal, ops, op, staged, dirty, want, image, sb, redo, parent>>

\* vfs_fsync and vfs_sync, and the child's vfs_unmount.
Fsync ==
    /\ More /\ ops[op].kind = "fsync"
    /\ StartCommit("report", FALSE)
    /\ UNCHANGED <<wal, ops, op, mem, txn, staged, dirty, image, sb, redo, parent>>
Sync ==
    /\ More /\ ops[op].kind = "sync"
    /\ StartCommit("report", TRUE)
    /\ UNCHANGED <<wal, ops, op, mem, txn, staged, dirty, image, sb, redo, parent>>
Unmount ==
    /\ pc = "op" /\ op > Len(ops)
    /\ StartCommit("unmount", TRUE)
    /\ UNCHANGED <<wal, ops, op, mem, txn, staged, dirty, image, sb, redo, parent>>

\* write_txn: BEGIN ...
StageBegin ==
    /\ pc = "begin"
    /\ Stage("BEGIN", next_lsn, 0, 0)
    /\ staged' = 0
    /\ Goto("stage")
    /\ UNCHANGED <<ops, op, mem, txn, dirty, want, next, image, sb, redo, parent>>

\* ... the blocks, through the batch ...
StageBlock ==
    /\ pc = "stage" /\ staged < Len(txn)
    /\ LET b == txn[staged + 1] IN
        \/ Stage("BLOCK", next_lsn - staged - 1, b, mem[b]) /\ staged' = staged + 1 /\ Goto("stage")
        \/ /\ Full("BLOCK")
           /\ LogWrite(batch, "stage") /\ batch' = <<>> /\ UNCHANGED <<next_lsn, staged>>
    /\ UNCHANGED <<ops, op, mem, txn, dirty, want, next, image, sb, redo, parent>>

\* Mutant: the batch is not emptied once it is written.
SyncStagedKept ==
    /\ pc = "stage" /\ staged = Len(txn)
    /\ LogWrite(batch, "commit") /\ UNCHANGED batch
    /\ UNCHANGED <<next_lsn, child, image, sb, redo, parent>>

\* ... and the sync that makes them safe, ...
SyncStaged ==
    /\ pc = "stage" /\ staged = Len(txn)
    /\ LogWrite(batch, "commit") /\ batch' = <<>>
    /\ UNCHANGED <<next_lsn, child, image, sb, redo, parent>>

\* ... COMMIT; the frames may be written back, and the log may be long enough for a
\* checkpoint.
AppendCommit ==
    /\ pc = "commit"
    /\ LogWrite(encode("COMMIT", next_lsn - staged - 1, 0, 0),
                IF want \/ Len(file) + 1 > CheckpointCells THEN "checkpoint" ELSE next)
    /\ next_lsn' = next_lsn + 1
    /\ dirty' = dirty \cup ToSet(txn) /\ txn' = <<>>
    /\ UNCHANGED <<batch, ops, op, mem, staged, want, next, image, sb, redo, parent>>

\* Mutant: a block of the running transaction is evicted.
EvictAny(b) ==
    /\ pc \in {"op", "checkpoint"} /\ mem[b] # image[b]
    /\ ImageWrite(b, mem[b], pc)
    /\ dirty' = dirty \ {b}
    /\ UNCHANGED <<wal, ops, op, mem, txn, staged, want, next, sb, redo, parent>>

\* A committed frame that is not in the next transaction: evicted, or at a checkpoint.
WriteBack(b) ==
    /\ pc \in {"op", "checkpoint"} /\ b \in dirty /\ b \notin ToSet(txn)
    /\ ImageWrite(b, mem[b], pc)
    /\ dirty' = dirty \ {b}
    /\ UNCHANGED <<wal, ops, op, mem, txn, staged, want, next, sb, redo, parent>>

Checkpoint ==
    /\ pc = "checkpoint" /\ dirty = {}
    /\ SbWrite([sb EXCEPT !.lsn = next_lsn - 1], "reset")
    /\ UNCHANGED <<wal, child, image, redo, parent>>

EmptyLog ==
    /\ pc = "reset"
    /\ Reset(next_lsn)
    /\ want' = FALSE
    /\ Goto(next)
    /\ UNCHANGED <<ops, op, mem, txn, staged, dirty, next, image, sb, redo, parent>>

\* An event on the pipe. No kill falls within it, so it is read whole.
Receive(kind, calls) ==
    /\ completed' = calls
    /\ synced' = IF kind = "EV_SYNCED" THEN calls ELSE synced

EventOf(o) == IF mutates(o) THEN "EV_CALL" ELSE "EV_SYNCED"

\* Mutant: the event counts every operation, not only the calls.
ReportOps ==
    /\ pc = "report"
    /\ Receive(EventOf(ops[op]), op)
    /\ op' = op + 1
    /\ Goto("op")
    /\ UNCHANGED <<wal, ops, mem, txn, staged, dirty, want, next, image, sb, redo>>

\* The call has returned; the child says so.
Report ==
    /\ pc = "report"
    /\ Receive(EventOf(ops[op]), CallsIn(op))
    /\ op' = op + 1
    /\ Goto("op")
    /\ UNCHANGED <<wal, ops, mem, txn, staged, dirty, want, next, image, sb, redo>>

\* The image is marked clean; the child reports and exits.
MarkClean ==
    /\ pc = "unmount"
    /\ SbWrite([sb EXCEPT !.clean = TRUE], "exit")
    /\ UNCHANGED <<wal, child, image, redo, parent>>
Exit ==
    /\ pc = "exit"
    /\ Receive("EV_SYNCED", Len(Calls))
    /\ Goto("dead")
    /\ UNCHANGED <<wal, child, image, sb, redo>>

-----------------------------------------------------------------------------
(* A mount after the child is gone: recover() *)

\* The BLOCK records past the checkpoint whose transaction has a COMMIT.
Redo(records) ==
    LET committed == {h.txn : h \in {r \in ToSet(records) : r.type = "COMMIT"}}
    IN  SelectSeq(records, LAMBDA h : h.type = "BLOCK" /\ h.lsn > sb.lsn /\ h.txn \in committed)

Mount ==
    /\ pc = "dead"
    /\ IF sb.clean
       THEN Reset(sb.lsn + 1) /\ redo' = <<>> /\ Goto("in use")
       ELSE /\ redo' = Redo(scan(file)) /\ Goto("replay")
            /\ UNCHANGED wal
    /\ UNCHANGED <<child, image, sb, parent>>

Replay ==
    /\ pc = "replay" /\ redo # <<>>
    /\ ImageWrite(Head(redo).block, Head(redo).checksum[5], "replay")
    /\ redo' = Tail(redo)
    /\ UNCHANGED <<wal, child, sb, parent>>

LastLsn == Max({sb.lsn} \cup {h.lsn : h \in ToSet(scan(file))})

ReplayDone ==
    /\ pc = "replay" /\ redo = <<>>
    /\ SbWrite([sb EXCEPT !.lsn = LastLsn], "wipe")
    /\ UNCHANGED <<wal, child, image, redo, parent>>

Wipe ==
    /\ pc = "wipe"
    /\ Reset(sb.lsn + 1)
    /\ Goto("in use")
    /\ UNCHANGED <<child, image, sb, redo, parent>>

InUse ==
    /\ pc = "in use"
    /\ SbWrite([sb EXCEPT !.clean = FALSE], "verify")
    /\ UNCHANGED <<wal, child, image, redo, parent>>

\* Every file and directory, read through a mount that has nothing in memory.
snapshot == image

\* verify(): the tree that is read back is the model after k calls, for one k.
verify(lo, hi) == \E k \in lo..hi : snapshot = apply(k)

\* The tree has been compared, or it is the recovery that was meant to die: the
\* unmount has nothing to commit or to log, and marks the image clean. The next
\* mount is that of verify().
UnmountAgain ==
    /\ pc = "verify"
    /\ SbWrite([sb EXCEPT !.clean = TRUE], "dead")
    /\ UNCHANGED <<wal, child, image, redo, parent>>

-----------------------------------------------------------------------------
Next ==
    \/ BeginOp \/ Call \/ Fsync \/ Sync \/ Unmount
    \/ StageBegin \/ StageBlock \/ SyncStaged \/ AppendCommit
    \/ (\E b \in Blocks : WriteBack(b)) \/ Checkpoint \/ EmptyLog
    \/ Report \/ MarkClean \/ Exit
    \/ Mount \/ Replay \/ ReplayDone \/ Wipe \/ InUse \/ UnmountAgain

Spec == Init /\ [][Next]_vars

-----------------------------------------------------------------------------
(* Properties *)

\* The type of every variable.
TypeOK ==
    /\ mem \in [Blocks -> Nat] /\ image \in [Blocks -> 0..Half]
    /\ sb \in [lsn : Nat, clean : BOOLEAN]
    /\ txn \in Seq(Blocks) /\ staged \in 0..Cardinality(Blocks) /\ dirty \subseteq Blocks
    /\ synced <= completed /\ completed <= Len(Calls)
    /\ \A i \in DOMAIN file : file[i].kind \in {"header", "payload", "torn"}

\* crash_once(): the tree is what some prefix of the calls left, one that holds every
\* call a completed fsync or sync had promised and at most the call under way.
Verified == pc = "verify" => verify(synced, Min({completed + 1, Len(Calls)}))

\* "Records always reach the file in lsn order", and "the bytes in the file are
\* exactly the ones append() would have written": while the child lives, scan()
\* would read back every record that was written or waits, to the last cell.
EverythingReadable ==
    pc \notin {"dead", "replay", "wipe"} =>
        LET records == scan(file \o batch)
        IN  /\ MapThenSumSet(LAMBDA i : SizeOf(records[i].type), DOMAIN records) = Len(file \o batch)
            /\ records # <<>> => Last(records).lsn = next_lsn - 1
=============================================================================
