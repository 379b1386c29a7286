----------------------------- MODULE BufferCache -----------------------------
(***************************************************************************)
(* The buffer cache under concurrency (src/buffer_cache.cpp): threads that *)
(* read and modify blocks, evictions, the flusher's write-back and the     *)
(* commit's frames. The blocks are those of one shard, except that         *)
(* write_back picks frame by frame, as it does across shards, and a run    *)
(* may join any of its picks, not only neighbours.                         *)
(*                                                                         *)
(* A section under the shard's mutex is one step, and so is the use of a   *)
(* frame's bytes under its lock; everything in between may interleave. A   *)
(* content is the number of changes the block has seen, so that order      *)
(* between contents can be stated. Changes are made in transactions (the   *)
(* journal is enabled); the lsn that keeps a frame from being written      *)
(* before its commit is in the log is module Storage's.                    *)
(***************************************************************************)
EXTENDS Integers, FiniteSets, FiniteSetsExt

CONSTANTS
    Blocks,         \* the blocks of one shard
    FrameIds,       \* frames it may come to have
    Share,          \* frames it should have: the shard's share
    Clients,        \* threads calling read and modify
    NoThread,       \* a frame lock nobody holds exclusively
    NoBlock,        \* what a frame that was never mapped holds
    NoFrame,        \* the frame of a thread that is not in the cache
    IoErrors,       \* whether the device may fail
    MaxChanges      \* bound: changes ever made

ASSUME ShareAssumption == Share \in Nat \ {0}
ASSUME NothingAssumption == NoThread \notin Clients /\ NoBlock \notin Blocks /\ NoFrame \notin FrameIds
ASSUME BoundAssumption == MaxChanges \in Nat /\ IoErrors \in BOOLEAN
\* Enough frames that none is ever wanting: a frame is mapped, or pinned by a
\* thread that waited for a failed load while another asks for a new one.
ASSUME FramesAssumption == /\ IsFiniteSet(FrameIds) /\ IsFiniteSet(Blocks) /\ IsFiniteSet(Clients)
                           /\ Cardinality(FrameIds) >= Cardinality(Blocks) + Cardinality(Clients) - 1
                           /\ Cardinality(FrameIds) >= Share

VARIABLES
    frame, allocated,       \* the frames, and which of them exist
    dirty_count, disk,
    pc, use,                \* a client's place in read or modify, and its locals
    txn_blocks, committing, \* the journal's transaction
    picks, run,             \* write_back: the frames it pinned, the copies to write
    written,                \* and those of its run that are on disk
    mem, committed          \* history: the last change made, and committed

shard == <<frame, allocated, dirty_count>>
clients == <<pc, use>>
journal == <<txn_blocks, committing>>
flusher == <<picks, run, written>>
history == <<mem, committed>>
vars == <<shard, disk, clients, journal, flusher, history>>

\* owner: who holds the frame's lock exclusively - only ever its loader, for
\* other uses of the bytes are one step.
Unused(b) == [block |-> b, mapped |-> FALSE, dirty |-> FALSE, in_txn |-> FALSE, version |-> 0,
              pins |-> 0, owner |-> NoThread, load_failed |-> FALSE, data |-> 0]
Idle == [frame |-> NoFrame, kind |-> "read", joined |-> FALSE]
Kinds == {"read", "modify", "fresh"}    \* a fresh modify zeroes the block first

Init ==
    /\ frame = [f \in FrameIds |-> Unused(NoBlock)]
    /\ allocated = {} /\ dirty_count = 0
    /\ disk = [b \in Blocks |-> 0]
    /\ pc = [t \in Clients |-> "idle"] /\ use = [t \in Clients |-> Idle]
    /\ txn_blocks = {} /\ committing = FALSE
    /\ picks = [f \in {} |-> 0] /\ run = [f \in {} |-> 0] /\ written = {}
    /\ mem = disk /\ committed = disk

-----------------------------------------------------------------------------
(* acquire *)

MappedTo(b) == {f \in allocated : frame[f].mapped /\ frame[f].block = b}

\* The changes made and those under way, for the bound.
Changes == MapThenSumSet(LAMBDA b : mem[b], Blocks)
           + Cardinality({t \in Clients : pc[t] \in {"load", "bytes"} /\ use[t].kind # "read"})

\* begin_op lets no operation in while a commit runs, and only operations modify.
MayCall(kind) == kind # "read" => ~committing /\ Changes < MaxChanges

\* The map has b: pin its frame and, for a modify, join the transaction.
Hit(t, b, kind) ==
    /\ pc[t] = "idle" /\ MayCall(kind)
    /\ \E f \in MappedTo(b) :
          /\ frame' = [frame EXCEPT ![f].pins = @ + 1, ![f].in_txn = @ \/ kind # "read"]
          /\ use' = [use EXCEPT ![t] = [frame |-> f, kind |-> kind,
                                        joined |-> kind # "read" /\ ~frame[f].in_txn]]
    /\ pc' = [pc EXCEPT ![t] = "bytes"]
    /\ UNCHANGED <<allocated, dirty_count, disk, journal, flusher, history>>

Free(f) == frame[f].pins = 0 /\ ~frame[f].in_txn

\* Mutant: a dirty frame is taken for clean.
CleanVictimsAny == {f \in allocated : Free(f)}

\* Frames to take at once; frames to write first.
CleanVictims == {f \in allocated : Free(f) /\ (~frame[f].mapped \/ ~frame[f].dirty)}
DirtyVictims == {f \in allocated : Free(f) /\ frame[f].mapped /\ frame[f].dirty}

\* take_frame: a new frame while there is room or nothing to evict; else a clean
\* frame; else a dirty one, written first.
TakeFrame(f) ==
    \/ /\ Cardinality(allocated) < Share \/ (CleanVictims = {} /\ DirtyVictims = {})
       /\ f \in FrameIds \ allocated
       /\ allocated' = allocated \cup {f}
       /\ UNCHANGED <<disk, dirty_count>>
    \/ /\ Cardinality(allocated) >= Share
       /\ f \in CleanVictims
       /\ UNCHANGED <<allocated, disk, dirty_count>>
    \/ /\ Cardinality(allocated) >= Share /\ CleanVictims = {}
       /\ f \in DirtyVictims
       /\ disk' = [disk EXCEPT ![frame[f].block] = frame[f].data]
       /\ dirty_count' = dirty_count - 1
       /\ UNCHANGED allocated

\* The map does not have b: take a frame, map it, and lock its bytes before
\* anyone who finds it can read them.
Miss(t, b, kind) ==
    /\ pc[t] = "idle" /\ MayCall(kind)
    /\ MappedTo(b) = {}
    /\ \E f \in FrameIds :
          /\ TakeFrame(f)
          /\ frame' = [frame EXCEPT ![f] = [Unused(b) EXCEPT !.mapped = TRUE, !.pins = 1,
                            !.in_txn = kind # "read", !.owner = t, !.data = frame[f].data]]
          /\ use' = [use EXCEPT ![t] = [frame |-> f, kind |-> kind, joined |-> kind # "read"]]
    /\ pc' = [pc EXCEPT ![t] = "load"]
    /\ UNCHANGED <<journal, flusher, history>>

\* The block arrives from the device; a fresh one is zeroes instead.
LoadOk(t) ==
    /\ pc[t] = "load"
    /\ LET f == use[t].frame IN
       frame' = [frame EXCEPT ![f].data = IF use[t].kind = "fresh" THEN 0 ELSE disk[frame[f].block]]
    /\ pc' = [pc EXCEPT ![t] = "bytes"]
    /\ UNCHANGED <<allocated, dirty_count, disk, use, journal, flusher, history>>

\* It does not: those already waiting for the bytes are told ...
LoadFail(t) ==
    /\ IoErrors /\ pc[t] = "load" /\ use[t].kind # "fresh"
    /\ frame' = [frame EXCEPT ![use[t].frame].load_failed = TRUE,
                              ![use[t].frame].owner = NoThread]
    /\ pc' = [pc EXCEPT ![t] = "unmap"]
    /\ UNCHANGED <<allocated, dirty_count, disk, use, journal, flusher, history>>

\* ... and the frame leaves the map.
Unmap(t) ==
    /\ pc[t] = "unmap"
    /\ frame' = [frame EXCEPT ![use[t].frame].mapped = FALSE, ![use[t].frame].in_txn = FALSE,
                              ![use[t].frame].pins = @ - 1]
    /\ pc' = [pc EXCEPT ![t] = "idle"] /\ use' = [use EXCEPT ![t] = Idle]
    /\ UNCHANGED <<allocated, dirty_count, disk, journal, flusher, history>>

-----------------------------------------------------------------------------
(* read and modify *)

\* The bytes, under the frame's lock: the loader has it, others wait for it.
Bytes(t) ==
    /\ pc[t] = "bytes"
    /\ LET f == use[t].frame  b == frame[f].block IN
       /\ frame[f].owner \in {t, NoThread}
       /\ \/ frame[f].load_failed /\ pc' = [pc EXCEPT ![t] = "unpin"]
             /\ UNCHANGED <<frame, mem>>
          \/ ~frame[f].load_failed /\ use[t].kind = "read" /\ pc' = [pc EXCEPT ![t] = "unpin"]
             /\ frame' = [frame EXCEPT ![f].owner = NoThread]
             /\ UNCHANGED mem
          \/ ~frame[f].load_failed /\ use[t].kind # "read" /\ pc' = [pc EXCEPT ![t] = "finish"]
             /\ mem' = [mem EXCEPT ![b] = @ + 1]
             /\ frame' = [frame EXCEPT ![f].owner = NoThread,
                            ![f].data = IF use[t].kind = "fresh" THEN mem[b] + 1 ELSE @ + 1]
    /\ UNCHANGED <<allocated, dirty_count, disk, use, journal, flusher, committed>>

\* unpin, after a read or a failure.
Unpin(t) ==
    /\ pc[t] = "unpin"
    /\ frame' = [frame EXCEPT ![use[t].frame].pins = @ - 1]
    /\ pc' = [pc EXCEPT ![t] = "idle"] /\ use' = [use EXCEPT ![t] = Idle]
    /\ UNCHANGED <<allocated, dirty_count, disk, journal, flusher, history>>

FinishModify(t) ==
    /\ pc[t] = "finish"
    /\ frame' = [frame EXCEPT ![use[t].frame].version = @ + 1, ![use[t].frame].pins = @ - 1]
    /\ pc' = [pc EXCEPT ![t] = "add"]
    /\ UNCHANGED <<allocated, dirty_count, disk, use, journal, flusher, history>>

\* Journal::write records the block in the transaction, then its operation ends.
\* in_txn keeps the frame in place although it is no longer pinned.
AddToTxn(t) ==
    /\ pc[t] = "add"
    /\ txn_blocks' = IF use[t].joined THEN txn_blocks \cup {frame[use[t].frame].block}
                     ELSE txn_blocks
    /\ pc' = [pc EXCEPT ![t] = "idle"] /\ use' = [use EXCEPT ![t] = Idle]
    /\ UNCHANGED <<shard, disk, committing, flusher, history>>

-----------------------------------------------------------------------------
(* The commit, which runs while no operation does. *)

StartCommit ==
    /\ ~committing /\ txn_blocks # {}
    /\ \A t \in Clients : use[t].kind = "read"
    /\ committing' = TRUE
    /\ UNCHANGED <<shard, disk, clients, txn_blocks, flusher, history>>

\* commit_frame
CommitFrame(b) ==
    /\ committing /\ b \in txn_blocks
    /\ \E f \in MappedTo(b) :
          /\ frame[f].in_txn
          /\ frame' = [frame EXCEPT ![f].in_txn = FALSE, ![f].dirty = TRUE,
                                    ![f].version = @ + 1]
          /\ dirty_count' = dirty_count + (IF frame[f].dirty THEN 0 ELSE 1)
          /\ committed' = [committed EXCEPT ![b] = frame[f].data]
    /\ txn_blocks' = txn_blocks \ {b}
    /\ committing' = (txn_blocks' # {})
    /\ UNCHANGED <<allocated, disk, clients, flusher, mem>>

-----------------------------------------------------------------------------
(* write_back, by the flusher or a checkpoint; one pass at a time. *)

NoRun == [f \in {} |-> 0]
Without(fn, S) == [f \in DOMAIN fn \ S |-> fn[f]]
Unpinned(S) == [f \in FrameIds |-> IF f \in S THEN [frame[f] EXCEPT !.pins = @ - 1] ELSE frame[f]]

\* Pins a frame that may go, noting its version. Picking ends when copying starts.
Pick(f) ==
    /\ run = NoRun /\ f \in allocated \ DOMAIN picks
    /\ frame[f].mapped /\ frame[f].dirty /\ ~frame[f].in_txn
    /\ picks' = [h \in DOMAIN picks \cup {f} |-> IF h = f THEN frame[f].version ELSE picks[h]]
    /\ frame' = [frame EXCEPT ![f].pins = @ + 1]
    /\ UNCHANGED <<allocated, dirty_count, disk, clients, journal, run, written, history>>

\* Copies a picked frame's bytes into the run; what they are is decided now.
Copy(f) ==
    /\ f \in DOMAIN picks \ DOMAIN run /\ written = {}
    /\ \A h \in DOMAIN run : run[h].checked
    /\ frame[f].owner = NoThread
    /\ run' = [h \in DOMAIN run \cup {f} |->
                  IF h = f THEN [data |-> frame[f].data, checked |-> FALSE] ELSE run[h]]
    /\ UNCHANGED <<shard, disk, clients, journal, picks, written, history>>

\* Mutant: not checked again.
RecheckNot(f) ==
    /\ f \in DOMAIN run /\ ~run[f].checked
    /\ run' = [run EXCEPT ![f].checked = TRUE]
    /\ UNCHANGED <<shard, disk, clients, journal, picks, written, history>>

\* Checked again: a transaction may have taken the frame before the copy.
Recheck(f) ==
    /\ f \in DOMAIN run /\ ~run[f].checked /\ ~frame[f].in_txn
    /\ run' = [run EXCEPT ![f].checked = TRUE]
    /\ UNCHANGED <<shard, disk, clients, journal, picks, written, history>>

\* It did: the copy is dropped, once the run before it has been written.
Leave(f) ==
    /\ DOMAIN run = {f} /\ ~run[f].checked /\ frame[f].in_txn
    /\ run' = NoRun /\ picks' = Without(picks, {f})
    /\ frame' = Unpinned({f})
    /\ UNCHANGED <<allocated, dirty_count, disk, clients, journal, written, history>>

Ready == {f \in DOMAIN run : run[f].checked}

\* write_run: the copies reach the disk, whatever became of the frames since.
WriteRun ==
    /\ Ready # {} /\ written = {}
    /\ \A f \in DOMAIN run \ Ready : frame[f].in_txn
    /\ disk' = [b \in Blocks |-> IF \E f \in Ready : frame[f].block = b
                                 THEN run[CHOOSE f \in Ready : frame[f].block = b].data
                                 ELSE disk[b]]
    /\ written' = Ready
    /\ UNCHANGED <<shard, clients, journal, picks, run, history>>

\* Mutant: marked clean although it changed.
MarkAnyVersion(f) ==
    /\ f \in written
    /\ frame' = [frame EXCEPT ![f].dirty = FALSE, ![f].pins = @ - 1]
    /\ dirty_count' = dirty_count - (IF frame[f].dirty THEN 1 ELSE 0)
    /\ written' = written \ {f}
    /\ picks' = Without(picks, {f}) /\ run' = Without(run, {f})
    /\ UNCHANGED <<allocated, disk, clients, journal, history>>

\* A frame that has not changed since it was picked is clean now.
Mark(f) ==
    /\ f \in written
    /\ LET clean == frame[f].version = picks[f] /\ frame[f].dirty IN
       /\ frame' = [frame EXCEPT ![f].dirty = @ /\ ~clean, ![f].pins = @ - 1]
       /\ dirty_count' = dirty_count - (IF clean THEN 1 ELSE 0)
    /\ written' = written \ {f}
    /\ picks' = Without(picks, {f}) /\ run' = Without(run, {f})
    /\ UNCHANGED <<allocated, disk, clients, journal, history>>

\* Mutant: only the run is let go.
WriteFailRun ==
    /\ IoErrors /\ Ready # {} /\ written = {}
    /\ frame' = Unpinned(DOMAIN run)
    /\ picks' = NoRun /\ run' = NoRun
    /\ UNCHANGED <<allocated, dirty_count, disk, clients, journal, written, history>>

\* write_run throws: every frame not yet marked is let go.
WriteFail ==
    /\ IoErrors /\ Ready # {} /\ written = {}
    /\ frame' = Unpinned(DOMAIN picks)
    /\ picks' = NoRun /\ run' = NoRun
    /\ UNCHANGED <<allocated, dirty_count, disk, clients, journal, written, history>>

-----------------------------------------------------------------------------
Client(t) == \/ \E b \in Blocks, kind \in Kinds : Hit(t, b, kind) \/ Miss(t, b, kind)
             \/ LoadOk(t) \/ LoadFail(t) \/ Unmap(t)
             \/ Bytes(t) \/ Unpin(t) \/ FinishModify(t) \/ AddToTxn(t)
Committer == StartCommit \/ \E b \in Blocks : CommitFrame(b)
WriteBack == \/ WriteRun \/ WriteFail
             \/ \E f \in FrameIds : Pick(f) \/ Copy(f) \/ Recheck(f) \/ Leave(f) \/ Mark(f)

Next == (\E t \in Clients : Client(t)) \/ Committer \/ WriteBack

Spec == Init /\ [][Next]_vars

-----------------------------------------------------------------------------
(* Properties *)

Frames == [block : Blocks \cup {NoBlock}, mapped : BOOLEAN, dirty : BOOLEAN, in_txn : BOOLEAN,
           version : Nat, pins : Nat, owner : Clients \cup {NoThread}, load_failed : BOOLEAN, data : Nat]

\* The type of every variable.
TypeOK ==
    /\ frame \in [FrameIds -> Frames]
    /\ allocated \subseteq FrameIds /\ dirty_count \in Nat
    /\ disk \in [Blocks -> Nat]
    /\ pc \in [Clients -> {"idle", "load", "unmap", "bytes", "unpin", "finish", "add"}]
    /\ use \in [Clients -> [frame : FrameIds \cup {NoFrame}, kind : Kinds, joined : BOOLEAN]]
    /\ txn_blocks \subseteq Blocks /\ committing \in BOOLEAN
    /\ DOMAIN picks \subseteq FrameIds /\ DOMAIN run \subseteq DOMAIN picks
    /\ written \subseteq DOMAIN run
    /\ mem \in [Blocks -> Nat] /\ committed \in [Blocks -> Nat]

\* disk.img never gets a change whose transaction has not committed, neither by
\* write_back, whose copies may be old by the time they are written, nor by
\* an eviction.
NothingUncommittedOnDisk == \A b \in Blocks : disk[b] <= committed[b]

Valid(f) == frame[f].mapped /\ frame[f].owner = NoThread /\ ~frame[f].load_failed

\* The block's last change is in its frame or, when it has none, on disk:
\* neither eviction nor a failed load loses one, and no read sees an old one.
NothingLost == \A b \in Blocks :
    IF MappedTo(b) = {} THEN disk[b] = mem[b]
    ELSE \A f \in MappedTo(b) : Valid(f) => frame[f].data = mem[b]

\* write_back marks a frame clean only if the disk has what the frame has.
CleanMeansWritten == \A f \in allocated :
    Valid(f) /\ ~frame[f].dirty /\ ~frame[f].in_txn => disk[frame[f].block] = frame[f].data

\* Pins are exactly the threads using a frame; one that is never dropped would
\* keep the frame for good, one too few would let it be reused under a thread.
UsersOf(f) == {t \in Clients : pc[t] \notin {"idle", "add"} /\ use[t].frame = f}
PinsAreUsers == \A f \in FrameIds :
    frame[f].pins = Cardinality(UsersOf(f)) + (IF f \in DOMAIN picks THEN 1 ELSE 0)

\* dirty_count_, which wakes the flusher, counts the dirty frames.
DirtyFrames == {f \in allocated : frame[f].mapped /\ frame[f].dirty}
DirtyCounted == dirty_count = Cardinality(DirtyFrames)

\* The comment in acquire: a frame taken for a new block has a lock that nobody
\* holds, so taking it under the shard's mutex never waits.
FreeIsUnlocked == \A f \in FrameIds : frame[f].pins = 0 => frame[f].owner = NoThread

\* A block has at most one frame in the map; only frames that could be read are
\* dirty or in the transaction.
MapInv == \A f \in FrameIds :
    /\ frame[f].mapped => f \in allocated /\ frame[f].block \in Blocks
    /\ frame[f].dirty => Valid(f)
    /\ frame[f].in_txn => frame[f].mapped
    /\ \A h \in FrameIds :
          frame[f].mapped /\ frame[h].mapped /\ frame[f].block = frame[h].block => f = h

\* A frame's lock is held by the thread that loads it, and one whose load failed
\* is in the map only until that thread has taken it out.
LockInv == \A f \in FrameIds :
    /\ frame[f].owner # NoThread =>
          /\ pc[frame[f].owner] \in {"load", "bytes"} /\ use[frame[f].owner].frame = f
          /\ frame[f].mapped /\ ~frame[f].load_failed
    /\ frame[f].load_failed /\ frame[f].mapped =>
          \E t \in Clients : pc[t] = "unmap" /\ use[t].frame = f

\* What a thread may rely on at its place in read or modify: unless the load
\* failed its frame still holds its block, in the transaction if it modifies.
Modifying == {"load", "bytes", "finish", "add"}
UseInv == \A t \in Clients : LET f == use[t].frame IN
    /\ pc[t] = "idle" => use[t] = Idle
    /\ pc[t] # "idle" => f \in allocated
    /\ pc[t] = "load" => frame[f].owner = t
    /\ pc[t] = "unmap" => /\ frame[f].load_failed /\ frame[f].mapped /\ frame[f].owner = NoThread
                          /\ \A u \in Clients : pc[u] = "unmap" /\ use[u].frame = f => u = t
    /\ pc[t] \in {"finish", "add"} => /\ ~frame[f].load_failed /\ frame[f].owner = NoThread
                                      /\ use[t].kind # "read"
    /\ pc[t] \in Modifying /\ ~frame[f].load_failed =>
          frame[f].mapped /\ (use[t].kind # "read" => frame[f].in_txn)
    /\ use[t].joined => use[t].kind # "read"

\* What the journal commits is there to be committed: commit_frame's logic_error
\* is never thrown, and no frame is left in a transaction nobody will commit: it
\* will be added, or taken out by the thread whose load failed.
TransactionHasFrames ==
    /\ committing => txn_blocks # {} /\ \A t \in Clients : use[t].kind = "read"
    /\ \A b \in txn_blocks : \E f \in MappedTo(b) : frame[f].in_txn /\ Valid(f)
    /\ \A f \in FrameIds : frame[f].in_txn =>
          \/ frame[f].block \in txn_blocks
          \/ \E t \in Clients : /\ use[t].frame = f
                                /\ pc[t] = "unmap" \/ (use[t].joined /\ pc[t] \in Modifying)

\* A frame that write_back has picked stays dirty and mapped. What it copied is
\* not newer than the frame; it is committed once the frame has been seen outside a
\* transaction, and still current if the version has not moved since.
PickInv ==
    /\ \A f \in DOMAIN picks : /\ frame[f].dirty
                               /\ picks[f] \in Nat /\ picks[f] <= frame[f].version
    /\ \A f \in DOMAIN run :
          /\ run[f] \in [data : Nat, checked : BOOLEAN]
          /\ run[f].data <= frame[f].data
          /\ run[f].checked \/ ~frame[f].in_txn => run[f].data <= committed[frame[f].block]
          /\ frame[f].version = picks[f] /\ ~frame[f].in_txn => run[f].data = frame[f].data
    /\ \A f \in written : run[f].checked /\ disk[frame[f].block] = run[f].data

\* Changes that are not committed are in a frame of the transaction; a frame
\* being loaded, or whose load failed, says nothing the disk does not say.
DataInv ==
    /\ \A b \in Blocks : /\ committed[b] <= mem[b]
                         /\ mem[b] # committed[b] => \E f \in MappedTo(b) : frame[f].in_txn /\ Valid(f)
    /\ \A f \in FrameIds : frame[f].mapped =>
          /\ ~Valid(f) => disk[frame[f].block] = mem[frame[f].block]
          /\ /\ frame[f].owner # NoThread
             /\ pc[frame[f].owner] = "bytes" /\ use[frame[f].owner].kind # "fresh"
             => frame[f].data = mem[frame[f].block]

\* The types, the books the cache keeps of its frames, and why they are kept.
Inv == /\ TypeOK /\ PinsAreUsers /\ DirtyCounted /\ FreeIsUnlocked /\ MapInv /\ LockInv /\ UseInv
       /\ TransactionHasFrames /\ PickInv /\ DataInv
       /\ NothingLost /\ CleanMeansWritten /\ NothingUncommittedOnDisk
=============================================================================
