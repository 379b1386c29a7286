----------------------------- MODULE GroupCommit -----------------------------
(***************************************************************************)
(* The journal's gate: how the threads of the file system and the flusher  *)
(* group operations into transactions and agree on who commits them        *)
(* (class JournalImpl of src/storage.cpp).                                 *)
(*                                                                         *)
(* One action per access to shared state that another thread can observe   *)
(* between two others: the loads, the compare-and-swap and the fetch_add   *)
(* or fetch_sub on the atomic gate_, and the sections under the mutex m_.  *)
(* What happens inside one commit (log, cache, disk) is module Storage's;  *)
(* here a commit is one step that succeeds or fails.                       *)
(***************************************************************************)
EXTENDS Integers, FiniteSets

CONSTANTS
    Clients,        \* threads that run file system operations
    Flusher,        \* the flusher's thread (src/flusher.cpp)
    NoThread,       \* "the mutex is free"
    MaxOp,          \* MAX_OP_BLOCKS: the blocks one operation may write
    MaxTxn,         \* max_txn_blocks_: capacity / 2 - MAX_OP_BLOCKS
    MaxCalls,       \* bound: calls one thread makes
    IoErrors        \* whether a commit may fail

Threads == Clients \cup {Flusher}

ASSUME ClientsFinite == IsFiniteSet(Clients)
ASSUME FlusherIsNoClient == Flusher \notin Clients
ASSUME NoThreadIsNone == NoThread \notin Threads
\* The cache has at least 256 frames, so MaxTxn = capacity / 2 - 64 >= 64.
ASSUME Limits == MaxOp \in Nat \ {0} /\ MaxTxn \in Nat /\ MaxTxn >= MaxOp
ASSUME Bounds == MaxCalls \in Nat /\ IoErrors \in BOOLEAN

VARIABLES
    closed,             \* gate_, the CLOSED bit
    running,            \* gate_, the count of running operations
    txn_count,          \* txn_set_.size(): distinct blocks of the transaction
    ended,              \* operations ended, ever
    m,                  \* the owner of m_, or NoThread
    committing, commit_requested, checkpoint_requested, failed,
    committed_through,  \* the first this many operations are durable
    checkpoints_done,
    aborted,            \* an error left end_op: std::terminate
    \* the threads' locals
    pc, g, wrote, target, job, calls,
    \* history: operations are named by their place in the order of ending
    pending,            \* the operations whose blocks the transaction holds
    taken,              \* those of the transaction being committed
    logged, imaged,     \* those durable in the log, and in disk.img
    called              \* what had ended when the thread called commit()

gate == <<closed, running>>
journal == <<committing, commit_requested, checkpoint_requested, failed,
             committed_through, checkpoints_done>>
locals == <<g, wrote, target, job>>
history == <<pending, taken, logged, imaged, called>>
vars == <<gate, txn_count, ended, m, journal, aborted, pc, locals, calls, history>>

Gates == [closed : BOOLEAN, running : Nat]
Calls == {"begin", "end", "commit", "checkpoint", "tick"}
Results == {"ok", "checkpointed", "error"}
\* The locals of run_commit: who called it, covered, checkpoint_wanted, and how
\* it went.
Jobs == [call : Calls, covered : Nat, ckpt : BOOLEAN, result : Results]
Job(call, covered, wanted, result) ==
    [call |-> call, covered |-> covered, ckpt |-> wanted, result |-> result]

\* The value of a thread's locals while they are out of scope.
OpenGate == [closed |-> FALSE, running |-> 0]
NoJob == Job("begin", 0, FALSE, "ok")

InOperation == {"op", "e_sub"}
Runner == {"r_io", "r_lock"}
Holder == {"b_top", "b_add", "b_close", "c_top", "k_top", "run"}
Labels == {"idle", "b_fits", "b_cas", "b_slow", "b_wait", "e_load", "e_slow",
           "c_slow", "c_wait", "c_again", "c_ok", "k_slow", "k_wait", "k_again", "k_ok"}
          \cup InOperation \cup Runner \cup Holder

\* The type of every variable.
TypeOK ==
    /\ closed \in BOOLEAN /\ running \in Nat
    /\ txn_count \in Nat /\ ended \in Nat
    /\ m \in Threads \cup {NoThread}
    /\ committing \in BOOLEAN /\ commit_requested \in BOOLEAN
    /\ checkpoint_requested \in BOOLEAN /\ failed \in BOOLEAN
    /\ committed_through \in Nat /\ checkpoints_done \in Nat
    /\ aborted \in BOOLEAN
    /\ pc \in [Threads -> Labels]
    /\ g \in [Threads -> Gates]
    /\ wrote \in [Threads -> 0..MaxOp]
    /\ target \in [Threads -> Nat] /\ job \in [Threads -> Jobs]
    /\ calls \in [Threads -> 0..MaxCalls]
    /\ pending \subseteq Nat /\ taken \subseteq Nat
    /\ logged \subseteq Nat /\ imaged \subseteq Nat
    /\ called \in [Threads -> Nat]

Init ==
    /\ closed = FALSE /\ running = 0 /\ txn_count = 0 /\ ended = 0
    /\ m = NoThread
    /\ committing = FALSE /\ commit_requested = FALSE
    /\ checkpoint_requested = FALSE /\ failed = FALSE
    /\ committed_through = 0 /\ checkpoints_done = 0 /\ aborted = FALSE
    /\ pc = [t \in Threads |-> "idle"]
    /\ g = [t \in Threads |-> OpenGate]
    /\ wrote = [t \in Threads |-> 0]
    /\ target = [t \in Threads |-> 0] /\ job = [t \in Threads |-> NoJob]
    /\ calls = [t \in Threads |-> 0]
    /\ pending = {} /\ taken = {} /\ logged = {} /\ imaged = {}
    /\ called = [t \in Threads |-> 0]

-----------------------------------------------------------------------------
Goto(t, label) == pc' = [pc EXCEPT ![t] = label]
From(t, label) == ~aborted /\ pc[t] = label
Lock(t) == m = NoThread /\ m' = t
Unlock == m' = NoThread

\* Mutant: a woken thread goes on without having m_ back.
UnderUnlocked(t, labels, top) == \/ \E l \in labels : From(t, l)
                                 \/ From(t, top) /\ m = t

\* Takes m_ at label, or is at top already holding it: the head of a loop.
Under(t, labels, top) == \/ \E l \in labels : From(t, l) /\ m = NoThread
                         \/ From(t, top) /\ m = t

\* Calls run_commit, holding m_.
Enter(t, call) == /\ m' = t
                  /\ job' = [job EXCEPT ![t] = Job(call, 0, FALSE, "ok")]
                  /\ Goto(t, "run")

\* Lets m_ go and continues at label.
Leave(t, label) == Unlock /\ Goto(t, label) /\ UNCHANGED job

\* A new call by t.
Call(t) == /\ ~aborted /\ pc[t] = "idle" /\ calls[t] < MaxCalls
           /\ calls' = [calls EXCEPT ![t] = @ + 1]

\* Mutant: what running operations may still write is not counted.
fitsNow(n) == txn_count <= MaxTxn

\* Whether one more operation may join the transaction, n running already.
fits(n) == \/ n = 0 /\ txn_count = 0
           \/ txn_count + (n + 1) * MaxOp <= MaxTxn

-----------------------------------------------------------------------------
(* begin_op: the fast path. *)

BeginLoad(t) ==
    /\ Call(t)
    /\ g' = [g EXCEPT ![t] = [closed |-> closed, running |-> running]]
    /\ Goto(t, "b_fits")
    /\ UNCHANGED <<gate, txn_count, ended, m, journal, aborted, wrote, target, job, history>>

\* Mutant: the CLOSED bit is not looked at.
BeginFitsClosed(t) ==
    /\ From(t, "b_fits")
    /\ \/ fits(g[t].running) /\ Goto(t, "b_cas") /\ UNCHANGED g
       \/ ~fits(g[t].running) /\ g' = [g EXCEPT ![t] = OpenGate] /\ Goto(t, "b_slow")
    /\ UNCHANGED <<gate, txn_count, ended, m, journal, aborted, wrote, target, job,
                   calls, history>>

\* `while (!(g & CLOSED) && fits(g))`: txn_count is read after the gate was.
BeginFits(t) ==
    /\ From(t, "b_fits")
    /\ \/ ~g[t].closed /\ fits(g[t].running) /\ Goto(t, "b_cas") /\ UNCHANGED g
       \/ /\ g[t].closed \/ ~fits(g[t].running)
          /\ g' = [g EXCEPT ![t] = OpenGate]
          /\ Goto(t, "b_slow")
    /\ UNCHANGED <<gate, txn_count, ended, m, journal, aborted, wrote, target, job,
                   calls, history>>

\* compare_exchange_weak; a failure reloads g. (A spurious failure, which only
\* tries again, is left out.)
BeginCas(t) ==
    /\ From(t, "b_cas")
    /\ \/ /\ g[t] = [closed |-> closed, running |-> running]
          /\ running' = running + 1
          /\ g' = [g EXCEPT ![t] = OpenGate]
          /\ Goto(t, "op")
       \/ /\ g[t] # [closed |-> closed, running |-> running]
          /\ g' = [g EXCEPT ![t] = [closed |-> closed, running |-> running]]
          /\ Goto(t, "b_fits")
          /\ UNCHANGED running
    /\ UNCHANGED <<closed, txn_count, ended, m, journal, aborted, wrote, target, job, calls, history>>

(* begin_op_slow: every step below but the first holds m_. *)

BeginTop(t) ==
    /\ Under(t, {"b_slow"}, "b_top")
    /\ \/ failed /\ Leave(t, "idle")             \* the call throws
       \/ ~failed /\ committing /\ Leave(t, "b_wait")
       \/ ~failed /\ ~committing /\ closed /\ Enter(t, "begin")
       \/ /\ ~failed /\ ~committing /\ ~closed
          /\ m' = t
          /\ Goto(t, IF fits(running) THEN "b_add" ELSE "b_close")
          /\ UNCHANGED job
    /\ UNCHANGED <<gate, txn_count, ended, journal, aborted, g, wrote, target, calls, history>>

\* Full: the transaction closes, and no operation starts until it has committed.
BeginClose(t) ==
    /\ From(t, "b_close") /\ m = t
    /\ commit_requested' = TRUE
    /\ closed' = TRUE
    /\ Enter(t, "begin")
    /\ UNCHANGED <<running, txn_count, ended, committing, checkpoint_requested, failed,
                   committed_through, checkpoints_done, aborted, g, wrote, target, calls,
                   history>>

\* gate_.fetch_add(1), on the strength of the load in BeginTop.
BeginAdd(t) ==
    /\ From(t, "b_add") /\ m = t
    /\ running' = running + 1
    /\ Unlock
    /\ Goto(t, "op")
    /\ UNCHANGED <<closed, txn_count, ended, journal, aborted, locals, calls, history>>

-----------------------------------------------------------------------------
(* Inside an operation. *)

\* write() of a block the transaction does not hold yet: add_to_txn.
OpWrite(t) ==
    /\ From(t, "op") /\ m = NoThread
    /\ wrote[t] < MaxOp
    /\ wrote' = [wrote EXCEPT ![t] = @ + 1]
    /\ txn_count' = txn_count + 1
    /\ UNCHANGED <<gate, ended, m, journal, aborted, pc, g, target, job, calls, history>>

(* end_op. *)

\* ended_.fetch_add(1): from here on commit() waits for this operation.
EndCount(t) ==
    /\ From(t, "op")
    /\ ended' = ended + 1
    /\ pending' = pending \cup {ended + 1}
    /\ wrote' = [wrote EXCEPT ![t] = 0]
    /\ Goto(t, "e_sub")
    /\ UNCHANGED <<gate, txn_count, m, journal, aborted, g, target, job, calls, taken, logged,
                   imaged, called>>

EndSub(t) ==
    /\ From(t, "e_sub")
    /\ running' = running - 1
    /\ Goto(t, IF running # 1 THEN "idle" ELSE IF closed THEN "e_slow" ELSE "e_load")
    /\ UNCHANGED <<closed, txn_count, ended, m, journal, aborted, locals, calls, history>>

EndLoad(t) ==
    /\ From(t, "e_load")
    /\ Goto(t, IF txn_count <= MaxTxn THEN "idle" ELSE "e_slow")
    /\ UNCHANGED <<gate, txn_count, ended, m, journal, aborted, locals, calls, history>>

EndSlow(t) ==
    /\ From(t, "e_slow") /\ m = NoThread
    /\ IF /\ ~failed /\ ~committing /\ running = 0
          /\ commit_requested \/ checkpoint_requested \/ txn_count > MaxTxn
       THEN Enter(t, "end")
       ELSE Leave(t, "idle")
    /\ UNCHANGED <<gate, txn_count, ended, journal, aborted, g, wrote, target, calls, history>>

-----------------------------------------------------------------------------
(* commit(), checkpoint() and the flusher's commit_if_older(). *)

CommitCall(t) ==
    /\ Call(t)
    /\ called' = [called EXCEPT ![t] = ended]
    /\ \E l \in {"c_slow", "k_slow"} : Goto(t, l)
    /\ UNCHANGED <<gate, txn_count, ended, m, journal, aborted, locals, pending, taken,
                   logged, imaged>>

\* commit(): takes m_ and loads its target.
CommitLock(t) ==
    /\ From(t, "c_slow") /\ Lock(t)
    /\ target' = [target EXCEPT ![t] = ended]
    /\ Goto(t, "c_top")
    /\ UNCHANGED <<gate, txn_count, ended, journal, aborted, g, wrote, job, calls, history>>

\* Mutant: a commit that is running is not waited for.
CommitTopEager(t) ==
    /\ Under(t, {"c_again"}, "c_top")
    /\ \/ committed_through >= target[t] /\ Leave(t, "c_ok")
       \/ committed_through < target[t] /\ failed /\ Leave(t, "idle")
       \/ committed_through < target[t] /\ ~failed /\ Enter(t, "commit")
    /\ UNCHANGED <<gate, txn_count, ended, journal, aborted, g, wrote, target, calls, history>>

CommitTop(t) ==
    /\ Under(t, {"c_again"}, "c_top")
    /\ \/ committed_through >= target[t] /\ Leave(t, "c_ok")
       \/ committed_through < target[t] /\ failed /\ Leave(t, "idle")
       \/ committed_through < target[t] /\ ~failed /\ committing /\ Leave(t, "c_wait")
       \/ committed_through < target[t] /\ ~failed /\ ~committing /\ Enter(t, "commit")
    /\ UNCHANGED <<gate, txn_count, ended, journal, aborted, g, wrote, target, calls, history>>

\* Mutant: one checkpoint too few.
CheckpointLockDone(t) ==
    /\ From(t, "k_slow") /\ Lock(t)
    /\ target' = [target EXCEPT ![t] = checkpoints_done]
    /\ Goto(t, "k_top")
    /\ UNCHANGED <<gate, txn_count, ended, journal, aborted, g, wrote, job, calls, history>>

\* checkpoint(): one that is running now counts.
CheckpointLock(t) ==
    /\ From(t, "k_slow") /\ Lock(t)
    /\ target' = [target EXCEPT ![t] = checkpoints_done + 1]
    /\ Goto(t, "k_top")
    /\ UNCHANGED <<gate, txn_count, ended, journal, aborted, g, wrote, job, calls, history>>

CheckpointTop(t) ==
    /\ Under(t, {"k_again"}, "k_top")
    /\ \/ /\ \/ checkpoints_done >= target[t] /\ Leave(t, "k_ok")
             \/ checkpoints_done < target[t] /\ failed /\ Leave(t, "idle")
             \/ checkpoints_done < target[t] /\ ~failed /\ committing /\ Leave(t, "k_wait")
          /\ UNCHANGED checkpoint_requested
       \/ /\ checkpoints_done < target[t] /\ ~failed /\ ~committing
          /\ checkpoint_requested' = TRUE
          /\ Enter(t, "checkpoint")
    /\ UNCHANGED <<gate, txn_count, ended, committing, commit_requested, failed,
                   committed_through, checkpoints_done, aborted, g, wrote, target,
                   calls, history>>

\* The call has returned without an error.
Return(t) ==
    /\ From(t, "c_ok") \/ From(t, "k_ok")
    /\ Goto(t, "idle")
    /\ target' = [target EXCEPT ![t] = 0]
    /\ called' = [called EXCEPT ![t] = 0]
    /\ UNCHANGED <<gate, txn_count, ended, m, journal, aborted, g, wrote, job, calls,
                   pending, taken, logged, imaged>>

\* A tick that finds the transaction old enough; other ticks change nothing.
CommitIfOlder(t) ==
    /\ Call(t) /\ m = NoThread
    /\ ~failed /\ ~committing /\ txn_count # 0
    /\ Enter(t, "tick")
    /\ UNCHANGED <<gate, txn_count, ended, journal, aborted, g, wrote, target, history>>

-----------------------------------------------------------------------------
(* run_commit, called holding m_ with no commit running. *)

WaitLabel == [c \in Calls |-> CASE c = "begin" -> "b_wait" [] c = "commit" -> "c_wait"
                                [] c = "checkpoint" -> "k_wait" [] OTHER -> "idle"]

\* Operations are running: the last of them to end will commit.
RunLater(t) ==
    /\ From(t, "run") /\ m = t
    /\ running # 0
    /\ closed' = TRUE /\ commit_requested' = TRUE
    /\ Unlock
    /\ Goto(t, WaitLabel[job[t].call])
    /\ job' = [job EXCEPT ![t] = NoJob]
    /\ UNCHANGED <<running, txn_count, ended, committing, checkpoint_requested, failed,
                   committed_through, checkpoints_done, aborted, g, wrote, target, calls,
                   history>>

\* None is: the transaction is taken, and m_ let go while it is written.
RunStart(t) ==
    /\ From(t, "run") /\ m = t
    /\ running = 0
    /\ closed' = TRUE /\ committing' = TRUE
    /\ commit_requested' = FALSE /\ checkpoint_requested' = FALSE
    /\ txn_count' = 0
    /\ job' = [job EXCEPT ![t] = Job(@.call, ended, checkpoint_requested, "ok")]
    /\ taken' = pending /\ pending' = {}
    /\ Unlock
    /\ Goto(t, "r_io")
    /\ UNCHANGED <<running, ended, failed, committed_through, checkpoints_done, aborted,
                   g, wrote, target, calls, logged, imaged, called>>

\* write_txn and do_checkpoint, without m_. A checkpoint happens when one is
\* wanted, or on its own when the log has grown past checkpoint_bytes_.
RunIo(t) ==
    /\ From(t, "r_io")
    /\ \E wrote_log \in BOOLEAN, r \in Results :
          /\ wrote_log \/ r = "error"
          /\ r = "error" => IoErrors
          /\ r = "ok" => ~job[t].ckpt
          /\ job' = [job EXCEPT ![t] = Job(@.call, @.covered, @.ckpt, r)]
          /\ logged' = IF wrote_log THEN logged \cup taken ELSE logged
          /\ imaged' = IF r = "checkpointed" THEN imaged \cup logged' ELSE imaged
    /\ Goto(t, "r_lock")
    /\ UNCHANGED <<gate, txn_count, ended, m, journal, aborted, g, wrote, target,
                   calls, pending, taken, called>>

\* Where run_commit returns to: a loop that still holds m_, or out of the call.
TopLabel == [c \in Calls |-> CASE c = "begin" -> "b_top" [] c = "commit" -> "c_top"
                               [] c = "checkpoint" -> "k_top" [] OTHER -> "idle"]

\* Mutant: notify_one.
WakeOne(t, label) ==
    LET Woken(u) == CASE pc[u] = "b_wait" -> "b_slow"
                      [] pc[u] = "c_wait" -> "c_again"
                      [] pc[u] = "k_wait" -> "k_again"
        Waiting == {u \in Threads : pc[u] \in {"b_wait", "c_wait", "k_wait"}}
    IN  IF Waiting = {} THEN Goto(t, label)
        ELSE \E u \in Waiting : pc' = [pc EXCEPT ![t] = label, ![u] = Woken(u)]

\* notify_all, and the step of the thread that called it.
WakeAll(t, label) ==
    pc' = [u \in Threads |-> CASE u = t -> label
                               [] u # t /\ pc[u] = "b_wait" -> "b_slow"
                               [] u # t /\ pc[u] = "c_wait" -> "c_again"
                               [] u # t /\ pc[u] = "k_wait" -> "k_again"
                               [] OTHER -> pc[u]]

\* Mutant: publishes without asking whether the commit failed.
RunPublishAnyway(t) ==
    /\ From(t, "r_lock") /\ m = NoThread
    /\ committing' = FALSE /\ closed' = FALSE
    /\ committed_through' = job[t].covered
    /\ checkpoints_done' = checkpoints_done + (IF job[t].result = "checkpointed" THEN 1 ELSE 0)
    /\ taken' = {}
    /\ job' = [job EXCEPT ![t] = NoJob]
    /\ m' = IF job[t].call \in {"end", "tick"} THEN NoThread ELSE t
    /\ WakeAll(t, TopLabel[job[t].call])
    /\ UNCHANGED <<running, txn_count, ended, commit_requested, checkpoint_requested,
                   failed, aborted, g, wrote, target, calls, pending, logged, imaged, called>>

\* Relocks m_, publishes what was committed, opens the gate.
RunPublish(t) ==
    /\ From(t, "r_lock") /\ m = NoThread
    /\ job[t].result # "error"
    /\ committing' = FALSE
    /\ committed_through' = job[t].covered
    /\ checkpoints_done' = checkpoints_done + (IF job[t].result = "checkpointed" THEN 1 ELSE 0)
    /\ closed' = FALSE
    /\ taken' = {}
    /\ job' = [job EXCEPT ![t] = NoJob]
    /\ m' = IF job[t].call \in {"end", "tick"} THEN NoThread ELSE t
    /\ WakeAll(t, TopLabel[job[t].call])
    /\ UNCHANGED <<running, txn_count, ended, commit_requested, checkpoint_requested,
                   failed, aborted, g, wrote, target, calls, pending, logged, imaged, called>>

\* The commit failed: the gate stays closed and the error is thrown. Out of
\* end_op, which a destructor calls, that ends the process.
RunFail(t) ==
    /\ From(t, "r_lock") /\ m = NoThread
    /\ job[t].result = "error"
    /\ committing' = FALSE /\ failed' = TRUE
    /\ aborted' = (job[t].call = "end")
    /\ job' = [job EXCEPT ![t] = NoJob]
    /\ WakeAll(t, "idle")
    /\ UNCHANGED <<gate, txn_count, ended, m, commit_requested, checkpoint_requested,
                   committed_through, checkpoints_done, g, wrote, target, calls, history>>

\* A condition variable may wake a thread for no reason.
SpuriousWake(t) ==
    /\ \/ From(t, "b_wait") /\ Goto(t, "b_slow")
       \/ From(t, "c_wait") /\ Goto(t, "c_again")
       \/ From(t, "k_wait") /\ Goto(t, "k_again")
    /\ UNCHANGED <<gate, txn_count, ended, m, journal, aborted, locals, calls, history>>

-----------------------------------------------------------------------------
Operation(t) == \/ BeginLoad(t) \/ BeginFits(t) \/ BeginCas(t)
                \/ BeginTop(t) \/ BeginClose(t) \/ BeginAdd(t)
                \/ OpWrite(t) \/ EndCount(t) \/ EndSub(t) \/ EndLoad(t) \/ EndSlow(t)
Durability(t) == \/ CommitCall(t) \/ CommitLock(t) \/ CommitTop(t)
                 \/ CheckpointLock(t) \/ CheckpointTop(t) \/ Return(t)
Run(t) == RunLater(t) \/ RunStart(t) \/ RunIo(t) \/ RunPublish(t) \/ RunFail(t)

\* Every thread has made its calls and they have returned, or the process ended.
Done == /\ aborted \/ \A t \in Threads : pc[t] = "idle" /\ (t # Flusher => calls[t] = MaxCalls)
        /\ UNCHANGED vars

Next == \/ \E t \in Clients : Operation(t) \/ Durability(t)
        \/ CommitIfOlder(Flusher)
        \/ \E t \in Threads : Run(t) \/ SpuriousWake(t)
        \/ Done

Spec == Init /\ [][Next]_vars

\* A thread that can take a step of its own takes one; operations end. The
\* flusher's ticks are only fair once it is committing, and nothing relies on
\* a mutex being handed over fairly.
Fairness == /\ \A t \in Clients : WF_vars(Operation(t) \/ Durability(t))
            /\ \A t \in Threads : WF_vars(Run(t))
FairSpec == Spec /\ Fairness

-----------------------------------------------------------------------------
(* Properties *)

\* While run_commit writes a transaction (src/storage.cpp, run_commit) no
\* operation is between begin_op and the fetch_sub of end_op, so that none is
\* logged half done.
NoHalfOperation == committing => \A t \in Threads : pc[t] \notin InOperation

\* Only one thread is in run_commit's unlocked part, and only while
\* committing_ says so.
OneCommitter == \A t, u \in Threads :
    pc[t] \in Runner => committing /\ (pc[u] \in Runner => t = u)

\* commit() that returned without an error made durable, in the log, every
\* operation that had ended when it was called - whoever ran the commit.
CommitDurable == \A t \in Threads : pc[t] = "c_ok" => 1..called[t] \subseteq logged

\* checkpoint() that returned without an error has them in disk.img, also when
\* the checkpoint it relied on was already running when it was called.
CheckpointDurable == \A t \in Threads : pc[t] = "k_ok" => 1..called[t] \subseteq imaged

(* The inductive invariant that module GroupCommitProofs proves; the first four
   properties above are what it is for. *)

Ops == {t \in Threads : pc[t] \in InOperation}

\* The gate's count is the number of operations, and a commit, which only
\* starts when it is zero, keeps it there by keeping the gate closed.
GateInv == /\ running = Cardinality(Ops)
           /\ committing => closed /\ Ops = {}
           /\ \A t \in Threads : /\ pc[t] = "b_add" => ~closed
                                 /\ pc[t] = "b_cas" => ~g[t].closed

\* m_ is held exactly at the labels that assume it. Nobody who holds it can
\* meet a commit or a failure after having checked that there is none.
MutexInv == \A t \in Threads :
    /\ (m = t) <=> (pc[t] \in Holder)
    /\ pc[t] \in {"b_add", "b_close", "run"} => ~committing /\ ~failed

CommitterInv == /\ OneCommitter
                /\ failed => ~committing

\* Every operation that ended is in the log or in one of the two transactions.
HistoryInv ==
    /\ 1..ended \subseteq logged \cup taken \cup pending
    /\ ~committing /\ ~failed => taken = {}
    /\ 1..committed_through \subseteq logged
    /\ \A t \in Threads :
          /\ called[t] <= ended
          /\ pc[t] \in Runner => job[t].covered = ended /\ pending = {}
          /\ pc[t] = "r_lock" /\ job[t].result # "error" =>
                 taken \subseteq logged /\ 1..ended \subseteq logged
          /\ pc[t] = "r_lock" /\ job[t].result = "checkpointed" => 1..ended \subseteq imaged

\* t is inside commit(), or inside checkpoint(), past the load of its target.
InCall(t, call, labels) ==
    pc[t] \in labels \/ (pc[t] \in {"run"} \cup Runner /\ job[t].call = call)

CallInv == \A t \in Threads :
    /\ InCall(t, "commit", {"c_top", "c_wait", "c_again"}) => called[t] <= target[t]
    /\ InCall(t, "checkpoint", {"k_top", "k_wait", "k_again"}) =>
          (checkpoints_done >= target[t] => 1..called[t] \subseteq imaged)
    /\ pc[t] = "c_ok" => 1..called[t] \subseteq logged
    /\ pc[t] = "k_ok" => 1..called[t] \subseteq imaged

\* A thread that has passed fits() and not yet counted itself into the gate.
Admitted == {"b_cas", "b_add"}

\* The blocks that may still come: those of the operations, and of the admitted.
Promised == {w \in Threads \X (1..MaxOp) :
                pc[w[1]] \in Admitted \/ (pc[w[1]] = "op" /\ wrote[w[1]] < w[2])}

\* Whoever passes fits() finds room for one operation, and there are no more than
\* |Clients| of them; from then on what is promised is only used up. The flusher
\* runs no operations.
RoomInv ==
    /\ txn_count + Cardinality(Promised) <= MaxTxn + MaxOp * (Cardinality(Clients) - 1)
    /\ pc[Flusher] \in {"idle", "run"} \cup Runner
    /\ pc[Flusher] # "idle" => job[Flusher].call = "tick"

\* The invariant of run_commit, begin_op, end_op, commit and checkpoint.
Inv == TypeOK /\ GateInv /\ MutexInv /\ CommitterInv /\ HistoryInv /\ CallInv /\ RoomInv

\* The blocks the running operations may still write, one by one.
Owed == Cardinality({w \in Threads \X (1..MaxOp) : pc[w[1]] = "op" /\ wrote[w[1]] < w[2]})

\* What fits() and begin_op's comment promise: a transaction that operations
\* run in has room for all they may still write. The load of the gate, the
\* check and the compare-and-swap are three steps, so it is not kept.
PromiseKept == running > 0 => txn_count + Owed <= MaxTxn

\* What is kept: the transaction overshoots by at most one operation for every
\* other client. (The cache has MaxTxn + 2 * MaxOp further frames.)
OvershootBounded ==
    txn_count + Owed <= MaxTxn + MaxOp * (Cardinality(Clients) - 1)

\* Every call returns: no wake-up is lost and the gate never stays closed with
\* nobody left to open it, unless the process was ended.
CallsReturn == \A t \in Threads : pc[t] # "idle" ~> (pc[t] = "idle" \/ aborted)
=============================================================================
