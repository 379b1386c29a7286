-------------------------- MODULE GroupCommitProofs --------------------------
(***************************************************************************)
(* Proofs about module GroupCommit, for any number of threads and any      *)
(* limits.                                                                 *)
(***************************************************************************)
EXTENDS GroupCommit, FiniteSetTheorems, TLAPS

\* One step of one thread: the actions of Next, without their grouping.
Step(t) == \/ BeginLoad(t) \/ BeginFits(t) \/ BeginCas(t) \/ BeginTop(t)
           \/ BeginClose(t) \/ BeginAdd(t) \/ OpWrite(t)
           \/ EndCount(t) \/ EndSub(t) \/ EndLoad(t) \/ EndSlow(t)
           \/ CommitCall(t) \/ CommitLock(t) \/ CommitTop(t)
           \/ CheckpointLock(t) \/ CheckpointTop(t) \/ Return(t) \/ CommitIfOlder(t)
           \/ RunLater(t) \/ RunStart(t) \/ RunIo(t) \/ RunPublish(t) \/ RunFail(t)
           \/ SpuriousWake(t)

\* What the flusher does: it ticks, and commits.
Ticks(t) == CommitIfOlder(t) \/ Run(t) \/ SpuriousWake(t)

\* Every step of the journal is a step of one thread, or changes nothing.
LEMMA NextIsStep ==
  Next => (\E t \in Threads : Step(t) /\ (t = Flusher => Ticks(t))) \/ UNCHANGED vars
  BY FlusherIsNoClient DEF Next, Step, Ticks, Operation, Durability, Run, Done, Threads

\* A thread that moves to a label, lets the mutex go or calls run_commit.
LEMMA MoveType ==
  ASSUME TypeOK, NEW t \in Threads, NEW l \in Labels, NEW c \in Calls
  PROVE  /\ Goto(t, l) => pc' \in [Threads -> Labels]
         /\ Leave(t, l) => /\ pc' \in [Threads -> Labels] /\ job' \in [Threads -> Jobs]
                           /\ m' \in Threads \cup {NoThread}
         /\ Enter(t, c) => /\ pc' \in [Threads -> Labels] /\ job' \in [Threads -> Jobs]
                           /\ m' \in Threads \cup {NoThread}
<1>1. "run" \in Labels BY DEF Labels, Holder
<1>2. Job(c, 0, FALSE, "ok") \in Jobs BY DEF Jobs, Job, Results
<1> QED BY <1>1, <1>2 DEF TypeOK, Goto, Leave, Enter, Unlock

\* What a thread reads from the gate, and the jobs, are of their types.
LEMMA ValueType ==
  ASSUME TypeOK
  PROVE  /\ [closed |-> closed, running |-> running] \in Gates
         /\ OpenGate \in Gates /\ NoJob \in Jobs
  BY DEF TypeOK, Gates, OpenGate, Jobs, Job, NoJob, Calls, Results

\* Every step keeps the types, if end_op never takes the gate below zero.
LEMMA TypeStep ==
  ASSUME TypeOK, NEW t \in Threads, Step(t), EndSub(t) => running # 0
  PROVE  TypeOK'
<1> USE Bounds, Limits DEF TypeOK, From, Goto, Lock, Unlock, gate, journal, locals, history
<1> DEFINE L(l) == l \in Labels
<1>a. /\ L("idle") /\ L("b_fits") /\ L("b_cas") /\ L("b_slow") /\ L("b_wait")
      /\ L("b_add") /\ L("b_close") /\ L("op") /\ L("e_sub") /\ L("e_load") /\ L("e_slow")
      /\ L("c_slow") /\ L("k_slow") /\ L("c_top") /\ L("c_wait") /\ L("c_ok") /\ L("c_again")
      /\ L("k_top") /\ L("k_wait") /\ L("k_ok") /\ L("k_again")
      /\ L("b_top") /\ L("r_io") /\ L("r_lock") /\ L("run")
  BY DEF Labels, InOperation, Runner, Holder
<1>b. \A c \in {"begin", "end", "commit", "checkpoint", "tick"} : c \in Calls
  BY DEF Calls
<1> HIDE DEF L
<1>1. CASE BeginLoad(t) BY <1>1, <1>a, ValueType DEF BeginLoad, Call, L
<1>2. CASE BeginFits(t)
  <2>1. g' \in [Threads -> Gates] BY <1>2, ValueType DEF BeginFits
  <2>2. pc' \in [Threads -> Labels] BY <1>2, <1>a, MoveType DEF BeginFits, L
  <2> QED BY <1>2, <2>1, <2>2 DEF BeginFits
<1>3. CASE BeginCas(t)
  <2>1. g' \in [Threads -> Gates] BY <1>3, ValueType DEF BeginCas
  <2>2. pc' \in [Threads -> Labels] BY <1>3, <1>a, MoveType DEF BeginCas, L
  <2> QED BY <1>3, <2>1, <2>2 DEF BeginCas
<1>4. CASE BeginTop(t)
  <2>1. /\ pc' \in [Threads -> Labels] /\ job' \in [Threads -> Jobs]
        /\ m' \in Threads \cup {NoThread}
    BY <1>4, <1>a, <1>b, MoveType DEF BeginTop, L
  <2> QED BY <1>4, <2>1 DEF BeginTop
<1>5. CASE BeginClose(t)
  <2>1. /\ pc' \in [Threads -> Labels] /\ job' \in [Threads -> Jobs]
        /\ m' \in Threads \cup {NoThread}
    BY <1>5, <1>a, <1>b, MoveType DEF BeginClose, L
  <2> QED BY <1>5, <2>1 DEF BeginClose
<1>6. CASE BeginAdd(t) BY <1>6, <1>a DEF BeginAdd, L
<1>7. CASE OpWrite(t) BY <1>7 DEF OpWrite
<1>8. CASE EndCount(t) BY <1>8, <1>a DEF EndCount, L
<1>9. CASE EndSub(t) BY <1>9, <1>a DEF EndSub, L
<1>10. CASE EndLoad(t) BY <1>10, <1>a DEF EndLoad, L
<1>11. CASE EndSlow(t)
  <2>1. /\ pc' \in [Threads -> Labels] /\ job' \in [Threads -> Jobs]
        /\ m' \in Threads \cup {NoThread}
    BY <1>11, <1>a, <1>b, MoveType DEF EndSlow, L
  <2> QED BY <1>11, <2>1 DEF EndSlow
<1>12. CASE CommitCall(t) BY <1>12, <1>a DEF CommitCall, Call, L
<1>13. CASE CommitLock(t) BY <1>13, <1>a DEF CommitLock, L
<1>14. CASE CommitTop(t)
  <2>1. /\ pc' \in [Threads -> Labels] /\ job' \in [Threads -> Jobs]
        /\ m' \in Threads \cup {NoThread}
    BY <1>14, <1>a, <1>b, MoveType DEF CommitTop, L
  <2> QED BY <1>14, <2>1 DEF CommitTop
<1>15. CASE CheckpointLock(t) BY <1>15, <1>a DEF CheckpointLock, L
<1>16. CASE CheckpointTop(t)
  <2>1. /\ pc' \in [Threads -> Labels] /\ job' \in [Threads -> Jobs]
        /\ m' \in Threads \cup {NoThread}
    BY <1>16, <1>a, <1>b, MoveType DEF CheckpointTop, L
  <2> QED BY <1>16, <2>1 DEF CheckpointTop
<1>17. CASE Return(t) BY <1>17, <1>a DEF Return, L
<1>18. CASE CommitIfOlder(t)
  <2>1. /\ pc' \in [Threads -> Labels] /\ job' \in [Threads -> Jobs]
        /\ m' \in Threads \cup {NoThread}
    BY <1>18, <1>b, <1>a, MoveType DEF CommitIfOlder, L
  <2>2. calls' \in [Threads -> 0..MaxCalls] BY <1>18 DEF CommitIfOlder, Call
  <2> QED BY <1>18, <2>1, <2>2 DEF CommitIfOlder
<1>19. CASE RunLater(t)
  <2>1. WaitLabel[job[t].call] \in Labels BY <1>a DEF WaitLabel, Jobs, Calls, L
  <2> QED BY <1>19, <2>1, ValueType DEF RunLater
<1>20. CASE RunStart(t)
  <2>1. Job(job[t].call, ended, checkpoint_requested, "ok") \in Jobs
    BY DEF Jobs, Job, Results
  <2> QED BY <1>20, <1>a, <2>1 DEF RunStart, L
<1>21. CASE RunIo(t)
  <2>1. \A r \in Results : Job(job[t].call, job[t].covered, job[t].ckpt, r) \in Jobs
    BY DEF Jobs, Job
  <2> QED BY <1>21, <1>a, <2>1 DEF RunIo, L
<1>22. CASE RunPublish(t)
  <2>1. TopLabel[job[t].call] \in Labels BY <1>a DEF TopLabel, Jobs, Calls, L
  <2>2. pc' \in [Threads -> Labels] BY <1>22, <1>a, <2>1 DEF RunPublish, WakeAll, L
  <2>3. job[t].covered \in Nat BY DEF Jobs
  <2>4. m' \in Threads \cup {NoThread} BY <1>22 DEF RunPublish
  <2>5. checkpoints_done' \in Nat BY <1>22 DEF RunPublish
  <2> QED BY <1>22, <2>2, <2>3, <2>4, <2>5, ValueType DEF RunPublish
<1>23. CASE RunFail(t)
  <2>1. pc' \in [Threads -> Labels] BY <1>23, <1>a DEF RunFail, WakeAll, L
  <2> QED BY <1>23, <2>1, ValueType DEF RunFail
<1>24. CASE SpuriousWake(t) BY <1>24, <1>a DEF SpuriousWake, L
<1> QED BY <1>1, <1>2, <1>3, <1>4, <1>5, <1>6, <1>7, <1>8, <1>9, <1>10, <1>11, <1>12,
           <1>13, <1>14, <1>15, <1>16, <1>17, <1>18, <1>19, <1>20, <1>21, <1>22, <1>23,
           <1>24 DEF Step

-----------------------------------------------------------------------------
\* A step of t leaves the locals of every other thread alone, and moves it only
\* from waiting on the condition variable to taking the mutex.
Woken(u) == \/ pc'[u] = pc[u]
            \/ pc[u] = "b_wait" /\ pc'[u] = "b_slow"
            \/ pc[u] = "c_wait" /\ pc'[u] = "c_again"
            \/ pc[u] = "k_wait" /\ pc'[u] = "k_again"

\* What one thread's step may do to another.
LEMMA OthersStep ==
  ASSUME TypeOK, NEW t \in Threads, Step(t), NEW u \in Threads, u # t
  PROVE  /\ Woken(u)
         /\ g'[u] = g[u] /\ job'[u] = job[u]
         /\ target'[u] = target[u] /\ called'[u] = called[u]
<1> USE DEF TypeOK, Goto, Leave, Enter, Woken, locals, history
<1>1. CASE RunPublish(t) \/ RunFail(t)
  <2>1. Woken(u) BY <1>1 DEF RunPublish, RunFail, WakeAll
  <2> QED BY <1>1, <2>1 DEF RunPublish, RunFail
<1>2. CASE BeginTop(t) BY <1>2 DEF BeginTop
<1>3. CASE EndSlow(t) BY <1>3 DEF EndSlow
<1>4. CASE CommitTop(t) BY <1>4 DEF CommitTop
<1>5. CASE CheckpointTop(t) BY <1>5 DEF CheckpointTop
<1>6. CASE BeginLoad(t) \/ BeginFits(t) \/ BeginCas(t) \/ BeginClose(t) \/ BeginAdd(t)
  BY <1>6 DEF BeginLoad, BeginFits, BeginCas, BeginClose, BeginAdd
<1>7. CASE OpWrite(t) \/ EndCount(t) \/ EndSub(t) \/ EndLoad(t)
  BY <1>7 DEF OpWrite, EndCount, EndSub, EndLoad
<1>8. CASE CommitCall(t) \/ CommitLock(t) \/ CheckpointLock(t) \/ Return(t)
  BY <1>8 DEF CommitCall, CommitLock, CheckpointLock, Return
<1>9. CASE CommitIfOlder(t) \/ RunLater(t) \/ RunStart(t)
  BY <1>9 DEF CommitIfOlder, RunLater, RunStart
<1>10. CASE RunIo(t) BY <1>10 DEF RunIo
<1>11. CASE SpuriousWake(t) BY <1>11 DEF SpuriousWake
<1> QED BY <1>1, <1>2, <1>3, <1>4, <1>5, <1>6, <1>7, <1>8, <1>9, <1>10, <1>11 DEF Step

\* Which steps bring a thread to the labels the invariant is about.
Arrives(t) ==
    /\ pc'[t] = "b_cas" => BeginFits(t)
    /\ pc'[t] \in {"b_add", "b_close"} => BeginTop(t)
    /\ pc'[t] \in InOperation => pc[t] \in InOperation \/ BeginCas(t) \/ BeginAdd(t)
    /\ pc'[t] = "r_io" => RunStart(t)
    /\ pc'[t] = "r_lock" => RunIo(t)
    /\ pc'[t] = "c_ok" => CommitTop(t)
    /\ pc'[t] = "k_ok" => CheckpointTop(t)

\* A thread comes to those labels by these steps only.
LEMMA ArrivesStep ==
  ASSUME TypeOK, NEW t \in Threads, Step(t)
  PROVE  Arrives(t)
<1> USE DEF TypeOK, From, Goto, InOperation, Arrives
<1>1. CASE RunPublish(t) BY <1>1 DEF RunPublish, WakeAll, TopLabel, Jobs, Calls
<1>2. CASE RunFail(t) BY <1>2 DEF RunFail, WakeAll
<1>3. CASE BeginTop(t) BY <1>3 DEF BeginTop, Leave, Enter
<1>4. CASE CommitTop(t) BY <1>4 DEF CommitTop, Leave, Enter
<1>5. CASE CheckpointTop(t) BY <1>5 DEF CheckpointTop, Leave, Enter
<1>6. CASE EndSlow(t) BY <1>6 DEF EndSlow, Leave, Enter
<1>7. CASE BeginLoad(t) \/ BeginFits(t) \/ BeginCas(t) \/ BeginClose(t) \/ BeginAdd(t)
  BY <1>7 DEF BeginLoad, BeginFits, BeginCas, BeginClose, Enter, BeginAdd
<1>8. CASE OpWrite(t) \/ EndCount(t) \/ EndSub(t) \/ EndLoad(t)
  BY <1>8 DEF OpWrite, EndCount, EndSub, EndLoad
<1>9. CASE CommitCall(t) \/ CommitLock(t) \/ CheckpointLock(t) \/ Return(t)
  BY <1>9 DEF CommitCall, CommitLock, CheckpointLock, Return
<1>10. CASE CommitIfOlder(t) \/ RunStart(t) \/ RunIo(t)
  BY <1>10 DEF CommitIfOlder, Enter, RunStart, RunIo
<1>11. CASE RunLater(t) BY <1>11 DEF RunLater, WaitLabel, Jobs, Calls
<1>12. CASE SpuriousWake(t) BY <1>12 DEF SpuriousWake
<1> QED BY <1>1, <1>2, <1>3, <1>4, <1>5, <1>6, <1>7, <1>8, <1>9, <1>10, <1>11, <1>12
        DEF Step

-----------------------------------------------------------------------------
(* The gate. *)

\* There are finitely many operations, so they can be counted.
LEMMA OpsFinite == IsFiniteSet(Threads) /\ IsFiniteSet(Ops)
<1>1. IsFiniteSet(Threads)
  BY ClientsFinite, FS_AddElement DEF Threads
<1> QED BY <1>1, FS_Subset DEF Ops

\* The set of operations after a step of t.
LEMMA OpsStep ==
  ASSUME TypeOK, NEW t \in Threads, Step(t)
  PROVE  /\ pc'[t] \in InOperation => Ops' = Ops \cup {t}
         /\ pc'[t] \notin InOperation => Ops' = Ops \ {t}
<1>1. \A u \in Threads : u # t => (pc'[u] \in InOperation <=> pc[u] \in InOperation)
  BY OthersStep DEF Woken, InOperation
<1> QED BY <1>1 DEF Ops

\* The count in the gate changes exactly when a thread begins or ends one.
LEMMA RunningStep ==
  ASSUME TypeOK, NEW t \in Threads, Step(t)
  PROVE  \/ pc[t] \notin InOperation /\ pc'[t] \in InOperation /\ running' = running + 1
         \/ pc[t] \in InOperation /\ pc'[t] \notin InOperation /\ running' = running - 1
         \/ (pc[t] \in InOperation <=> pc'[t] \in InOperation) /\ running' = running
<1> USE DEF TypeOK, From, Goto, InOperation, gate
<1>1. CASE RunPublish(t) BY <1>1 DEF RunPublish, WakeAll, TopLabel, Jobs, Calls
<1>2. CASE RunFail(t) BY <1>2 DEF RunFail, WakeAll
<1>3. CASE BeginTop(t) BY <1>3 DEF BeginTop, Under, Leave, Enter
<1>4. CASE CommitTop(t) BY <1>4 DEF CommitTop, Under, Leave, Enter
<1>5. CASE CheckpointTop(t) BY <1>5 DEF CheckpointTop, Under, Leave, Enter
<1>6. CASE EndSlow(t) BY <1>6 DEF EndSlow, Leave, Enter
<1>7. CASE BeginLoad(t) \/ BeginFits(t) \/ BeginClose(t)
  BY <1>7 DEF BeginLoad, Call, BeginFits, BeginClose, Enter
<1>8. CASE BeginCas(t) BY <1>8 DEF BeginCas
<1>9. CASE BeginAdd(t) \/ OpWrite(t) \/ EndCount(t) BY <1>9 DEF BeginAdd, OpWrite, EndCount
<1>10. CASE EndSub(t) \/ EndLoad(t) BY <1>10 DEF EndSub, EndLoad
<1>11. CASE CommitCall(t) \/ CommitLock(t) \/ CheckpointLock(t) \/ Return(t)
  BY <1>11 DEF CommitCall, Call, CommitLock, CheckpointLock, Return
<1>12. CASE CommitIfOlder(t) \/ RunStart(t) BY <1>12 DEF CommitIfOlder, Call, Enter, RunStart
<1>13. CASE RunLater(t) BY <1>13 DEF RunLater, WaitLabel, Jobs, Calls
<1>14. CASE RunIo(t) BY <1>14 DEF RunIo
<1>15. CASE SpuriousWake(t) BY <1>15 DEF SpuriousWake
<1> QED BY <1>1, <1>2, <1>3, <1>4, <1>5, <1>6, <1>7, <1>8, <1>9, <1>10, <1>11, <1>12,
           <1>13, <1>14, <1>15 DEF Step

\* end_op's fetch_sub finds at least its own operation counted.
LEMMA EndSubPositive ==
  ASSUME TypeOK, GateInv, NEW t \in Threads, EndSub(t)
  PROVE  running # 0
<1>1. t \in Ops BY DEF EndSub, From, Ops, InOperation
<1> QED BY <1>1, OpsFinite, FS_EmptySet DEF GateInv

\* The gate's count stays the number of operations.
LEMMA CountStep ==
  ASSUME TypeOK, GateInv, NEW t \in Threads, Step(t)
  PROVE  running' = Cardinality(Ops')
<1> USE OpsFinite DEF GateInv
<1>1. CASE pc[t] \notin InOperation /\ pc'[t] \in InOperation /\ running' = running + 1
  <2>1. t \notin Ops /\ Ops' = Ops \cup {t} BY <1>1, OpsStep DEF Ops
  <2> QED BY <1>1, <2>1, FS_AddElement
<1>2. CASE pc[t] \in InOperation /\ pc'[t] \notin InOperation /\ running' = running - 1
  <2>1. t \in Ops /\ Ops' = Ops \ {t} BY <1>2, OpsStep DEF Ops
  <2> QED BY <1>2, <2>1, FS_RemoveElement
<1>3. CASE (pc[t] \in InOperation <=> pc'[t] \in InOperation) /\ running' = running
  <2>1. Ops' = Ops BY <1>3, OpsStep DEF Ops
  <2> QED BY <1>3, <2>1
<1> QED BY <1>1, <1>2, <1>3, RunningStep

\* Who may change the gate's CLOSED bit, committing_ and failed_, and how.
LEMMA ClosedStep ==
  ASSUME TypeOK, NEW t \in Threads, Step(t)
  PROVE  \/ closed' = closed /\ committing' = committing /\ failed' = failed
         \/ /\ m = t /\ pc[t] \in {"b_close", "run"}
            /\ closed' = TRUE /\ committing' = committing /\ failed' = failed
         \/ RunStart(t) /\ closed' = TRUE /\ committing' = TRUE /\ failed' = failed
         \/ m = NoThread /\ pc[t] = "r_lock" /\ committing' = FALSE
<1> USE DEF From, gate, journal
<1>1. CASE RunPublish(t) \/ RunFail(t) BY <1>1 DEF RunPublish, RunFail
<1>2. CASE RunStart(t) BY <1>2 DEF RunStart
<1>3. CASE RunLater(t) \/ BeginClose(t) BY <1>3 DEF RunLater, BeginClose
<1>4. CASE BeginLoad(t) \/ BeginFits(t) \/ BeginCas(t) \/ BeginTop(t) \/ BeginAdd(t)
  BY <1>4 DEF BeginLoad, BeginFits, BeginCas, BeginTop, BeginAdd
<1>5. CASE OpWrite(t) \/ EndCount(t) \/ EndSub(t) \/ EndLoad(t) \/ EndSlow(t)
  BY <1>5 DEF OpWrite, EndCount, EndSub, EndLoad, EndSlow
<1>6. CASE \/ CommitCall(t) \/ CommitLock(t) \/ CommitTop(t) \/ CheckpointLock(t)
           \/ CheckpointTop(t) \/ Return(t)
  BY <1>6 DEF CommitCall, CommitLock, CommitTop, CheckpointLock, CheckpointTop, Return
<1>7. CASE CommitIfOlder(t) \/ RunIo(t) \/ SpuriousWake(t)
  BY <1>7 DEF CommitIfOlder, RunIo, SpuriousWake
<1> QED BY <1>1, <1>2, <1>3, <1>4, <1>5, <1>6, <1>7 DEF Step

\* An operation begins only through an open gate.
LEMMA BeginsOpen ==
  ASSUME TypeOK, GateInv, MutexInv, NEW t \in Threads, Step(t),
         pc[t] \notin InOperation, pc'[t] \in InOperation
  PROVE  ~closed /\ closed' = closed /\ committing' = committing
<1>1. CASE BeginCas(t)
  <2>1. g[t] = [closed |-> closed, running |-> running] /\ ~g[t].closed
    BY <1>1 DEF BeginCas, From, InOperation, Goto, GateInv, TypeOK
  <2> QED BY <1>1, <2>1 DEF BeginCas, journal, TypeOK
<1>2. CASE BeginAdd(t)
  <2>1. pc[t] = "b_add" BY <1>2 DEF BeginAdd, From
  <2>2. ~closed BY <2>1 DEF GateInv
  <2> QED BY <1>2, <2>2 DEF BeginAdd, journal
<1> QED BY <1>1, <1>2, ArrivesStep DEF Arrives

\* run_commit's gate: while a commit runs the gate is closed and nobody is
\* inside an operation.
LEMMA GateStep ==
  ASSUME TypeOK, GateInv, MutexInv, NEW t \in Threads, Step(t)
  PROVE  GateInv'
<1>1. running' = Cardinality(Ops') BY CountStep
<1>2. committing' => closed' /\ Ops' = {}
  <2>1. CASE RunStart(t)
    <3>1. Ops = {} BY <2>1, OpsFinite, FS_EmptySet DEF RunStart, GateInv
    <3>2. pc'[t] \notin InOperation BY <2>1 DEF RunStart, Goto, InOperation, TypeOK
    <3> QED BY <2>1, <3>1, <3>2, OpsStep DEF RunStart
  <2>2. CASE committing /\ ~RunStart(t) /\ committing'
    <3>1. closed /\ Ops = {} BY <2>2 DEF GateInv
    <3>2. closed' BY <2>2, <3>1, ClosedStep
    <3>3. pc'[t] \notin InOperation BY <3>1, BeginsOpen DEF Ops
    <3> QED BY <3>1, <3>2, <3>3, OpsStep
  <2>3. committing' => committing \/ RunStart(t) BY ClosedStep
  <2> QED BY <2>1, <2>2, <2>3
<1>3. ASSUME NEW u \in Threads, pc'[u] = "b_add" PROVE ~closed'
  <2>1. CASE u = t
    <3>1. BeginTop(t) BY <1>3, <2>1, ArrivesStep DEF Arrives
    <3> QED BY <1>3, <2>1, <3>1 DEF BeginTop, Leave, Enter, Goto, TypeOK, gate
  <2>2. CASE u # t
    <3>1. pc[u] = "b_add" BY <1>3, <2>2, OthersStep DEF Woken
    <3>2. m = u /\ u # NoThread BY <3>1, NoThreadIsNone DEF MutexInv, Holder
    <3>4. ~closed BY <3>1 DEF GateInv
    <3>3. closed' = closed BY <2>2, <3>2, ClosedStep DEF RunStart
    <3> QED BY <3>3, <3>4
  <2> QED BY <2>1, <2>2
<1>4. ASSUME NEW u \in Threads, pc'[u] = "b_cas" PROVE ~g'[u].closed
  <2>1. CASE u # t BY <1>4, <2>1, OthersStep DEF Woken, GateInv
  <2>2. CASE u = t
    <3>1. BeginFits(t) BY <1>4, <2>2, ArrivesStep DEF Arrives
    <3> QED BY <1>4, <2>2, <3>1 DEF BeginFits, Goto, TypeOK
  <2> QED BY <2>1, <2>2
<1> QED BY <1>1, <1>2, <1>3, <1>4 DEF GateInv

-----------------------------------------------------------------------------
(* The mutex. *)

\* After a step of t, t holds m_ exactly at the labels that say so.
Owns(t) == /\ m' = m \/ {m, m'} \subseteq {t, NoThread}
           /\ (m' = t) <=> (pc'[t] \in Holder)

\* Every step locks and unlocks m_ as its labels say.
LEMMA OwnsStep ==
  ASSUME TypeOK, MutexInv, NEW t \in Threads, Step(t)
  PROVE  Owns(t)
<1> USE NoThreadIsNone DEF TypeOK, MutexInv, From, Goto, Lock, Unlock, Holder, Owns
<1>1. CASE RunPublish(t) BY <1>1 DEF RunPublish, WakeAll, TopLabel, Jobs, Calls
<1>2. CASE RunFail(t) BY <1>2 DEF RunFail, WakeAll
<1>3. CASE BeginTop(t) BY <1>3 DEF BeginTop, Under, Leave, Enter
<1>4. CASE CommitTop(t) BY <1>4 DEF CommitTop, Under, Leave, Enter
<1>5. CASE CheckpointTop(t) BY <1>5 DEF CheckpointTop, Under, Leave, Enter
<1>6. CASE EndSlow(t) BY <1>6 DEF EndSlow, Leave, Enter
<1>7. CASE BeginLoad(t) BY <1>7 DEF BeginLoad, Call
<1>8. CASE BeginFits(t) BY <1>8 DEF BeginFits
<1>9. CASE BeginCas(t) BY <1>9 DEF BeginCas
<1>10. CASE BeginClose(t) \/ BeginAdd(t) BY <1>10 DEF BeginClose, Enter, BeginAdd
<1>11. CASE OpWrite(t) \/ EndCount(t) BY <1>11 DEF OpWrite, EndCount
<1>12. CASE EndSub(t) BY <1>12 DEF EndSub
<1>13. CASE EndLoad(t) BY <1>13 DEF EndLoad
<1>14. CASE CommitCall(t) BY <1>14 DEF CommitCall, Call
<1>15. CASE CommitLock(t) \/ CheckpointLock(t) BY <1>15 DEF CommitLock, CheckpointLock
<1>16. CASE Return(t) BY <1>16 DEF Return
<1>17. CASE CommitIfOlder(t) BY <1>17 DEF CommitIfOlder, Call, Enter
<1>18. CASE RunLater(t) BY <1>18 DEF RunLater, WaitLabel, Jobs, Calls
<1>19. CASE RunStart(t) \/ RunIo(t) BY <1>19 DEF RunStart, RunIo
<1>20. CASE SpuriousWake(t) BY <1>20 DEF SpuriousWake
<1> QED BY <1>1, <1>2, <1>3, <1>4, <1>5, <1>6, <1>7, <1>8, <1>9, <1>10, <1>11, <1>12,
           <1>13, <1>14, <1>15, <1>16, <1>17, <1>18, <1>19, <1>20 DEF Step

\* Whoever comes to a label that relies on no commit running, and none having
\* failed, has just checked both under m_.
LEMMA CheckedStep ==
  ASSUME TypeOK, MutexInv, NEW t \in Threads, Step(t),
         pc'[t] \in {"b_add", "b_close", "run"}
  PROVE  ~committing' /\ ~failed'
<1> USE DEF TypeOK, From, Goto, journal
<1>1. CASE RunPublish(t) BY <1>1 DEF RunPublish, WakeAll, TopLabel, Jobs, Calls
<1>2. CASE RunFail(t) BY <1>2 DEF RunFail, WakeAll
<1>3. CASE BeginTop(t) BY <1>3 DEF BeginTop, Leave, Enter
<1>4. CASE CommitTop(t) BY <1>4 DEF CommitTop, Leave, Enter
<1>5. CASE CheckpointTop(t) BY <1>5 DEF CheckpointTop, Leave, Enter
<1>6. CASE EndSlow(t) BY <1>6 DEF EndSlow, Leave, Enter
<1>7. CASE BeginLoad(t) \/ BeginFits(t) \/ BeginCas(t) \/ BeginAdd(t)
  BY <1>7 DEF BeginLoad, BeginFits, BeginCas, BeginAdd
<1>8. CASE BeginClose(t) BY <1>8 DEF BeginClose, MutexInv
<1>9. CASE OpWrite(t) \/ EndCount(t) \/ EndSub(t) \/ EndLoad(t)
  BY <1>9 DEF OpWrite, EndCount, EndSub, EndLoad
<1>10. CASE CommitCall(t) \/ CommitLock(t) \/ CheckpointLock(t) \/ Return(t)
  BY <1>10 DEF CommitCall, CommitLock, CheckpointLock, Return
<1>11. CASE CommitIfOlder(t) BY <1>11 DEF CommitIfOlder
<1>12. CASE RunLater(t) BY <1>12 DEF RunLater, WaitLabel, Jobs, Calls
<1>13. CASE RunStart(t) \/ RunIo(t) BY <1>13 DEF RunStart, RunIo
<1>14. CASE SpuriousWake(t) BY <1>14 DEF SpuriousWake
<1> QED BY <1>1, <1>2, <1>3, <1>4, <1>5, <1>6, <1>7, <1>8, <1>9, <1>10, <1>11, <1>12,
           <1>13, <1>14 DEF Step

\* The mutex: what a holder of m_ has checked stays true until it lets m_ go.
LEMMA MutexStep ==
  ASSUME TypeOK, MutexInv, NEW t \in Threads, Step(t)
  PROVE  MutexInv'
<1> SUFFICES ASSUME NEW u \in Threads
             PROVE  /\ (m' = u) <=> (pc'[u] \in Holder)
                    /\ pc'[u] \in {"b_add", "b_close", "run"} => ~committing' /\ ~failed'
  BY DEF MutexInv
<1>1. CASE u = t BY <1>1, OwnsStep, CheckedStep DEF Owns
<1>2. CASE u # t
  <2>1. pc'[u] = pc[u] \/ (pc[u] \notin Holder /\ pc'[u] \notin Holder)
    BY <1>2, OthersStep DEF Woken, Holder
  <2>2. (m' = u) <=> (m = u) BY <1>2, OwnsStep, NoThreadIsNone DEF Owns
  <2>3. (m = u) <=> (pc[u] \in Holder) BY DEF MutexInv
  <2>4. ASSUME pc'[u] \in {"b_add", "b_close", "run"} PROVE ~committing' /\ ~failed'
    <3>1. pc[u] = pc'[u] /\ m = u BY <2>1, <2>3, <2>4 DEF Holder
    <3>2. ~committing /\ ~failed BY <2>4, <3>1 DEF MutexInv
    <3>3. committing' = committing /\ failed' = failed
      BY <1>2, <3>1, ClosedStep, NoThreadIsNone DEF RunStart
    <3> QED BY <3>2, <3>3
  <2> QED BY <2>1, <2>2, <2>3, <2>4
<1> QED BY <1>1, <1>2

-----------------------------------------------------------------------------
(* One committer at a time. *)

\* run_commit starts only when no other thread is in it.
LEMMA CommitterStep ==
  ASSUME TypeOK, MutexInv, CommitterInv, NEW t \in Threads, Step(t)
  PROVE  CommitterInv'
<1>1. \A u \in Threads : u # t => (pc'[u] \in Runner <=> pc[u] \in Runner)
  BY OthersStep DEF Woken, Runner
<1>2. CASE RunStart(t)
  <2>1. ~committing /\ ~failed BY <1>2 DEF RunStart, From, MutexInv
  <2>2. \A u \in Threads : pc[u] \notin Runner BY <2>1 DEF CommitterInv, OneCommitter
  <2> QED BY <1>1, <1>2, <2>1, <2>2 DEF RunStart, CommitterInv, OneCommitter
<1>3. CASE ~RunStart(t)
  <2>1. pc'[t] \in Runner => RunIo(t) /\ pc[t] \in Runner
    BY <1>3, ArrivesStep DEF Arrives, Runner, RunIo, From
  <2>2. CASE m = NoThread /\ pc[t] = "r_lock" /\ committing' = FALSE
    <3>1. \A u \in Threads : u # t => pc[u] \notin Runner
      BY <2>2 DEF CommitterInv, OneCommitter, Runner
    <3>2. pc'[t] \notin Runner BY <2>1, <2>2 DEF RunIo, From
    <3> QED BY <1>1, <2>2, <3>1, <3>2 DEF CommitterInv, OneCommitter
  <2>3. CASE committing' = committing /\ failed' = failed
    BY <1>1, <2>1, <2>3 DEF CommitterInv, OneCommitter
  <2> QED BY <1>3, <2>2, <2>3, ClosedStep
<1> QED BY <1>2, <1>3

-----------------------------------------------------------------------------
(* What has been committed. *)

\* The steps that say nothing about which operations are durable.
Quiet == UNCHANGED <<ended, committing, failed, committed_through, checkpoints_done,
                     pending, taken, logged, imaged>>

\* All steps but five are quiet, and two more change what was called.
LEMMA QuietStep ==
  ASSUME NEW t \in Threads, Step(t)
  PROVE  \/ Quiet /\ called' = called
         \/ Quiet /\ (CommitCall(t) \/ Return(t))
         \/ EndCount(t) \/ RunStart(t) \/ RunIo(t) \/ RunPublish(t) \/ RunFail(t)
<1> USE DEF Quiet, journal, history
<1>1. CASE \/ BeginLoad(t) \/ BeginFits(t) \/ BeginCas(t) \/ BeginTop(t) \/ BeginClose(t)
           \/ BeginAdd(t)
  BY <1>1 DEF BeginLoad, BeginFits, BeginCas, BeginTop, BeginClose, BeginAdd
<1>2. CASE OpWrite(t) \/ EndSub(t) \/ EndLoad(t) \/ EndSlow(t)
  BY <1>2 DEF OpWrite, EndSub, EndLoad, EndSlow
<1>3. CASE CommitLock(t) \/ CommitTop(t) \/ CheckpointLock(t) \/ CheckpointTop(t)
  BY <1>3 DEF CommitLock, CommitTop, CheckpointLock, CheckpointTop
<1>4. CASE CommitCall(t) \/ Return(t) BY <1>4 DEF CommitCall, Return
<1>5. CASE CommitIfOlder(t) \/ RunLater(t) \/ SpuriousWake(t)
  BY <1>5 DEF CommitIfOlder, RunLater, SpuriousWake
<1> QED BY <1>1, <1>2, <1>3, <1>4, <1>5 DEF Step

\* commit() is called with what has ended by then, and a step of t changes
\* only its own.
LEMMA CalledStep ==
  ASSUME TypeOK, NEW t \in Threads, Step(t), \A u \in Threads : called[u] <= ended
  PROVE  \A u \in Threads : called'[u] <= ended'
<1>1. CASE Quiet /\ called' = called BY <1>1 DEF Quiet
<1>2. CASE CommitCall(t) BY <1>2 DEF CommitCall, TypeOK
<1>3. CASE Return(t) BY <1>3 DEF Return, TypeOK
<1>4. CASE EndCount(t) BY <1>4 DEF EndCount, TypeOK
<1>5. CASE RunStart(t) \/ RunIo(t) \/ RunPublish(t) \/ RunFail(t)
  BY <1>5 DEF RunStart, RunIo, RunPublish, RunFail, history
<1> QED BY <1>1, <1>2, <1>3, <1>4, <1>5, QuietStep

\* Every operation that has ended is in the log, in the transaction being
\* committed or in the running one; a commit covers exactly what had ended.
LEMMA HistoryStep ==
  ASSUME TypeOK, GateInv, MutexInv, CommitterInv, HistoryInv, NEW t \in Threads, Step(t)
  PROVE  HistoryInv'
<1>0. \A u \in Threads : called'[u] <= ended' BY CalledStep DEF HistoryInv
<1>1. \A u \in Threads : u # t => /\ pc'[u] \in Runner <=> pc[u] \in Runner
                                  /\ pc'[u] = "r_lock" <=> pc[u] = "r_lock"
                                  /\ job'[u] = job[u]
  BY OthersStep DEF Woken, Runner
<1>2. CASE EndCount(t)
  <2>1. t \in Ops BY <1>2 DEF EndCount, From, Ops, InOperation
  <2>2. ~committing BY <2>1 DEF GateInv
  <2>3. \A u \in Threads : pc[u] \notin Runner BY <2>2 DEF CommitterInv, OneCommitter
  <2>4. pc'[t] = "e_sub" BY <1>2 DEF EndCount, Goto, TypeOK
  <2>5. \A u \in Threads : pc'[u] \notin Runner /\ pc'[u] # "r_lock"
    BY <1>1, <2>3, <2>4 DEF Runner
  <2>6. 1..ended' \subseteq logged' \cup taken' \cup pending'
    BY <1>2 DEF EndCount, HistoryInv, TypeOK
  <2> QED BY <1>0, <1>2, <2>5, <2>6 DEF EndCount, HistoryInv, journal
<1>3. CASE RunStart(t)
  <2>1. ~committing /\ ~failed /\ taken = {}
    BY <1>3 DEF RunStart, From, MutexInv, HistoryInv
  <2>2. \A u \in Threads : pc[u] \notin Runner BY <2>1 DEF CommitterInv, OneCommitter
  <2>3. pc'[t] = "r_io" /\ job'[t].covered = ended
    BY <1>3 DEF RunStart, Goto, TypeOK, Job
  <2>4. \A u \in Threads : pc'[u] # "r_lock" /\ (pc'[u] \in Runner => u = t)
    BY <1>1, <2>2, <2>3 DEF Runner
  <2> QED BY <1>0, <1>3, <2>1, <2>3, <2>4 DEF RunStart, HistoryInv
<1>4. CASE RunIo(t)
  <2>1. pc[t] \in Runner /\ committing BY <1>4 DEF RunIo, From, Runner, CommitterInv, OneCommitter
  <2>2. \A u \in Threads : pc[u] \in Runner => u = t
    BY <2>1 DEF CommitterInv, OneCommitter
  <2>3. \A u \in Threads : pc'[u] \in Runner => u = t BY <1>1, <2>2
  <2>4. \A u \in Threads : pc'[u] = "r_lock" => u = t BY <2>3 DEF Runner
  <2>5. job[t].covered = ended /\ pending = {} /\ 1..ended \subseteq logged \cup taken
    BY <2>1 DEF HistoryInv
  <2>6. logged \subseteq logged' /\ imaged \subseteq imaged' BY <1>4 DEF RunIo
  <2>7. job'[t].covered = ended /\ pending' = {} /\ ended' = ended
    BY <1>4, <2>5 DEF RunIo, TypeOK, Job
  <2>8. job'[t].result # "error" => taken \subseteq logged' /\ 1..ended \subseteq logged'
    BY <1>4, <2>5 DEF RunIo, TypeOK, Job
  <2>9. job'[t].result = "checkpointed" => 1..ended \subseteq imaged'
    BY <1>4, <2>5, <2>8 DEF RunIo, TypeOK, Job
  <2>10. 1..ended \subseteq logged' \cup taken' \cup pending' BY <1>4, <2>5, <2>6 DEF RunIo
  <2>11. 1..committed_through' \subseteq logged' BY <1>4, <2>6 DEF RunIo, HistoryInv, journal
  <2>12. committing' /\ taken' = taken BY <1>4, <2>1 DEF RunIo, journal
  <2> QED BY <1>0, <2>3, <2>4, <2>7, <2>8, <2>9, <2>10, <2>11, <2>12 DEF HistoryInv
<1>5. CASE RunPublish(t) \/ RunFail(t)
  <2>1. pc[t] = "r_lock" /\ pc[t] \in Runner BY <1>5 DEF RunPublish, RunFail, From, Runner
  <2>2. pc'[t] \notin Runner
    BY <1>5, <2>1, ArrivesStep DEF Arrives, Runner, RunStart, RunIo, From
  <2>3. \A u \in Threads : pc'[u] \notin Runner
    BY <1>1, <2>1, <2>2 DEF CommitterInv, OneCommitter
  <2>4. \A u \in Threads : pc'[u] # "r_lock" BY <2>3 DEF Runner
  <2>5. job[t].covered = ended BY <2>1 DEF HistoryInv
  <2>6. CASE RunPublish(t)
    <3>1. taken \subseteq logged /\ 1..ended \subseteq logged
      BY <2>1, <2>6 DEF RunPublish, HistoryInv
    <3> QED BY <1>0, <2>3, <2>4, <2>5, <2>6, <3>1 DEF RunPublish, HistoryInv
  <2>7. CASE RunFail(t) BY <1>0, <2>3, <2>4, <2>7 DEF RunFail, HistoryInv, history
  <2> QED BY <1>5, <2>6, <2>7
<1>6. CASE Quiet /\ ~RunStart(t) /\ ~RunIo(t)
  <2>1. pc'[t] \notin Runner BY <1>6, ArrivesStep DEF Arrives, Runner
  <2>2. \A u \in Threads : pc'[u] \in Runner => pc[u] \in Runner /\ job'[u] = job[u]
    BY <1>1, <2>1
  <2>3. \A u \in Threads : pc'[u] = "r_lock" => pc[u] = "r_lock" /\ job'[u] = job[u]
    BY <1>1, <2>1 DEF Runner
  <2> QED BY <1>0, <1>6, <2>2, <2>3 DEF Quiet, HistoryInv
<1> QED BY <1>2, <1>3, <1>4, <1>5, <1>6, QuietStep

-----------------------------------------------------------------------------
(* The calls. *)

InCommit(t) == InCall(t, "commit", {"c_top", "c_wait", "c_again"})
InCheckpoint(t) == InCall(t, "checkpoint", {"k_top", "k_wait", "k_again"})
Kept(t) == target'[t] = target[t] /\ called'[t] = called[t]

\* Past the load of its target a call keeps it, whatever it waits for.
LEMMA CallSelf ==
  ASSUME TypeOK, NEW t \in Threads, Step(t)
  PROVE  /\ InCommit(t)' => CommitLock(t) \/ (InCommit(t) /\ Kept(t))
         /\ InCheckpoint(t)' => CheckpointLock(t) \/ (InCheckpoint(t) /\ Kept(t))
<1> USE DEF TypeOK, From, Goto, InCommit, InCheckpoint, InCall, Kept, Runner, Job, NoJob,
            locals, history
<1>1. CASE RunPublish(t) BY <1>1 DEF RunPublish, WakeAll, TopLabel, Jobs, Calls
<1>2. CASE RunFail(t) BY <1>2 DEF RunFail, WakeAll
<1>3. CASE BeginTop(t) BY <1>3 DEF BeginTop, Leave, Enter
<1>4. CASE CommitTop(t) BY <1>4 DEF CommitTop, Under, Leave, Enter
<1>5. CASE CheckpointTop(t) BY <1>5 DEF CheckpointTop, Under, Leave, Enter
<1>6. CASE EndSlow(t) BY <1>6 DEF EndSlow, Leave, Enter
<1>7. CASE BeginLoad(t) BY <1>7 DEF BeginLoad
<1>8. CASE BeginFits(t) BY <1>8 DEF BeginFits
<1>9. CASE BeginCas(t) BY <1>9 DEF BeginCas
<1>10. CASE BeginClose(t) \/ BeginAdd(t) BY <1>10 DEF BeginClose, Enter, BeginAdd
<1>11. CASE OpWrite(t) \/ EndCount(t) BY <1>11 DEF OpWrite, EndCount
<1>12. CASE EndSub(t) \/ EndLoad(t) BY <1>12 DEF EndSub, EndLoad
<1>13. CASE CommitCall(t) BY <1>13 DEF CommitCall
<1>14. CASE CommitLock(t) \/ CheckpointLock(t) BY <1>14 DEF CommitLock, CheckpointLock
<1>15. CASE Return(t) BY <1>15 DEF Return
<1>16. CASE CommitIfOlder(t) BY <1>16 DEF CommitIfOlder, Enter
<1>17. CASE RunLater(t) BY <1>17 DEF RunLater, WaitLabel, Jobs, Calls
<1>18. CASE RunStart(t) BY <1>18 DEF RunStart
<1>19. CASE RunIo(t) BY <1>19 DEF RunIo
<1>20. CASE SpuriousWake(t) BY <1>20 DEF SpuriousWake
<1> QED BY <1>1, <1>2, <1>3, <1>4, <1>5, <1>6, <1>7, <1>8, <1>9, <1>10, <1>11, <1>12,
           <1>13, <1>14, <1>15, <1>16, <1>17, <1>18, <1>19, <1>20 DEF Step

\* A thread stays inside its call while another one takes a step.
LEMMA CallOthers ==
  ASSUME TypeOK, NEW t \in Threads, Step(t), NEW u \in Threads, u # t
  PROVE  /\ InCommit(u)' => InCommit(u)
         /\ InCheckpoint(u)' => InCheckpoint(u)
         /\ Kept(u)
         /\ pc'[u] = "c_ok" => pc[u] = "c_ok"
         /\ pc'[u] = "k_ok" => pc[u] = "k_ok"
<1>1. Woken(u) /\ job'[u] = job[u] /\ Kept(u) BY OthersStep DEF Kept
<1> QED BY <1>1 DEF Woken, InCommit, InCheckpoint, InCall, Runner

\* What is durable stays so, and a checkpoint counts only when disk.img holds
\* every operation that has ended.
LEMMA DurableStep ==
  ASSUME TypeOK, HistoryInv, NEW t \in Threads, Step(t)
  PROVE  /\ logged \subseteq logged' /\ imaged \subseteq imaged'
         /\ checkpoints_done' # checkpoints_done => 1..ended \subseteq imaged
<1>1. CASE Quiet BY <1>1 DEF Quiet
<1>2. CASE EndCount(t) \/ RunStart(t) \/ RunFail(t)
  BY <1>2 DEF EndCount, RunStart, RunFail, journal, history
<1>3. CASE RunIo(t) BY <1>3 DEF RunIo, journal
<1>4. CASE RunPublish(t)
  <2>1. CASE job[t].result = "checkpointed"
    BY <1>4, <2>1 DEF RunPublish, From, HistoryInv
  <2>2. CASE job[t].result # "checkpointed"
    BY <1>4, <2>2 DEF RunPublish, TypeOK
  <2> QED BY <2>1, <2>2
<1> QED BY <1>1, <1>2, <1>3, <1>4, QuietStep

\* commit() and checkpoint() return only when what they were called for is done.
LEMMA CallStep ==
  ASSUME TypeOK, HistoryInv, CallInv, NEW t \in Threads, Step(t), TypeOK'
  PROVE  CallInv'
<1> SUFFICES ASSUME NEW u \in Threads
             PROVE  /\ InCommit(u)' => called'[u] <= target'[u]
                    /\ InCheckpoint(u)' =>
                          (checkpoints_done' >= target'[u] => 1..called'[u] \subseteq imaged')
                    /\ pc'[u] = "c_ok" => 1..called'[u] \subseteq logged'
                    /\ pc'[u] = "k_ok" => 1..called'[u] \subseteq imaged'
  BY DEF CallInv, InCommit, InCheckpoint
<1>0. /\ InCommit(u) => called[u] <= target[u]
      /\ InCheckpoint(u) => (checkpoints_done >= target[u] => 1..called[u] \subseteq imaged)
      /\ pc[u] = "c_ok" => 1..called[u] \subseteq logged
      /\ pc[u] = "k_ok" => 1..called[u] \subseteq imaged
      /\ called[u] <= ended
  BY DEF CallInv, InCommit, InCheckpoint, HistoryInv
<1>1. InCheckpoint(u) /\ Kept(u) =>
         (checkpoints_done' >= target'[u] => 1..called'[u] \subseteq imaged')
  <2>1. CASE checkpoints_done' = checkpoints_done BY <1>0, <2>1, DurableStep DEF Kept
  <2>2. CASE checkpoints_done' # checkpoints_done
    <3>1. 1..called[u] \subseteq 1..ended BY <1>0 DEF TypeOK
    <3> QED BY <2>2, <3>1, DurableStep DEF Kept
  <2> QED BY <2>1, <2>2
<1>2. CASE u # t BY <1>0, <1>1, <1>2, CallOthers, DurableStep DEF Kept
<1>3. CASE u = t
  <2>1. InCommit(t)' => called'[t] <= target'[t]
    <3>1. CASE CommitLock(t) BY <1>0, <1>3, <3>1 DEF CommitLock, TypeOK, history
    <3> QED BY <1>0, <1>3, <3>1, CallSelf DEF Kept
  <2>2. InCheckpoint(t)' =>
           (checkpoints_done' >= target'[t] => 1..called'[t] \subseteq imaged')
    <3>1. CASE CheckpointLock(t)
      <4>1. target'[t] = checkpoints_done + 1 /\ checkpoints_done' = checkpoints_done
        BY <3>1 DEF CheckpointLock, TypeOK, journal
      <4> QED BY <4>1 DEF TypeOK
    <3> QED BY <1>1, <1>3, <3>1, CallSelf
  <2>3. ASSUME pc'[t] = "c_ok" PROVE 1..called'[t] \subseteq logged'
    <3>1. CommitTop(t) BY <2>3, ArrivesStep DEF Arrives
    <3>2. /\ InCommit(t) /\ committed_through >= target[t]
          /\ called' = called /\ logged' = logged
      BY <2>3, <3>1 DEF CommitTop, Under, From, Leave, Enter, Goto, TypeOK, InCommit, InCall,
                        history
    <3>3. 1..called[t] \subseteq 1..committed_through BY <1>0, <1>3, <3>2 DEF TypeOK
    <3> QED BY <3>2, <3>3 DEF HistoryInv
  <2>4. ASSUME pc'[t] = "k_ok" PROVE 1..called'[t] \subseteq imaged'
    <3>1. CheckpointTop(t) BY <2>4, ArrivesStep DEF Arrives
    <3>2. /\ InCheckpoint(t) /\ checkpoints_done >= target[t]
          /\ called' = called /\ imaged' = imaged
      BY <2>4, <3>1 DEF CheckpointTop, Under, From, Leave, Enter, Goto, TypeOK, InCheckpoint,
                        InCall, history
    <3> QED BY <1>0, <1>3, <3>2
  <2> QED BY <1>3, <2>1, <2>2, <2>3, <2>4
<1> QED BY <1>2, <1>3

-----------------------------------------------------------------------------
(* The room in the transaction. *)

\* The blocks that may still be written can be counted.
LEMMA PromisedFinite ==
  /\ IsFiniteSet(Promised)
  /\ Cardinality(Promised) \in Nat /\ Cardinality(Clients) \in Nat
<1>0. IsFiniteSet(1..MaxOp) BY Limits, FS_Interval
<1>1. IsFiniteSet(Threads \X (1..MaxOp)) BY <1>0, OpsFinite, FS_Product
<1>2. IsFiniteSet(Promised) BY <1>1, FS_Subset DEF Promised
<1> QED BY <1>2, ClientsFinite, FS_CardinalityType

\* The flusher only ever ticks.
LEMMA FlusherStep ==
  ASSUME TypeOK, RoomInv, NEW t \in Threads, Step(t), t = Flusher => Ticks(t)
  PROVE  /\ pc'[Flusher] \in {"idle", "run"} \cup Runner
         /\ pc'[Flusher] # "idle" => job'[Flusher].call = "tick"
<1> USE DEF RoomInv, TypeOK
<1>1. Flusher \in Threads BY DEF Threads
<1>2. CASE t # Flusher BY <1>1, <1>2, OthersStep DEF Woken, Runner
<1>3. CASE t = Flusher
  <2> USE <1>1, <1>3 DEF From, Goto, Runner
  <2>1. CASE CommitIfOlder(t) BY <2>1 DEF CommitIfOlder, Enter, Job
  <2>2. CASE RunLater(t) BY <2>2 DEF RunLater, WaitLabel, Calls
  <2>3. CASE RunStart(t) BY <2>3 DEF RunStart, Job
  <2>4. CASE RunIo(t) BY <2>4 DEF RunIo, Job
  <2>5. CASE RunPublish(t) BY <2>5 DEF RunPublish, WakeAll, TopLabel, Calls
  <2>6. CASE RunFail(t) BY <2>6 DEF RunFail, WakeAll
  <2>7. CASE SpuriousWake(t) BY <2>7 DEF SpuriousWake
  <2> QED BY <1>3, <2>1, <2>2, <2>3, <2>4, <2>5, <2>6, <2>7 DEF Ticks, Run
<1> QED BY <1>2, <1>3

\* A transaction grows by what an operation writes, and else is only emptied.
LEMMA TxnStep ==
  ASSUME TypeOK, NEW t \in Threads, Step(t)
  PROVE  /\ OpWrite(t) \/ (txn_count' <= txn_count /\ txn_count' \in Nat)
         /\ \A u \in Threads : u # t => wrote'[u] = wrote[u]
         /\ pc[t] = "op" /\ pc'[t] = "op" => wrote'[t] >= wrote[t]
<1> USE DEF TypeOK, locals, From, Goto
<1>1. CASE EndCount(t) BY <1>1 DEF EndCount
<1>2. CASE OpWrite(t) BY <1>2 DEF OpWrite
<1>3. CASE RunStart(t) BY <1>3 DEF RunStart
<1>4. CASE ~(EndCount(t) \/ OpWrite(t) \/ RunStart(t))
  <2>1. txn_count' = txn_count /\ wrote' = wrote
    BY <1>4 DEF Step, BeginLoad, BeginFits, BeginCas, BeginTop, BeginClose, BeginAdd, EndSub, EndLoad,
         EndSlow, CommitCall, CommitLock, CommitTop, CheckpointLock, CheckpointTop, Return,
         CommitIfOlder, RunLater, RunIo, RunPublish, RunFail, SpuriousWake
  <2> QED BY <2>1
<1> QED BY <1>1, <1>2, <1>3, <1>4

\* Unless a thread passes fits(), nothing more is promised.
LEMMA PromisedStep ==
  ASSUME TypeOK, TypeOK', NEW t \in Threads, Step(t),
         pc'[t] \in Admitted => pc[t] \in Admitted
  PROVE  Promised' \subseteq Promised
<1> SUFFICES ASSUME NEW w \in Promised' PROVE w \in Promised OBVIOUS
<1>1. w \in Threads \X (1..MaxOp) /\ w[1] \in Threads /\ w[2] \in 1..MaxOp BY DEF Promised
<1>2. CASE w[1] # t
  BY <1>1, <1>2, OthersStep, TxnStep DEF Promised, Woken, Admitted
<1>3. CASE w[1] = t
  <2>1. CASE pc'[t] \in Admitted BY <1>1, <1>3, <2>1 DEF Promised
  <2>2. CASE pc'[t] = "op" /\ wrote'[t] < w[2]
    <3>1. pc[t] = "op" \/ pc[t] \in Admitted
      <4>1. pc[t] \in InOperation \/ BeginCas(t) \/ BeginAdd(t)
        BY <2>2, ArrivesStep DEF Arrives, InOperation
      <4>2. pc[t] # "e_sub"
        BY <2>2, ArrivesStep DEF Step, Arrives, TypeOK, From, Goto, BeginLoad, Call, BeginFits, BeginCas,
           BeginTop, Under, BeginClose, BeginAdd, OpWrite, EndCount, EndSub, EndLoad, EndSlow, CommitCall,
           CommitLock, CommitTop, CheckpointLock, CheckpointTop, Return, CommitIfOlder, RunLater,
           RunStart, RunIo, RunPublish, RunFail, SpuriousWake
      <4> QED BY <4>1, <4>2 DEF InOperation, Admitted, BeginCas, BeginAdd, From
    <3>2. pc[t] = "op" => wrote[t] < w[2]
      <4>1. wrote[t] \in Nat /\ wrote'[t] \in Nat /\ w[2] \in Nat BY <1>1, Limits DEF TypeOK
      <4> QED BY <2>2, <4>1, TxnStep
    <3> QED BY <1>1, <1>3, <3>1, <3>2 DEF Promised
  <2> QED BY <1>3, <2>1, <2>2 DEF Promised
<1> QED BY <1>2, <1>3

\* Whoever passes fits() leaves room for one operation in what is there.
LEMMA AdmittedStep ==
  ASSUME TypeOK, NEW t \in Threads, Step(t), pc'[t] \in Admitted, pc[t] \notin Admitted
  PROVE  txn_count + MaxOp <= MaxTxn /\ txn_count' = txn_count
<1> USE Limits DEF TypeOK
<1>a. \A n \in Nat : fits(n) => txn_count + MaxOp <= MaxTxn
  <2> SUFFICES ASSUME NEW n \in Nat, fits(n) PROVE txn_count + MaxOp <= MaxTxn OBVIOUS
  <2>1. (n + 1) * MaxOp = n * MaxOp + MaxOp /\ n * MaxOp >= 0 /\ n * MaxOp \in Nat OBVIOUS
  <2> QED BY <2>1 DEF fits
<1>1. BeginFits(t) \/ BeginTop(t) BY ArrivesStep DEF Arrives, Admitted
<1>2. CASE BeginFits(t)
  <2>1. g[t].running \in Nat /\ fits(g[t].running)
    BY <1>2 DEF BeginFits, Goto, Gates, Admitted
  <2> QED BY <1>2, <1>a, <2>1 DEF BeginFits
<1>3. CASE BeginTop(t)
  <2>1. fits(running) BY <1>3 DEF BeginTop, Goto, Leave, Enter, Admitted
  <2> QED BY <1>3, <1>a, <2>1 DEF BeginTop
<1> QED BY <1>1, <1>2, <1>3

\* What is in the transaction and what may come stay within the bound.
LEMMA RoomStep ==
  ASSUME TypeOK, TypeOK', RoomInv, NEW t \in Threads, Step(t), t = Flusher => Ticks(t)
  PROVE  RoomInv'
<1> DEFINE Bound == MaxTxn + MaxOp * (Cardinality(Clients) - 1)
<1>0. Bound \in Int /\ txn_count \in Nat /\ txn_count' \in Nat
      /\ Cardinality(Promised) \in Nat /\ Cardinality(Promised') \in Nat
      /\ IsFiniteSet(Promised) /\ IsFiniteSet(Promised')
  <2>1. (IsFiniteSet(Promised) /\ Cardinality(Promised) \in Nat)'
    BY PromisedFinite, PTL
  <2> QED BY <2>1, PromisedFinite, Limits DEF TypeOK
<1>1. txn_count' + Cardinality(Promised') <= Bound
  <2>1. CASE pc'[t] \in Admitted /\ pc[t] \notin Admitted
    <3>1. txn_count + MaxOp <= MaxTxn /\ txn_count' = txn_count BY <2>1, AdmittedStep
    <3>2. Promised' \subseteq Clients \X (1..MaxOp)
      BY FlusherStep DEF Promised, Threads, Runner, Admitted
    <3>3. /\ IsFiniteSet(Clients \X (1..MaxOp))
          /\ Cardinality(Clients \X (1..MaxOp)) = Cardinality(Clients) * MaxOp
      <4>1. IsFiniteSet(1..MaxOp) /\ Cardinality(1..MaxOp) = MaxOp BY Limits, FS_Interval
      <4> QED BY <4>1, ClientsFinite, FS_Product
    <3>4. Cardinality(Promised') <= Cardinality(Clients) * MaxOp BY <3>2, <3>3, FS_Subset
    <3>5. Bound = MaxTxn + Cardinality(Clients) * MaxOp - MaxOp BY Limits, PromisedFinite
    <3>6. Cardinality(Clients) * MaxOp \in Nat /\ MaxOp \in Nat /\ MaxTxn \in Nat BY Limits, PromisedFinite
    <3> HIDE DEF Bound
    <3> QED BY <3>1, <3>4, <3>5, <3>6, <1>0
  <2>2. CASE pc'[t] \in Admitted => pc[t] \in Admitted
    <3>1. Promised' \subseteq Promised BY <2>2, PromisedStep
    <3>2. CASE ~OpWrite(t)
      <4>1. Cardinality(Promised') <= Cardinality(Promised) BY <1>0, <3>1, FS_Subset
      <4>2. txn_count' <= txn_count BY <3>2, TxnStep
      <4> HIDE DEF Bound
      <4> QED BY <1>0, <4>1, <4>2 DEF RoomInv, Bound
    <3>3. CASE OpWrite(t)
      <4>1. txn_count' = txn_count + 1 /\ pc' = pc /\ pc[t] = "op" /\ wrote[t] < MaxOp
            /\ wrote' = [wrote EXCEPT ![t] = @ + 1] /\ wrote[t] \in Nat
        BY <3>3, Limits DEF OpWrite, From, TypeOK
      <4> DEFINE w == <<t, wrote[t] + 1>>
      <4>2. w \in Promised BY <4>1, Limits DEF Promised
      <4>3. w \notin Promised' BY <4>1, Limits DEF Promised, Admitted, TypeOK
      <4>4. Promised' \subseteq Promised \ {w} BY <3>1, <4>3
      <4>5. Cardinality(Promised \ {w}) = Cardinality(Promised) - 1 /\ IsFiniteSet(Promised \ {w})
        BY <1>0, <4>2, FS_RemoveElement
      <4>6. Cardinality(Promised') <= Cardinality(Promised) - 1 BY <4>4, <4>5, FS_Subset
      <4> HIDE DEF Bound
      <4> QED BY <1>0, <4>1, <4>6 DEF RoomInv, Bound
    <3> QED BY <3>2, <3>3
  <2> QED BY <2>1, <2>2
<1> QED BY <1>1, FlusherStep DEF RoomInv

-----------------------------------------------------------------------------
(* The theorems. *)

\* The invariant holds before the first operation.
LEMMA InitInv == Init => Inv
<1> SUFFICES ASSUME Init PROVE Inv OBVIOUS
<1> USE DEF Init
<1>1. TypeOK
  <2>1. OpenGate \in Gates /\ NoJob \in Jobs
    BY DEF Gates, OpenGate, Jobs, Job, NoJob, Calls, Results
  <2>2. "idle" \in Labels /\ 0 \in 0..MaxOp /\ 0 \in 0..MaxCalls
    BY Bounds, Limits DEF Labels
  <2> QED BY <2>1, <2>2 DEF TypeOK
<1>2. GateInv BY FS_EmptySet DEF GateInv, Ops, InOperation
<1>3. MutexInv BY NoThreadIsNone DEF MutexInv, Holder
<1>4. CommitterInv BY DEF CommitterInv, OneCommitter, Runner
<1>5. HistoryInv BY DEF HistoryInv, Runner
<1>6. CallInv BY DEF CallInv, InCall, Runner
<1>7. RoomInv
  <2>1. Promised = {} BY DEF Promised, Admitted
  <2>2. Cardinality(Promised) = 0 BY <2>1, FS_EmptySet
  <2>3. MaxOp * (Cardinality(Clients) - 1) = MaxOp * Cardinality(Clients) - MaxOp
        /\ MaxOp * Cardinality(Clients) \in Nat
    BY PromisedFinite, Limits
  <2> QED BY <2>2, <2>3, Limits DEF RoomInv, Threads
<1> QED BY <1>1, <1>2, <1>3, <1>4, <1>5, <1>6, <1>7 DEF Inv

\* Every step of the journal keeps the invariant.
LEMMA NextInv == Inv /\ [Next]_vars => Inv'
<1> SUFFICES ASSUME Inv, [Next]_vars PROVE Inv' OBVIOUS
<1>1. ASSUME NEW t \in Threads, Step(t), t = Flusher => Ticks(t) PROVE Inv'
  <2>1. TypeOK' BY <1>1, TypeStep, EndSubPositive DEF Inv
  <2>2. GateInv' /\ MutexInv' /\ CommitterInv' /\ HistoryInv'
    BY <1>1, GateStep, MutexStep, CommitterStep, HistoryStep DEF Inv
  <2>3. CallInv' BY <1>1, <2>1, CallStep DEF Inv
  <2>4. RoomInv' BY <1>1, <2>1, RoomStep DEF Inv
  <2> QED BY <2>1, <2>2, <2>3, <2>4 DEF Inv
<1>2. CASE UNCHANGED vars
  BY <1>2 DEF Inv, TypeOK, GateInv, MutexInv, CommitterInv, OneCommitter, HistoryInv, CallInv,
              InCall, Ops, RoomInv, Promised, vars, gate, journal, locals, history
<1> QED BY <1>1, <1>2, NextIsStep

\* The invariant of begin_op, end_op, commit, checkpoint and run_commit holds
\* throughout, for any number of threads.
THEOREM Invariance == Spec => []Inv
  BY InitInv, NextInv, PTL DEF Spec

\* No commit of run_commit holds half an operation.
THEOREM WholeOperations == Spec => []NoHalfOperation
<1>1. Inv => NoHalfOperation BY DEF Inv, GateInv, NoHalfOperation, Ops
<1> QED BY <1>1, Invariance, PTL

\* Two threads never write transactions to the log at the same time.
THEOREM SingleCommitter == Spec => []OneCommitter
<1>1. Inv => OneCommitter BY DEF Inv, CommitterInv
<1> QED BY <1>1, Invariance, PTL

\* commit() returns only when every operation that ended before the call is in
\* the log.
THEOREM CommitIsDurable == Spec => []CommitDurable
<1>1. Inv => CommitDurable BY DEF Inv, CallInv, CommitDurable
<1> QED BY <1>1, Invariance, PTL

\* checkpoint() returns only when it is in disk.img.
THEOREM CheckpointIsDurable == Spec => []CheckpointDurable
<1>1. Inv => CheckpointDurable BY DEF Inv, CallInv, CheckpointDurable
<1> QED BY <1>1, Invariance, PTL

\* Whatever begin_op's threads do between the check of fits() and the
\* compare-and-swap, a transaction outgrows its limit by at most one operation for
\* every client but one.
THEOREM BoundedOvershoot == Spec => []OvershootBounded
<1>1. ASSUME Inv PROVE OvershootBounded
  <2>1. {w \in Threads \X (1..MaxOp) : pc[w[1]] = "op" /\ wrote[w[1]] < w[2]} \subseteq Promised
    BY DEF Promised
  <2>2. Owed <= Cardinality(Promised) /\ Owed \in Nat
    BY <2>1, PromisedFinite, FS_Subset, FS_CardinalityType DEF Owed
  <2>3. MaxTxn + MaxOp * (Cardinality(Clients) - 1) \in Int BY Limits, PromisedFinite
  <2> QED BY <1>1, <2>2, <2>3, PromisedFinite DEF Inv, TypeOK, RoomInv, OvershootBounded
<1> QED BY <1>1, Invariance, PTL
=============================================================================
