-------------------------- MODULE LifecycleProofs --------------------------
(***************************************************************************)
(* Proofs about module MountGate, and module Lifecycle that extends it,    *)
(* for any number of threads and slots.                                    *)
(*                                                                         *)
(* No call slips past a closing gate. The argument of the code's comment,  *)
(* made inductive: a slot holds the number of the calls counted in it      *)
(* (Counted), so a slot that reads zero has no call inside; one that       *)
(* enters it later finds the gate closed (GateClosed), so none is inside   *)
(* behind the drain (Drained); when the drain has gone past the last slot  *)
(* there is none at all.                                                   *)
(*                                                                         *)
(* Lifecycle implements MountGate, so what is proved of the gate holds of  *)
(* it, and the flusher's thread lives within the life of what it works on. *)
(***************************************************************************)
EXTENDS Lifecycle, FiniteSetTheorems, TLAPS

InCall == {"look", "back", "in"}

\* The invariant but for the counts, which need facts about cardinality.
Rest == TypeOK /\ Alone /\ GateClosed /\ Drained /\ DrainAt /\ NoCallMeetsChange

\* The threads counted in a slot are finitely many.
LEMMA CountingFinite == \A s \in Slots : IsFiniteSet(Counting(s))
<1>1. SUFFICES ASSUME NEW s \in Slots PROVE IsFiniteSet(Counting(s))
  OBVIOUS
<1>2. Counting(s) \subseteq Threads
  BY DEF Counting
<1> QED
  BY <1>2, ThreadsAssumption, FS_Subset

\* A slot that reads zero has no call in it (close_and_drain).
LEMMA ZeroIsEmpty ==
    ASSUME Counted, NEW s \in Slots, n[s] = 0
    PROVE  Counting(s) = {}
<1>1. Cardinality(Counting(s)) = 0
  BY DEF Counted
<1>2. IsFiniteSet(Counting(s))
  BY CountingFinite
<1> QED
  BY <1>1, <1>2, FS_EmptySet

\* Adding a call to a slot counts it (enter).
LEMMA EnterCounts ==
    ASSUME TypeOK, Counted, NEW t \in Threads, Enter(t)
    PROVE  Counted'
<1> DEFINE k == SlotOf[t]
<1>1. k \in Slots
  BY SlotsAssumption
<1>2. SUFFICES ASSUME NEW s \in Slots PROVE n'[s] = Cardinality(Counting(s)')
  BY DEF Counted
<1>3. CASE s = k
  <2>1. Counting(s)' = Counting(s) \cup {t}
    BY <1>3 DEF Counting, Enter, Goto, TypeOK
  <2>2. t \notin Counting(s)
    BY DEF Counting, Enter
  <2>3. Cardinality(Counting(s) \cup {t}) = Cardinality(Counting(s)) + 1
    BY <2>2, CountingFinite, FS_AddElement
  <2>4. n'[s] = n[s] + 1
    BY <1>3 DEF Enter, TypeOK
  <2> QED
    BY <2>1, <2>3, <2>4 DEF Counted
<1>4. CASE s # k
  <2>1. Counting(s)' = Counting(s)
    BY <1>4 DEF Counting, Enter, Goto, TypeOK
  <2>2. n'[s] = n[s]
    BY <1>4 DEF Enter, TypeOK
  <2> QED
    BY <2>1, <2>2 DEF Counted
<1> QED
  BY <1>3, <1>4

\* Taking a call out of a slot uncounts it (enter's refusal, leave).
LEMMA LeaveCounts ==
    ASSUME TypeOK, Counted, NEW t \in Threads, Back(t) \/ Leave(t)
    PROVE  Counted' /\ n' \in [Slots -> Nat]
<1> DEFINE k == SlotOf[t]
<1>1. k \in Slots
  BY SlotsAssumption
<1>2. pc[t] \in InCall /\ pc' = [pc EXCEPT ![t] = "idle"] /\ n' = [n EXCEPT ![k] = @ - 1]
  BY DEF Back, Leave, Goto, InCall
<1>3. ASSUME NEW s \in Slots, s = k
      PROVE  n'[s] = Cardinality(Counting(s)') /\ n'[s] \in Nat
  <2>1. Counting(s)' = Counting(s) \ {t}
    BY <1>2, <1>3 DEF Counting, TypeOK
  <2>2. t \in Counting(s)
    BY <1>2, <1>3 DEF Counting, InCall
  <2>3. /\ IsFiniteSet(Counting(s) \ {t})
        /\ Cardinality(Counting(s) \ {t}) = Cardinality(Counting(s)) - 1
    BY <2>2, CountingFinite, FS_RemoveElement
  <2>4. Cardinality(Counting(s) \ {t}) \in Nat
    BY <2>3, FS_CardinalityType
  <2>5. n'[s] = n[s] - 1
    BY <1>2, <1>3 DEF TypeOK
  <2> QED
    BY <2>1, <2>3, <2>4, <2>5 DEF Counted
<1>4. ASSUME NEW s \in Slots, s # k
      PROVE  n'[s] = Cardinality(Counting(s)') /\ n'[s] \in Nat
  <2>1. Counting(s)' = Counting(s)
    BY <1>2, <1>4 DEF Counting, TypeOK
  <2>2. n'[s] = n[s]
    BY <1>2, <1>4 DEF TypeOK
  <2> QED
    BY <2>1, <2>2 DEF Counted, TypeOK
<1>5. n' = [s \in Slots |-> n'[s]]
  BY <1>2 DEF TypeOK
<1> QED
  BY <1>3, <1>4, <1>5 DEF Counted

\* A step that leaves the slots alone and moves a thread that is not in a call,
\* or stays in it, keeps the counts.
LEMMA OthersCount ==
    ASSUME TypeOK, Counted, NEW t \in Threads, NEW label, n' = n,
           pc' = [pc EXCEPT ![t] = label], pc[t] \in InCall <=> label \in InCall
    PROVE  Counted'
<1>1. ASSUME NEW s \in Slots PROVE Counting(s)' = Counting(s)
  BY DEF Counting, TypeOK, InCall
<1> QED
  BY <1>1 DEF Counted

\* The counts survive every step.
LEMMA CountsKept ==
    ASSUME TypeOK, Counted, NEW t \in Threads, Enter(t) \/ Call(t) \/ Lock(t) \/ Change(t)
    PROVE  Counted' /\ n' \in [Slots -> Nat]
<1>1. CASE Enter(t)
  <2>1. Counted'
    BY <1>1, EnterCounts
  <2>2. n' \in [Slots -> Nat]
    BY <1>1, SlotsAssumption DEF Enter, TypeOK
  <2> QED
    BY <2>1, <2>2
<1>2. CASE Look(t)
  BY <1>2, OthersCount DEF Look, Goto, InCall, TypeOK
<1>3. CASE Back(t) \/ Leave(t)
  BY <1>3, LeaveCounts
<1>4. CASE Lock(t)
  <2>1. PICK label \in {"mount", "unmount"} : Goto(t, label)
    BY <1>4 DEF Lock
  <2> QED
    BY <1>4, <2>1, OthersCount DEF Lock, Goto, InCall, TypeOK
<1>5. CASE Change(t)
  <2>1. n' = n /\ pc[t] \in Changing
    BY <1>5 DEF Change, Mount, Open, Refused, Unmount, Drain, Take, Destroy, Changing
  <2>2. \E label \in {"idle"} \cup Changing : pc' = [pc EXCEPT ![t] = label]
    BY <1>5 DEF Change, Mount, Open, Refused, Unmount, Drain, Take, Destroy, Changing,
                Return, Goto
  <2>3. PICK label \in {"idle"} \cup Changing : pc' = [pc EXCEPT ![t] = label]
    BY <2>2
  <2> QED
    BY <2>1, <2>3, OthersCount DEF InCall, Changing, TypeOK
<1> QED
  BY <1>1, <1>2, <1>3, <1>4, <1>5 DEF Call

\* What a thread in a call does leaves the rest of the invariant true.
LEMMA CallKeeps ==
    ASSUME Rest, n' \in [Slots -> Nat], NEW t \in Threads, Enter(t) \/ Call(t)
    PROVE  Rest'
<1> USE DEF Rest, TypeOK, Alone, GateClosed, Drained, DrainAt, NoCallMeetsChange, Changing, Goto
<1>1. CASE Enter(t)
  BY <1>1 DEF Enter
<1>2. CASE Look(t)
  BY <1>2 DEF Look
<1>3. CASE Back(t)
  BY <1>3 DEF Back
<1>4. CASE Leave(t)
  BY <1>4 DEF Leave
<1> QED
  BY <1>1, <1>2, <1>3, <1>4 DEF Call

\* And so does a thread that mounts or unmounts.
LEMMA ChangeKeeps ==
    ASSUME Rest, Counted, NEW t \in Threads, Lock(t) \/ Change(t)
    PROVE  Rest'
<1> USE SlotsAssumption, ThreadsAssumption
<1> USE DEF Rest, TypeOK, Alone, GateClosed, Drained, DrainAt, NoCallMeetsChange, Changing,
            Goto, Return, Slots
<1>1. CASE Lock(t)
  BY <1>1 DEF Lock
<1>2. CASE Mount(t)
  BY <1>2 DEF Mount
<1>3. CASE Open(t)
  BY <1>3 DEF Open
<1>4. CASE Refused(t)
  BY <1>4 DEF Refused
<1>5. CASE Unmount(t)
  BY <1>5 DEF Unmount
<1>6. CASE Drain(t)
  <2>1. \A u \in Threads : pc[u] = "in" => SlotOf[u] # at
    BY <1>6, ZeroIsEmpty DEF Drain, Counting
  <2> QED
    BY <1>6, <2>1 DEF Drain
<1>7. CASE Take(t)
  BY <1>7 DEF Take
<1>8. CASE Destroy(t)
  BY <1>8 DEF Destroy
<1> QED
  BY <1>1, <1>2, <1>3, <1>4, <1>5, <1>6, <1>7, <1>8 DEF Change

\* Every state of the gate satisfies the inductive invariant: slots hold the
\* calls counted in, the gate is closed whenever g_fs changes, and no call is in
\* a slot the drain has passed.
THEOREM Invariance == Spec => []Inv
<1>1. Init => Inv
  <2> SUFFICES ASSUME Init PROVE Inv
    OBVIOUS
  <2>2. \A s \in Slots : Counting(s) = {}
    BY DEF Init, Counting
  <2>3. Counted
    BY <2>2, FS_EmptySet DEF Init, Counted
  <2>4. \A t \in Threads : pc[t] = "idle"
    BY DEF Init
  <2>5. TypeOK
    <3>1. at \in 1..(NSlots + 1)
      BY SlotsAssumption DEF Init
    <3>2. n \in [Slots -> Nat]
      BY DEF Init
    <3>3. pc \in [Threads -> {"idle", "look", "back", "in"} \cup Changing]
      BY DEF Init
    <3> QED
      BY <3>1, <3>2, <3>3 DEF Init, TypeOK
  <2>6. Alone /\ GateClosed /\ Drained /\ DrainAt /\ NoCallMeetsChange
    BY <2>4, ThreadsAssumption
    DEF Init, Alone, GateClosed, Drained, DrainAt, NoCallMeetsChange, Changing
  <2> QED
    BY <2>3, <2>5, <2>6 DEF Inv
<1>2. Inv /\ [Next]_vars => Inv'
  <2>1. SUFFICES ASSUME Inv, [Next]_vars PROVE Inv'
    OBVIOUS
  <2>2. CASE Next
    <3>1. PICK t \in Threads : Enter(t) \/ Call(t) \/ Lock(t) \/ Change(t)
      BY <2>2 DEF Next
    <3>2. Rest /\ Counted
      BY <2>1 DEF Inv, Rest
    <3>3. Counted' /\ n' \in [Slots -> Nat]
      BY <3>1, <3>2, CountsKept DEF Rest
    <3>4. Rest'
      BY <3>1, <3>2, <3>3, CallKeeps, ChangeKeeps
    <3> QED
      BY <3>3, <3>4 DEF Inv, Rest
  <2>3. CASE UNCHANGED vars
    BY <2>1, <2>3 DEF vars, Inv, TypeOK, Counted, Counting, Alone, GateClosed, Drained, DrainAt,
                     NoCallMeetsChange
  <2> QED
    BY <2>1, <2>2, <2>3
<1> QED
  BY <1>1, <1>2, PTL DEF Spec

\* The comment of MountGate: no call runs while g_fs is being set, taken or
\* destroyed, however many threads share a slot.
THEOREM NoCallSlipsPast == Spec => []NoCallMeetsChange
<1>1. Inv => NoCallMeetsChange
  BY DEF Inv
<1> QED
  BY <1>1, Invariance, PTL

-----------------------------------------------------------------------------
(* Lifecycle *)

\* Where Storage is, between the mount's first step and the unmount's last:
\* g_fs is set only while the journal is open and nobody is changing that, and the
\* thread has been joined by the time the journal is closed.
StorageInv ==
    /\ mounted => step = "start" /\ journal = "open"
    /\ step = "start" /\ ~mounted => journal = "none"
    /\ step \in {"load", "stop", "join", "close"} => journal = "open"
    /\ step = "closed" => journal = "closed"
    /\ step \in {"start", "load", "stop", "join", "close", "closed"}
    /\ step \in {"close", "closed"} => fl = "none"
    /\ journal = "none" => fl = "none"

\* Every step of Lifecycle is one of MountGate's, or one that the gate does not see.
LEMMA StepSimulation == [LifeNext]_all => [Next]_vars
<1> SUFFICES ASSUME [LifeNext]_all PROVE [Next]_vars OBVIOUS
<1>1. ASSUME NEW t \in Threads, Enters(t) \/ CallStep(t) PROVE Next
  BY <1>1 DEF Enters, CallStep, Next, Call
<1>2. ASSUME NEW t \in Threads, KickIfDirty(t) \/ NotifyOne(t) PROVE UNCHANGED vars
  BY <1>2 DEF KickIfDirty, NotifyOne
<1>3. ASSUME NEW t \in Threads, ChangeStep(t) PROVE [Next]_vars
  <2>1. CASE MountStep(t) \/ GateStep(t) \/ TakeStep(t) \/ DestroyStep(t)
    BY <2>1 DEF MountStep, GateStep, TakeStep, DestroyStep, Next, Change
  <2>2. CASE MakeStorage(t) \/ LoadFails(t) \/ StopFlusher(t) \/ JoinFlusher(t) \/ CloseJournal(t)
    BY <2>2 DEF MakeStorage, LoadFails, StopFlusher, JoinFlusher, CloseJournal
  <2> QED BY <1>3, <2>1, <2>2 DEF ChangeStep
<1>4. CASE FlusherStep \/ FlusherWakes BY <1>4 DEF FlusherStep, FlusherWakes
<1>5. CASE UNCHANGED all BY <1>5 DEF all
<1> QED BY <1>1, <1>2, <1>3, <1>4, <1>5 DEF LifeNext

\* Mounting, unmounting and the flusher's life are invisible to the calls: every
\* behaviour of Lifecycle is one of MountGate.
THEOREM Refinement == LifeSpec => ImplementsMountGate
<1>1. LifeInit => Init BY DEF LifeInit
<1> QED BY <1>1, StepSimulation, PTL DEF LifeSpec, ImplementsMountGate, Spec

\* What is proved of MountGate alone holds with the flusher at work: no call meets
\* the making, taking or destroying of g_fs.
THEOREM LifeNoCallMeetsChange == LifeSpec => []NoCallMeetsChange
  BY Refinement, NoCallSlipsPast, PTL DEF ImplementsMountGate

\* The flusher's own steps neither make nor end its thread.
LEMMA FlusherKeeps ==
  ASSUME StorageInv, FlusherStep \/ FlusherWakes
  PROVE  StorageInv'
<1>1. fl # "none" /\ fl' # "none" /\ UNCHANGED <<mounted, journal, step>>
  BY DEF FlusherStep, FlusherWakes, F!Run, F!Look, F!Late, F!Work, F!Wake, F!Proceed, vars, own
<1> QED BY <1>1 DEF StorageInv

\* Nor does a call.
LEMMA CallsKeep ==
  ASSUME StorageInv, NEW t \in Threads,
         Enters(t) \/ CallStep(t) \/ KickIfDirty(t) \/ NotifyOne(t)
  PROVE  StorageInv'
<1>1. UNCHANGED <<mounted, journal, step>> /\ (fl = "none" => fl' = "none")
  <2>1. CASE Enters(t) BY <2>1 DEF Enters, Enter, Lock, flusher, own
  <2>2. CASE CallStep(t) BY <2>2 DEF CallStep, Look, Back, Leave, flusher, own
  <2>3. CASE KickIfDirty(t) BY <2>3 DEF KickIfDirty, F!Kick, vars, own
  <2>4. CASE NotifyOne(t) BY <2>4 DEF NotifyOne, F!Notify, vars, own
  <2> QED BY <2>1, <2>2, <2>3, <2>4
<1> QED BY <1>1 DEF StorageInv

\* A mount makes the journal before the thread, an unmount stops and joins the
\* thread before it closes the journal.
LEMMA ChangesKeep ==
  ASSUME StorageInv, Inv, NEW t \in Threads, ChangeStep(t)
  PROVE  StorageInv'
<1> USE DEF StorageInv
<1>1. CASE MakeStorage(t) BY <1>1 DEF MakeStorage, vars
<1>2. CASE LoadFails(t) BY <1>2 DEF LoadFails, vars, flusher
<1>3. CASE MountStep(t) BY <1>3 DEF MountStep, Mount, Return, flusher
<1>4. CASE GateStep(t) BY <1>4 DEF GateStep, Open, Refused, Unmount, Drain, flusher, own
<1>5. CASE TakeStep(t) BY <1>5 DEF TakeStep, Take, flusher, Inv, GateClosed
<1>6. CASE StopFlusher(t) BY <1>6 DEF StopFlusher, F!Stop, flusher, vars
<1>7. CASE JoinFlusher(t) BY <1>7 DEF JoinFlusher, F!Join, vars
<1>8. CASE CloseJournal(t) BY <1>8 DEF CloseJournal, vars
<1>9. CASE DestroyStep(t) BY <1>9 DEF DestroyStep, Destroy, flusher
<1> QED BY <1>1, <1>2, <1>3, <1>4, <1>5, <1>6, <1>7, <1>8, <1>9 DEF ChangeStep

\* The journal is there, open, as long as the flusher's thread is, and as long as a
\* call runs: Storage's members go in the right order.
THEOREM FlusherLivesWithin == LifeSpec => []FlusherWithin
<1>1. LifeInit => StorageInv BY DEF LifeInit, Init, F!Init, StorageInv
<1>2. Inv /\ StorageInv /\ [LifeNext]_all => StorageInv'
  <2> SUFFICES ASSUME Inv, StorageInv, [LifeNext]_all PROVE StorageInv' OBVIOUS
  <2>1. CASE UNCHANGED all BY <2>1 DEF all, vars, flusher, own, StorageInv
  <2> QED BY <2>1, FlusherKeeps, CallsKeep, ChangesKeep DEF LifeNext
<1>3. Inv /\ StorageInv => FlusherWithin
  BY DEF Inv, StorageInv, FlusherWithin, NoCallMeetsChange
<1>4. LifeSpec => []Inv BY Refinement, Invariance, PTL DEF ImplementsMountGate
<1> QED BY <1>1, <1>2, <1>3, <1>4, PTL DEF LifeSpec
=============================================================================
