----------------------------- MODULE MountGate -----------------------------
(***************************************************************************)
(* Mounting and unmounting while calls are made (class MountGate, with_fs, *)
(* vfs_mount and vfs_unmount of src/vfs.cpp). Every call counts itself in, *)
(* in a slot it may share, and then looks whether the gate is closed;      *)
(* unmount closes the gate and then looks at one slot after another. No    *)
(* lock is taken by a call.                                                *)
(*                                                                         *)
(* A step is one access of an atomic, or what is done holding `change`.    *)
(***************************************************************************)
EXTENDS Integers, FiniteSets

CONSTANTS
    Threads, NoThread,
    NSlots,     \* SLOTS
    SlotOf      \* my_slot: threads may share a slot

Slots == 1..NSlots

ASSUME ThreadsAssumption == IsFiniteSet(Threads) /\ NoThread \notin Threads
ASSUME SlotsAssumption == NSlots \in Nat \ {0} /\ SlotOf \in [Threads -> Slots]

VARIABLES
    n,          \* slots_: the calls counted in
    closed,     \* closed_
    mounted,    \* g_fs is set
    change,     \* who holds MountGate::change
    at,         \* the slot close_and_drain looks at
    pc

vars == <<n, closed, mounted, change, at, pc>>

Init ==
    /\ n = [s \in Slots |-> 0]
    /\ closed = TRUE /\ mounted = FALSE
    /\ change = NoThread /\ at = 1
    /\ pc = [t \in Threads |-> "idle"]

Goto(t, label) == pc' = [pc EXCEPT ![t] = label]

-----------------------------------------------------------------------------
(* A call *)

\* enter counts the call ...
Enter(t) ==
    /\ pc[t] = "idle"
    /\ n' = [n EXCEPT ![SlotOf[t]] = @ + 1]
    /\ Goto(t, "look")
    /\ UNCHANGED <<closed, mounted, change, at>>

\* ... and then looks at the gate.
Look(t) ==
    /\ pc[t] = "look"
    /\ Goto(t, IF closed THEN "back" ELSE "in")
    /\ UNCHANGED <<n, closed, mounted, change, at>>

\* Mutants: a call that is refused, or one that has run, stays counted.
BackCounted(t) ==
    /\ pc[t] = "back"
    /\ Goto(t, "idle")
    /\ UNCHANGED <<n, closed, mounted, change, at>>
LeaveCounted(t) ==
    /\ pc[t] = "in"
    /\ Goto(t, "idle")
    /\ UNCHANGED <<n, closed, mounted, change, at>>

Back(t) ==
    /\ pc[t] = "back"
    /\ n' = [n EXCEPT ![SlotOf[t]] = @ - 1]
    /\ Goto(t, "idle")
    /\ UNCHANGED <<closed, mounted, change, at>>

\* The call has run on *g_fs; ~CallScope.
Leave(t) ==
    /\ pc[t] = "in"
    /\ n' = [n EXCEPT ![SlotOf[t]] = @ - 1]
    /\ Goto(t, "idle")
    /\ UNCHANGED <<closed, mounted, change, at>>

-----------------------------------------------------------------------------
(* vfs_mount and vfs_unmount, one at a time *)

Lock(t) ==
    /\ pc[t] = "idle" /\ change = NoThread
    /\ change' = t
    /\ \E label \in {"mount", "unmount"} : Goto(t, label)
    /\ UNCHANGED <<n, closed, mounted, at>>

Return(t) == change' = NoThread /\ Goto(t, "idle")

\* The FileSystem is made, which may fail, with the gate still closed.
Mount(t) ==
    /\ pc[t] = "mount"
    /\ \/ Return(t) /\ UNCHANGED mounted
       \/ /\ ~mounted
          /\ mounted' = TRUE
          /\ Goto(t, "open")
          /\ UNCHANGED change
    /\ UNCHANGED <<n, closed, at>>

Open(t) ==
    /\ pc[t] = "open"
    /\ closed' = FALSE
    /\ Return(t)
    /\ UNCHANGED <<n, mounted, at>>

Refused(t) ==
    /\ pc[t] = "unmount" /\ ~mounted
    /\ Return(t)
    /\ UNCHANGED <<n, closed, mounted, at>>

\* Mutant: the slots are looked at before the gate is closed.
UnmountLate(t) ==
    /\ pc[t] = "unmount" /\ mounted
    /\ at' = 1
    /\ Goto(t, "drain")
    /\ UNCHANGED <<n, closed, mounted, change>>

\* close_and_drain closes the gate ...
Unmount(t) ==
    /\ pc[t] = "unmount" /\ mounted
    /\ closed' = TRUE /\ at' = 1
    /\ Goto(t, "drain")
    /\ UNCHANGED <<n, mounted, change>>

\* ... and waits at each slot until it reads zero; not again at one it has left.
Drain(t) ==
    /\ pc[t] = "drain" /\ n[at] = 0
    /\ at' = at + 1
    /\ Goto(t, IF at = NSlots THEN "take" ELSE "drain")
    /\ UNCHANGED <<n, closed, mounted, change>>

Take(t) ==
    /\ pc[t] = "take"
    /\ mounted' = FALSE
    /\ Goto(t, "destroy")
    /\ UNCHANGED <<n, closed, change, at>>

\* The open files are dropped, the storage closed and the FileSystem destroyed.
Destroy(t) ==
    /\ pc[t] = "destroy"
    /\ Return(t)
    /\ UNCHANGED <<n, closed, mounted, at>>

-----------------------------------------------------------------------------
Call(t) == Look(t) \/ Back(t) \/ Leave(t)
Change(t) == Mount(t) \/ Open(t) \/ Refused(t) \/ Unmount(t) \/ Drain(t) \/ Take(t) \/ Destroy(t)

Next == \E t \in Threads : Enter(t) \/ Call(t) \/ Lock(t) \/ Change(t)

Spec == Init /\ [][Next]_vars

\* What has begun goes on: a call returns (FileSystem!CallsReturn), and whoever
\* mounts or unmounts takes the next step that can be taken.
FairSpec == Spec /\ \A t \in Threads : WF_vars(Call(t)) /\ WF_vars(Change(t))

-----------------------------------------------------------------------------
(* Properties *)

Changing == {"mount", "open", "unmount", "drain", "take", "destroy"}

\* The type of every variable.
TypeOK ==
    /\ n \in [Slots -> Nat]
    /\ closed \in BOOLEAN /\ mounted \in BOOLEAN
    /\ change \in Threads \cup {NoThread}
    /\ at \in 1..(NSlots + 1)
    /\ pc \in [Threads -> {"idle", "look", "back", "in"} \cup Changing]

\* A slot holds the number of calls between their fetch_add and fetch_sub.
Counting(s) == {t \in Threads : SlotOf[t] = s /\ pc[t] \in {"look", "back", "in"}}
Counted == \A s \in Slots : n[s] = Cardinality(Counting(s))

Alone == \A t \in Threads : pc[t] \in Changing <=> change = t

\* The gate is open only while something is mounted, and nobody changes that.
GateClosed ==
    /\ ~closed => mounted
    /\ \A t \in Threads : /\ pc[t] \in {"open", "drain", "take"} => closed /\ mounted
                          /\ pc[t] = "destroy" => closed /\ ~mounted

\* No call is left in a slot that close_and_drain has gone past.
Drained ==
    \A t, u \in Threads : pc[t] = "in" /\ pc[u] = "drain" => at <= SlotOf[t]

DrainAt == \A t \in Threads : pc[t] = "drain" => at \in Slots

\* The comment of MountGate, "Why no call slips past a closing gate": while a
\* call runs, g_fs is set, and no thread is making it, taking it or destroying
\* what it pointed to.
NoCallMeetsChange ==
    \A t \in Threads : pc[t] = "in" =>
        mounted /\ \A u \in Threads : pc[u] \notin {"open", "take", "destroy"}

\* What every step of the gate keeps true.
Inv == /\ TypeOK /\ Counted /\ Alone /\ GateClosed /\ Drained /\ DrainAt
       /\ NoCallMeetsChange

\* Once calls stop coming, unmount returns. (While they keep coming it may not: a
\* call that is refused is in its slot for a moment, and a slot that several
\* threads use may be seen so every time.)
UnmountReturns ==
    <>[][\A t \in Threads : ~Enter(t)]_vars
        => \A t \in Threads : pc[t] = "drain" ~> pc[t] = "idle"
=============================================================================
