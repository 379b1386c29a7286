----------------------------- MODULE AtomicStore -----------------------------
(***************************************************************************)
(* What the journal promises the file system above it: an array of blocks  *)
(* that operations change in memory, and a durable copy that only changes  *)
(* by a whole transaction - a set of whole operations - at a time. A crash *)
(* leaves the durable copy, or that copy with the one transaction that was *)
(* being committed: never part of it, and never without one whose commit   *)
(* has returned.                                                           *)
(***************************************************************************)
EXTENDS Naturals

CONSTANTS Blocks, Values

VARIABLES
    mem,        \* what a read returns
    stable,     \* what a crash leaves
    running,    \* operations between begin_op and end_op
    phase       \* "up", "committing", or "down" after a crash or an unmount

vars == <<mem, stable, running, phase>>

Images == [Blocks -> Values]

Init == /\ mem \in Images
        /\ stable = mem
        /\ running = 0
        /\ phase = "down"

Begin == /\ phase = "up"
         /\ running' = running + 1
         /\ UNCHANGED <<mem, stable, phase>>

Write(b, v) == /\ phase = "up" /\ running > 0
               /\ mem' = [mem EXCEPT ![b] = v]
               /\ UNCHANGED <<stable, running, phase>>

End == /\ phase = "up" /\ running > 0
       /\ running' = running - 1
       /\ UNCHANGED <<mem, stable, phase>>

\* No operation runs while one commits.
BeginCommit == /\ phase = "up" /\ running = 0
               /\ phase' = "committing"
               /\ UNCHANGED <<mem, stable, running>>

EndCommit == /\ phase = "committing"
             /\ stable' = mem
             /\ phase' = "up"
             /\ UNCHANGED <<mem, running>>

Crash == /\ phase' = "down"
         /\ running' = 0
         /\ stable' \in {stable} \cup (IF phase = "committing" THEN {mem} ELSE {})
         /\ mem' = stable'

Mount == /\ phase = "down"
         /\ phase' = "up"
         /\ UNCHANGED <<mem, stable, running>>

Next == \/ Begin \/ End \/ BeginCommit \/ EndCommit \/ Crash \/ Mount
        \/ \E b \in Blocks, v \in Values : Write(b, v)

Spec == Init /\ [][Next]_vars
=============================================================================
