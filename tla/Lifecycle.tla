----------------------------- MODULE Lifecycle -----------------------------
(***************************************************************************)
(* A mounted file system from vfs_mount to vfs_unmount: the mount gate     *)
(* with the flusher thread that Storage starts and stops. What MountGate   *)
(* does in the one step Mount is here the making of the storage, the start *)
(* of the flusher and the loading of the allocator's bitmaps; what it does *)
(* in Destroy is Storage::close: stop the flusher, join it, close the      *)
(* journal. Calls kick the flusher.                                        *)
(***************************************************************************)
EXTENDS MountGate

VARIABLES
    fl, kicked, stop, owed,     \* the flusher
    journal,    \* "none", "open" or "closed" (the checkpoint made, the image marked clean)
    step        \* where a mount or an unmount is, within MountGate's step

F == INSTANCE Flusher WITH Users <- Threads

flusher == <<fl, kicked, stop, owed>>
own == <<journal, step>>
all == <<vars, flusher, own>>

LifeInit == Init /\ F!Init /\ journal = "none" /\ step = "start"

-----------------------------------------------------------------------------
(* Calls *)

\* kick_if_dirty, in a write or a commit of the call; kick_ is set if there is a flusher.
KickIfDirty(t) ==
    /\ pc[t] = "in" /\ fl # "none"
    /\ F!Kick(t)
    /\ UNCHANGED <<vars, own>>

NotifyOne(t) == F!Notify(t) /\ UNCHANGED <<vars, own>>

CallStep(t) ==
    /\ t \notin owed
    /\ Look(t) \/ Back(t) \/ Leave(t)
    /\ UNCHANGED <<flusher, own>>

-----------------------------------------------------------------------------
(* vfs_mount *)

\* Mutant: g_fs is set as soon as there is a storage.
MakeStorageEarly(t) ==
    /\ pc[t] = "mount" /\ ~mounted /\ step = "start"
    /\ journal' = "open" /\ step' = "load"
    /\ mounted' = TRUE
    /\ F!Start \/ UNCHANGED flusher
    /\ UNCHANGED <<n, closed, change, at, pc>>

\* Storage::Impl is made, with a flusher or without ...
MakeStorage(t) ==
    /\ pc[t] = "mount" /\ ~mounted /\ step = "start"
    /\ journal' = "open" /\ step' = "load"
    /\ F!Start \/ UNCHANGED flusher
    /\ UNCHANGED vars

\* ... and the allocator; if its bitmaps cannot be read, ~Storage closes what was made.
LoadFails(t) ==
    /\ pc[t] = "mount" /\ step = "load"
    /\ step' = "stop"
    /\ UNCHANGED <<vars, flusher, journal>>

\* The mount is made, or the call returns an error.
MountStep(t) ==
    /\ Mount(t)
    /\ \/ step = "load" /\ mounted'
       \/ step \in {"start", "closed"} /\ ~mounted'
       \/ mounted /\ step = "start" /\ mounted'
    /\ step' = "start"
    /\ journal' = IF step = "closed" THEN "none" ELSE journal
    /\ UNCHANGED flusher

-----------------------------------------------------------------------------
(* vfs_unmount, and Storage::close *)

GateStep(t) ==
    /\ Open(t) \/ Refused(t) \/ Unmount(t) \/ Drain(t)
    /\ UNCHANGED <<flusher, own>>

TakeStep(t) == Take(t) /\ step' = "stop" /\ UNCHANGED <<flusher, journal>>

Closing(t) == pc[t] \in {"mount", "destroy"} /\ change = t

\* flusher->stop(), if there is one
StopFlusher(t) ==
    /\ Closing(t) /\ step = "stop"
    /\ IF fl = "none" THEN UNCHANGED flusher ELSE F!Stop(t)
    /\ step' = "join"
    /\ UNCHANGED <<vars, journal>>

\* Mutant: stop() does not wait for the thread.
JoinNotWaiting(t) ==
    /\ Closing(t) /\ step = "join" /\ t \notin owed
    /\ UNCHANGED flusher
    /\ step' = "close"
    /\ UNCHANGED <<vars, journal>>

JoinFlusher(t) ==
    /\ Closing(t) /\ step = "join" /\ t \notin owed
    /\ F!Join
    /\ step' = "close"
    /\ UNCHANGED <<vars, journal>>

\* JournalImpl::close: checkpoint, mark the image clean. Its commit may kick the
\* flusher that has been stopped.
CloseJournal(t) ==
    /\ Closing(t) /\ step = "close"
    /\ journal' = "closed" /\ step' = "closed"
    /\ kicked' \in {kicked, TRUE}
    /\ UNCHANGED <<vars, fl, stop, owed>>

\* ~FileSystem
DestroyStep(t) ==
    /\ Destroy(t)
    /\ step = "closed"
    /\ step' = "start" /\ journal' = "none"
    /\ UNCHANGED flusher

-----------------------------------------------------------------------------
ChangeStep(t) ==
    \/ MakeStorage(t) \/ LoadFails(t) \/ MountStep(t) \/ GateStep(t) \/ TakeStep(t)
    \/ StopFlusher(t) \/ JoinFlusher(t) \/ CloseJournal(t) \/ DestroyStep(t)

Enters(t) == (Enter(t) \/ Lock(t)) /\ UNCHANGED <<flusher, own>>

FlusherStep == F!Run /\ UNCHANGED <<vars, own>>
FlusherWakes == F!Wake /\ UNCHANGED <<vars, own>>

LifeNext ==
    \/ \E t \in Threads : Enters(t) \/ CallStep(t) \/ KickIfDirty(t) \/ NotifyOne(t) \/ ChangeStep(t)
    \/ FlusherStep \/ FlusherWakes

\* As for the gate, where a call kicks finitely often on its way and then returns
\* (so SF); and the flusher's thread runs when it can. That its period ends is
\* not assumed: a kick and a stop must not depend on it.
LifeSpec ==
    /\ LifeInit /\ [][LifeNext]_all
    /\ \A t \in Threads : SF_all(CallStep(t)) /\ WF_all(NotifyOne(t)) /\ WF_all(ChangeStep(t))
    /\ WF_all(FlusherStep)

-----------------------------------------------------------------------------
(* Properties *)

\* What is inside a mount or an unmount is invisible to the gate: every step is one
\* of MountGate's or leaves it alone, so what is proved of the gate holds here.
ImplementsMountGate == Spec

\* The comment "last: stopped before the rest goes", and flusher.h's "Lets a work()
\* in progress finish, then joins the thread": the thread touches the journal and
\* the cache only while they are there and open, and is gone when they are closed.
FlusherWithin ==
    /\ fl # "none" => journal = "open"
    /\ journal # "open" => \A t \in Threads : pc[t] # "in"

\* "work() runs ... soon after kick()": a kick that finds a flusher is followed by
\* work even if no period ever ends, or by a stop.
KickServed == kicked /\ fl # "none" /\ ~stop ~> fl = "work" \/ stop
=============================================================================
