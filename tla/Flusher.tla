------------------------------ MODULE Flusher ------------------------------
(***************************************************************************)
(* The background writer thread (src/flusher.cpp): run() waits for a       *)
(* period, or until it is kicked or stopped, and calls work_(). A step is  *)
(* what a thread does between taking m_ and giving it back, so the look at *)
(* the flags and the start of the wait are one step; notify_one comes      *)
(* after m_ has been given back and is a step of its own.                  *)
(***************************************************************************)
CONSTANT Users      \* the threads that kick or stop the flusher

VARIABLES
    fl,         \* where run() is: "none" without a thread, "done" until it is joined
    kicked,     \* kicked_
    stop,       \* stop_
    owed        \* the users that have set a flag and not called notify_one yet

vars == <<fl, kicked, stop, owed>>

Init == fl = "none" /\ kicked = FALSE /\ stop = FALSE /\ owed = {}

\* A new Flusher, started.
Start ==
    /\ fl = "none"
    /\ fl' = "look" /\ kicked' = FALSE /\ stop' = FALSE
    /\ UNCHANGED owed

\* kick(), under m_.
Kick(u) ==
    /\ u \notin owed
    /\ kicked' = TRUE /\ owed' = owed \cup {u}
    /\ UNCHANGED <<fl, stop>>

\* stop(), under m_.
Stop(u) ==
    /\ u \notin owed
    /\ stop' = TRUE /\ owed' = owed \cup {u}
    /\ UNCHANGED <<fl, kicked>>

\* notify_one: nobody but run() waits.
Notify(u) ==
    /\ u \in owed
    /\ owed' = owed \ {u}
    /\ fl' = IF fl = "waiting" THEN "woken" ELSE fl
    /\ UNCHANGED <<kicked, stop>>

\* The thread is joined, if there is one.
Join ==
    /\ fl \in {"none", "done"}
    /\ fl' = "none"
    /\ UNCHANGED <<kicked, stop, owed>>

\* Past the wait, with m_ held: leave, or clear kicked_ and go to work.
Proceed ==
    /\ fl' = IF stop THEN "done" ELSE "work"
    /\ kicked' = (stop /\ kicked)

\* Mutant: what is waited for is looked at only after waiting.
LookAfterWaiting ==
    /\ fl \in {"look", "woken"}
    /\ IF fl = "woken" THEN Proceed ELSE fl' = "waiting" /\ UNCHANGED kicked
    /\ UNCHANGED <<stop, owed>>

\* The top of the loop, or the predicate after a wake-up: it waits (again) unless
\* one of the flags is set.
Look ==
    /\ fl \in {"look", "woken"}
    /\ IF stop \/ kicked THEN Proceed ELSE fl' = "waiting" /\ UNCHANGED kicked
    /\ UNCHANGED <<stop, owed>>

\* The period is over, or the wake-up is spurious.
Wake ==
    /\ fl = "waiting"
    /\ fl' \in {"late", "woken"}
    /\ UNCHANGED <<kicked, stop, owed>>

Late == fl = "late" /\ Proceed /\ UNCHANGED <<stop, owed>>

\* work_() ran, or threw. A commit it made may have called kick().
Work ==
    /\ fl = "work"
    /\ fl' = "look"
    /\ kicked' \in {kicked, TRUE}
    /\ UNCHANGED <<stop, owed>>

Run == Look \/ Late \/ Work
=============================================================================
