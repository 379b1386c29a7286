---------------------------- MODULE MCLifecycle ----------------------------
(***************************************************************************)
(* Lifecycle for TLC: four threads on two slots, both shared.              *)
(***************************************************************************)
EXTENDS Lifecycle, TLC

CONSTANTS t1, t2, t3, t4

MCSlotOf == (t1 :> 1) @@ (t2 :> 1) @@ (t3 :> 2) @@ (t4 :> 2)
=============================================================================
