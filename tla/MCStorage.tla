----------------------------- MODULE MCStorage -----------------------------
(***************************************************************************)
(* Storage for TLC: blocks and contents are model values; blocks are       *)
(* interchangeable, and so are contents other than Zero.                   *)
(***************************************************************************)
EXTENDS Storage, TLC

Symmetry == Permutations(Blocks) \cup Permutations(Values \ {Zero})
=============================================================================
