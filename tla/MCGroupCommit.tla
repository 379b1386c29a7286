--------------------------- MODULE MCGroupCommit ---------------------------
(***************************************************************************)
(* GroupCommit for TLC: clients are model values and interchangeable.      *)
(***************************************************************************)
EXTENDS GroupCommit, TLC

Symmetry == Permutations(Clients)
=============================================================================
