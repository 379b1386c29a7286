---------------------------- MODULE MCCrashTest ----------------------------
(***************************************************************************)
(* CrashTest for TLC: two blocks of two sectors, every workload of a few   *)
(* operations.                                                             *)
(***************************************************************************)
EXTENDS CrashTest
=============================================================================
