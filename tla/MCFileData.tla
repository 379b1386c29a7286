----------------------------- MODULE MCFileData -----------------------------
(***************************************************************************)
(* FileData for TLC: three names and two descriptors on a disk that is soon *)
(* full, where the directory grows twice.                                  *)
(***************************************************************************)
EXTENDS FileData

CONSTANT Total

MCsb == plan_layout(Total, 5)
MCSeeks == {-1, 7, 9}
=============================================================================
