---------------------------- MODULE MCFileSystem ----------------------------
(***************************************************************************)
(* FileSystem for TLC: two names, paths one or two names long, threads     *)
(* interchangeable.                                                        *)
(***************************************************************************)
EXTENDS FileSystem, TLC

CONSTANTS a, b

MCNames == {a, b}
MCPaths == {<<a>>, <<b>>, <<a, b>>}
OnePath == {<<a>>}
Symmetry == Permutations(Threads)
=============================================================================
