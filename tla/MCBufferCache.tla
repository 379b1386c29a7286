--------------------------- MODULE MCBufferCache ---------------------------
(***************************************************************************)
(* BufferCache for TLC: clients, blocks and frames are interchangeable.    *)
(***************************************************************************)
EXTENDS BufferCache, TLC

Symmetry == Permutations(Clients) \cup Permutations(Blocks) \cup Permutations(FrameIds)
=============================================================================
