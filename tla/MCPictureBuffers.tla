------------------------- MODULE MCPictureBuffers -------------------------
(* PictureBuffers for TLC.                                                 *)
EXTENDS PictureBuffers, TLC

IdSymmetry == Permutations(Contexts) \cup Permutations(Buffers)

=============================================================================
