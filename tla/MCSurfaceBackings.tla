------------------------ MODULE MCSurfaceBackings ------------------------
(* SurfaceBackings for TLC.                                                *)
EXTENDS SurfaceBackings, TLC

ImageSymmetry == Permutations(Images)

=============================================================================
