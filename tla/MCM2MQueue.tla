---------------------------- MODULE MCM2MQueue ----------------------------
(* M2MQueue for TLC.                                                       *)
EXTENDS M2MQueue

=============================================================================
