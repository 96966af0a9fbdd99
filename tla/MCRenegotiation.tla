-------------------------- MODULE MCRenegotiation --------------------------
EXTENDS Renegotiation

All == [size : {1, 2}, depth : {8, 10}]
Eight == [size : {1, 2}, depth : {8}]
Large == [size : {2}, depth : {8, 10}]

(* Streams that stay inside what the code supports: no change of depth in  *)
(* H.264, no growth in AV1.                                                *)
MCStreams == [H264 |-> Eight, MPEG2 |-> Eight, HEVC |-> All, AV1 |-> Large]
Av1Grows == [AV1 |-> Eight]
H264Deepens == [H264 |-> All]
=============================================================================
