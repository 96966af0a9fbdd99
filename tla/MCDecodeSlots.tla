--------------------------- MODULE MCDecodeSlots ---------------------------
(* DecodeSlots for TLC: the codecs of the contexts of each run.            *)
EXTENDS PoolRefinement, TLC

H264Only == [c \in Contexts |-> "H264"]
AV1Only == [c \in Contexts |-> "AV1"]

(* Two decoders on one surface table, or one beside a JPEG encoder.        *)
TwoDecoders == [c \in Contexts |-> IF c = 1 THEN "VP8" ELSE "H264"]
DecodeAndJpeg == [c \in Contexts |-> IF c = 1 THEN "MPEG2" ELSE "JPEG"]

SurfaceSymmetry == Permutations(Surfaces)

=============================================================================
