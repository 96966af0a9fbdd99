---------------------------- MODULE MCProbeCache ----------------------------
(* ProbeCache for TLC: two boots of a board whose nodes change numbers.    *)
EXTENDS ProbeCache, TLC

OwnPid == [t \in Threads |-> t]
OnePid == [t \in Threads |-> 1]

(* A decoder, a decoder whose media node refuses requests, a JPEG encoder  *)
(* and a converter.                                                        *)
Decoder == [m2m |-> TRUE, out |-> {"h264"}, cap |-> {"raw"}, rotate |-> FALSE,
            request |-> TRUE]
Stub == [Decoder EXCEPT !.request = FALSE]
Encoder == [m2m |-> TRUE, out |-> {"raw"}, cap |-> {"jpeg"}, rotate |-> TRUE,
            request |-> FALSE]
Converter == [Encoder EXCEPT !.cap = {"raw"}]

TwoBoots == << <<Stub, Decoder, Encoder>>, <<Encoder, Converter, Decoder>> >>

=============================================================================
