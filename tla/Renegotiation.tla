--------------------------- MODULE Renegotiation ---------------------------
(***************************************************************************)
(* One decode context and the device behind it: what the driver remembers  *)
(* of the device (the sequence control it last set, the CAPTURE format,    *)
(* the plane lengths of the OUTPUT buffers, whether the queues stream, the *)
(* request) and what the device really has.  The driver skips an ioctl     *)
(* when its memory says that nothing changed, so a memory that outlives    *)
(* the thing it describes loses a picture, or every later one.             *)
(*                                                                         *)
(* A stream is a sequence of pictures, each under a sequence header.  Who  *)
(* owns the slots is left to DecodeSlots: here a queue has buffers or it   *)
(* has none.  vaEndPicture is one step per ioctl that may be refused; no   *)
(* other call runs in between, because it holds g_v4l2sl_lock.             *)
(***************************************************************************)
EXTENDS Integers

CONSTANTS
  Streams,    \* Streams[c]: the sequence headers of codec c's streams
  OutSlots,   \* indices of OUTPUT buffers
  Faults      \* the calls the kernel may refuse in this instance

Codecs == DOMAIN Streams

ASSUME StreamsAssumption ==
  \A c \in Codecs : Streams[c] \subseteq [size : Nat \ {0}, depth : Nat \ {0}]

(* A sequence header: the coded size in units that tell apart what does    *)
(* and does not fit, and the bit depth, which decides the CAPTURE fourcc.  *)
Headers == UNION {Streams[c] : c \in Codecs}
Sizes == {h.size : h \in Headers}
Depths == {h.depth : h \in Headers}
NoHeader == [size |-> 0, depth |-> 0]

(* Codecs whose sequence control also travels with every request; for the  *)
(* others the value set globally is the only one.                          *)
SequenceOnRequest == {"H264", "MPEG2"}

CaptureDeferred == {"H264"}

(* rkvdec ties the CAPTURE fourcc to the SPS in force.                     *)
DepthFollowsSequence == {"H264", "HEVC"}

VARIABLES
  codec,
  drv,   \* the context: [seq, cap, capAlloc, outAlloc, mapped, len, streamed]
  krn,   \* the device: [seq, cap, out, len]
  req,   \* request_fd: "none", "ready", or "spent" (completed, not recycled)
  call,  \* the picture under way: [at, want, faulty]
  shown, \* the last decoded picture: [want, under, cap, written]
  streak \* pictures lost in a row without anything refused in between

vars == <<codec, drv, krn, req, call, shown, streak>>

Steps == {"idle", "begun", "sequence", "ensure", "output", "capture",
          "streamon", "submit", "reinit"}

TypeOK ==
  /\ codec \in Codecs
  /\ drv \in [seq : Headers \cup {NoHeader},
              cap : [size : Sizes \cup {0}, depth : Depths \cup {0}],
              capAlloc : BOOLEAN, outAlloc : BOOLEAN, mapped : BOOLEAN,
              len : [OutSlots -> Sizes \cup {0}], streamed : BOOLEAN]
  /\ krn \in [seq : Headers \cup {NoHeader},
              cap : [size : Sizes \cup {0}, depth : Depths \cup {0}],
              out : Sizes, len : Sizes]
  /\ req \in {"none", "ready", "spent"}
  /\ call \in [at : Steps, want : Headers \cup {NoHeader}, faulty : BOOLEAN]
  /\ streak \in 0 .. 2
  \* what is between two pictures
  /\ drv.streamed => drv.capAlloc
  /\ call.at \notin {"idle", "begun"} => req # "none"

(* vaCreateContext: the OUTPUT queue at the client's size, the CAPTURE     *)
(* queue at the depth of the config, or 8 bit if that was refused.         *)
Init ==
  /\ codec \in Codecs
  /\ \E h \in Streams[codec], d \in Depths :
       LET cap == IF codec \in CaptureDeferred THEN NoHeader
                  ELSE [size |-> h.size, depth |-> d]
       IN /\ drv = [seq |-> NoHeader, cap |-> cap,
                    capAlloc |-> codec \notin CaptureDeferred,
                    outAlloc |-> TRUE, mapped |-> TRUE,
                    len |-> [k \in OutSlots |-> 0], streamed |-> FALSE]
          /\ krn = [seq |-> NoHeader, cap |-> cap, out |-> h.size, len |-> h.size]
  /\ req = "none"
  /\ call = [at |-> "idle", want |-> NoHeader, faulty |-> FALSE]
  /\ shown = [want |-> NoHeader, under |-> NoHeader, cap |-> NoHeader,
              written |-> TRUE]
  /\ streak = 0

(* ----------------------------- the picture ----------------------------- *)

At(step) == call.at = step
Goto(step) == call' = [call EXCEPT !.at = step]
GotoRefused(step) == call' = [call EXCEPT !.at = step, !.faulty = TRUE]
May(fault) == fault \in Faults

(* The picture ends without having been decoded.                           *)
Lost(faulty) ==
  /\ call' = [at |-> "idle", want |-> NoHeader, faulty |-> FALSE]
  /\ streak' = IF faulty THEN 0 ELSE IF streak = 2 THEN 2 ELSE streak + 1
  /\ UNCHANGED <<codec, shown>>

FailsKeepsRequest(faulty) == UNCHANGED req /\ Lost(faulty)  \* mutant

(* A translator returned an error: vaEndPicture closes the request.        *)
Fails(faulty) == req' = "none" /\ Lost(faulty)

(* vaBeginPicture allocates the request unless one is left.                *)
BeginPicture(h) ==
  /\ At("idle")
  /\ \/ req' = (IF req = "none" THEN "ready" ELSE req)
        /\ call' = [at |-> "begun", want |-> h, faulty |-> FALSE]
     \/ req = "none" /\ May("reqalloc") /\ UNCHANGED req
        /\ call' = [at |-> "begun", want |-> h, faulty |-> TRUE]
  /\ UNCHANGED <<codec, drv, krn, shown, streak>>

(* vaEndPicture: without a request the surface is Ready and undecoded; an  *)
(* invalid picture is refused before any ioctl.                            *)
EndPicture ==
  /\ At("begun")
  /\ \/ req = "none" /\ Lost(TRUE) /\ UNCHANGED req
     \/ req # "none" /\ May("reject") /\ Fails(TRUE)
     \/ req # "none" /\ Goto("sequence") /\ UNCHANGED <<codec, req, shown, streak>>
  /\ UNCHANGED <<drv, krn>>

(* -------------------------- the sequence control ----------------------- *)

(* rkvdec's H.264 SPS changes the picture format, for which there must be  *)
(* no CAPTURE buffers.                                                     *)
SequenceBusy ==
  /\ codec = "H264" /\ drv.capAlloc
  /\ krn.seq # NoHeader /\ krn.seq.depth # call.want.depth

RefusalToleratedAlways == TRUE  \* mutant: every codec does as MPEG-2

(* Who goes on when the control was refused, and remembers it as set.      *)
RefusalTolerated == codec = "MPEG2" \/ (codec = "H264" /\ drv.capAlloc)

SetSequence ==
  /\ At("sequence")
  /\ UNCHANGED codec
  /\ \/ drv.seq = call.want /\ Goto("ensure")
        /\ UNCHANGED <<drv, krn, req, shown, streak>>
     \/ drv.seq # call.want /\ ~SequenceBusy /\ Goto("ensure")
        /\ drv' = [drv EXCEPT !.seq = call.want]
        /\ krn' = [krn EXCEPT !.seq = call.want]
        /\ UNCHANGED <<req, shown, streak>>
     \/ /\ drv.seq # call.want /\ (SequenceBusy \/ May("sequence"))
        /\ RefusalTolerated
        /\ drv' = [drv EXCEPT !.seq = call.want]
        /\ call' = [call EXCEPT !.at = "ensure", !.faulty = @ \/ ~SequenceBusy]
        /\ UNCHANGED <<krn, req, shown, streak>>
     \/ drv.seq # call.want /\ (SequenceBusy \/ May("sequence"))
        /\ ~RefusalTolerated /\ Fails(call.faulty \/ ~SequenceBusy)
        /\ UNCHANGED <<drv, krn>>

(* ---------------------------- ensure_capture --------------------------- *)

SizeChangedNever == drv.cap.size = 0  \* mutant: only the first picture sizes
SizeChanged == call.want.size > drv.cap.size

FmtChanged == drv.cap.depth # call.want.depth \/ ~drv.capAlloc

Released == [drv EXCEPT !.streamed = FALSE, !.capAlloc = FALSE]

(* STREAMOFF, and give the CAPTURE buffers back.                           *)
EnsureCapture ==
  /\ At("ensure")
  /\ \/ /\ ~SizeChanged /\ ~FmtChanged
        /\ Goto("streamon") /\ UNCHANGED <<codec, drv, req, shown, streak>>
     \/ /\ SizeChanged \/ FmtChanged
        /\ drv' = Released
        /\ Goto("output") /\ UNCHANGED <<codec, req, shown, streak>>
     \/ /\ (SizeChanged \/ FmtChanged) /\ drv.capAlloc /\ May("cap_zero")
        /\ drv' = [drv EXCEPT !.streamed = FALSE]
        /\ Fails(TRUE)
  /\ UNCHANGED krn

(* A larger picture also needs a larger OUTPUT queue: unmap, REQBUFS(0),   *)
(* S_FMT, REQBUFS, mmap.  Each failure is a warning, and the lengths       *)
(* remembered per index are those of the buffers before.                   *)
OutputTooSmall == SizeChanged /\ drv.outAlloc /\ krn.out < call.want.size

RebuildOutput ==
  /\ At("output")
  /\ UNCHANGED <<codec, req, shown, streak>>
  /\ LET grown == [krn EXCEPT !.out = call.want.size, !.len = call.want.size]
     IN \/ ~OutputTooSmall /\ Goto("capture") /\ UNCHANGED <<drv, krn>>
        \/ OutputTooSmall /\ Goto("capture")
           /\ drv' = [drv EXCEPT !.mapped = TRUE] /\ krn' = grown
        \/ OutputTooSmall /\ May("out_mmap") /\ GotoRefused("capture")
           /\ drv' = [drv EXCEPT !.mapped = FALSE] /\ krn' = grown
        \/ OutputTooSmall /\ May("out_zero") /\ GotoRefused("capture")
           /\ drv' = [drv EXCEPT !.mapped = FALSE] /\ UNCHANGED krn
        \/ OutputTooSmall /\ May("out_setup") /\ GotoRefused("capture")
           /\ drv' = [drv EXCEPT !.mapped = FALSE, !.outAlloc = FALSE]
           /\ krn' = [krn EXCEPT !.out = call.want.size]

(* S_FMT and REQBUFS, retried with fewer buffers; then the geometry is     *)
(* read back, and kept as it was if that fails.                            *)
FormatRefused ==
  codec \in DepthFollowsSequence /\ krn.seq.depth # call.want.depth

Allocated(size) ==
  /\ drv' = [drv EXCEPT !.capAlloc = TRUE,
                        !.cap = [size |-> size, depth |-> call.want.depth]]
  /\ krn' = [krn EXCEPT !.cap = call.want]

AllocCapture ==
  /\ At("capture")
  /\ UNCHANGED <<codec, shown>>
  /\ \/ ~FormatRefused /\ Allocated(call.want.size) /\ Goto("streamon")
        /\ UNCHANGED <<req, streak>>
     \/ ~FormatRefused /\ May("geometry") /\ Allocated(drv.cap.size)
        /\ GotoRefused("streamon") /\ UNCHANGED <<req, streak>>
     \/ (FormatRefused \/ May("cap_alloc")) /\ Fails(call.faulty \/ ~FormatRefused)
        /\ UNCHANGED <<drv, krn>>

(* ------------------------- STREAMON and the request -------------------- *)

StreamOn ==
  /\ At("streamon")
  /\ UNCHANGED krn
  /\ \/ drv.streamed /\ Goto("submit") /\ UNCHANGED <<codec, drv, req, shown, streak>>
     \/ ~drv.streamed /\ Goto("submit")
        /\ drv' = [drv EXCEPT !.streamed = TRUE]
        /\ UNCHANGED <<codec, req, shown, streak>>
     \/ ~drv.streamed /\ May("streamon") /\ Fails(TRUE) /\ UNCHANGED drv

(* The plane length of QBUF is asked for once per index.                   *)
PlaneLength(k) == IF drv.len[k] # 0 THEN drv.len[k] ELSE krn.len

(* hantro AV1 refuses a plane length that is not that of the mapping.      *)
LengthRefused(k) == codec = "AV1" /\ PlaneLength(k) # krn.len

Memoized(k) == [drv EXCEPT !.len[k] = PlaneLength(k)]

(* Controls on the request, an OUTPUT buffer, both QBUFs, MEDIA_REQUEST    *)
(* IOC_QUEUE, the wait.  A request that was not recycled is refused; a     *)
(* timeout resets the queues and closes the request.  A queue that could   *)
(* not be mapped makes no difference here: the copy is left out, and the   *)
(* buffer is submitted with what was in it.                                *)
Submit(k) ==
  /\ At("submit")
  /\ UNCHANGED <<codec, krn>>
  /\ \/ /\ req = "spent" \/ ~drv.outAlloc \/ May("controls")
        /\ Fails(call.faulty \/ (req # "spent" /\ drv.outAlloc))
        /\ UNCHANGED drv
     \/ /\ req = "ready" /\ drv.outAlloc
        /\ LengthRefused(k) \/ May("qbuf")
        /\ drv' = Memoized(k)
        /\ Fails(call.faulty \/ ~LengthRefused(k))
     \/ /\ req = "ready" /\ drv.outAlloc /\ ~LengthRefused(k)
        /\ May("timeout")
        /\ drv' = [Memoized(k) EXCEPT !.streamed = FALSE]
        /\ Fails(TRUE)
     \/ /\ req = "ready" /\ drv.outAlloc /\ ~LengthRefused(k)
        /\ drv' = Memoized(k)
        /\ shown' = [want |-> call.want,
                     under |-> IF codec \in SequenceOnRequest THEN call.want
                               ELSE krn.seq,
                     cap |-> krn.cap, written |-> drv.mapped]
        /\ streak' = 0
        /\ Goto("reinit") /\ UNCHANGED req

(* MEDIA_REQUEST_IOC_REINIT; on EINVAL, and on that only, the request is   *)
(* closed and vaBeginPicture allocates another.                            *)
Reinit ==
  /\ At("reinit")
  /\ call' = [at |-> "idle", want |-> NoHeader, faulty |-> FALSE]
  /\ \/ req' = "ready"
     \/ May("reinit_einval") /\ req' = "none"
     \/ May("reinit") /\ req' = "spent"
  /\ UNCHANGED <<codec, drv, krn, shown, streak>>

Next ==
  \/ \E h \in Streams[codec] : BeginPicture(h)
  \/ EndPicture \/ SetSequence \/ EnsureCapture \/ RebuildOutput
  \/ AllocCapture \/ StreamOn \/ (\E k \in OutSlots : Submit(k)) \/ Reinit

Spec == Init /\ [][Next]_vars

(* ------------------------------ properties ----------------------------- *)

(* Every decoded picture was decoded under its own sequence header, however *)
(* many set-ups were refused before: a header whose control was refused is *)
(* never remembered as set, unless it also travels with the request (the   *)
(* memcmp that skips the sequence control).  The records keep their shape. *)
SequenceInForce ==
  /\ TypeOK
  /\ shown.under = shown.want

(* Every decoded picture fits the CAPTURE buffers it was decoded into, in  *)
(* size and in bit depth, over any sequence of growths, shrinkages and     *)
(* half-done renegotiations (the early return of ensure_capture).          *)
CaptureFits ==
  /\ shown.cap.size >= shown.want.size
  /\ shown.cap.depth = shown.want.depth

(* The bitstream of a decoded picture was written to its OUTPUT buffer.    *)
(* Not so after a rebuild whose mmap failed ("out_mmap"): the translators  *)
(* take a NULL mapping for a request to compute the length.                *)
BitstreamWritten == shown.written

(* A failure is not for ever: after the kernel has refused something, at   *)
(* most one more picture is lost before pictures are decoded again (what   *)
(* every error path leaves behind for the next picture).                   *)
FailuresHeal == streak < 2

=============================================================================
