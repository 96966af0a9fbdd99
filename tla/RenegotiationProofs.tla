------------------------ MODULE RenegotiationProofs ------------------------
(***************************************************************************)
(* What a decoder remembers of its device is true, and heals: the three    *)
(* properties of Renegotiation for any streams and OUTPUT buffers.         *)
(***************************************************************************)
EXTENDS Renegotiation, TLAPS

Context ==
  [seq : Headers \cup {NoHeader},
   cap : [size : Sizes \cup {0}, depth : Depths \cup {0}],
   capAlloc : BOOLEAN, outAlloc : BOOLEAN, mapped : BOOLEAN,
   len : [OutSlots -> Sizes \cup {0}], streamed : BOOLEAN]

Device ==
  [seq : Headers \cup {NoHeader},
   cap : [size : Sizes \cup {0}, depth : Depths \cup {0}],
   out : Sizes, len : Sizes]

Picture == [at : Steps, want : Headers \cup {NoHeader}, faulty : BOOLEAN]

NotUnderWay == [at |-> "idle", want |-> NoHeader, faulty |-> FALSE]

(* The steps after the sequence control, and those after ensure_capture.   *)
PastSequence == {"ensure", "output", "capture", "streamon", "submit"}
PastEnsure == {"streamon", "submit"}

(* A picture and the device's sequence are of this stream; queues that     *)
(* stream have buffers.                                                    *)
StreamInv ==
  /\ call.at # "idle" => call.want \in Streams[codec]
  /\ krn.seq \in Streams[codec] \cup {NoHeader}
  /\ call.at \in PastEnsure => drv.capAlloc

(* What is remembered of the sequence is in force, where that matters.     *)
SequenceInv ==
  /\ codec \notin SequenceOnRequest => drv.seq = krn.seq
  /\ call.at \in PastSequence => drv.seq = call.want
  /\ shown.under = shown.want

IInv == TypeOK /\ StreamInv /\ SequenceInv

-----------------------------------------------------------------------------
(* Types.                                                                  *)

LEMMA HeaderTypes ==
  /\ \A c \in Codecs : Streams[c] \subseteq Headers
  /\ \A h \in Headers : /\ h \in [size : Nat \ {0}, depth : Nat \ {0}]
                        /\ h.size \in Sizes /\ h.depth \in Depths
                        /\ h = [size |-> h.size, depth |-> h.depth]
                        /\ h # NoHeader
  /\ \A n \in Sizes : n \in Nat \ {0}
  /\ \A n \in Depths : n \in Nat \ {0}
<1>1. \A c \in Codecs : Streams[c] \subseteq Headers
  BY DEF Headers
<1>2. \A h \in Headers : h \in [size : Nat \ {0}, depth : Nat \ {0}]
  BY StreamsAssumption DEF Headers
<1>3. ASSUME NEW h \in Headers
      PROVE  /\ h.size \in Sizes /\ h.depth \in Depths
             /\ h = [size |-> h.size, depth |-> h.depth] /\ h # NoHeader
  <2>1. h \in [size : Nat \ {0}, depth : Nat \ {0}]
    BY <1>2
  <2>2. h.size \in Nat \ {0} /\ h = [size |-> h.size, depth |-> h.depth]
    BY <2>1
  <2> QED
    BY <2>2 DEF Sizes, Depths, NoHeader
<1>4. (\A n \in Sizes : n \in Nat \ {0}) /\ (\A n \in Depths : n \in Nat \ {0})
  BY <1>2 DEF Sizes, Depths
<1> QED
  BY <1>1, <1>2, <1>3, <1>4

LEMMA Types ==
  ASSUME TypeOK
  PROVE  /\ codec \in Codecs /\ drv \in Context /\ krn \in Device /\ call \in Picture
         /\ req \in {"none", "ready", "spent"} /\ streak \in 0 .. 2
BY DEF TypeOK, Context, Device, Picture

(* A picture that is lost leaves what is remembered alone.                 *)
LEMMA LostKeeps ==
  ASSUME IInv, NEW faulty \in BOOLEAN, Lost(faulty),
         drv' \in Context, drv'.seq = drv.seq, drv'.streamed => drv'.capAlloc,
         krn' = krn, req' \in {"none", "ready", "spent"}
  PROVE  IInv'
<1>1. call' = NotUnderWay /\ codec' = codec /\ shown' = shown
  BY DEF Lost, NotUnderWay
<1>2. streak' \in 0 .. 2
  BY Types DEF Lost, IInv
<1>3. NotUnderWay \in Picture /\ NotUnderWay.at = "idle"
  BY DEF NotUnderWay, Picture, Steps
<1> HIDE DEF NotUnderWay
<1>4. TypeOK'
  BY <1>1, <1>2, <1>3 DEF IInv, TypeOK, Context, Picture
<1>5. StreamInv'
  BY <1>1, <1>3 DEF IInv, StreamInv, PastEnsure
<1>6. SequenceInv'
  BY <1>1, <1>3 DEF IInv, SequenceInv, PastSequence
<1> QED
  BY <1>4, <1>5, <1>6 DEF IInv

(* What every step may use.                                                *)
LEMMA Facts ==
  ASSUME IInv
  PROVE  /\ drv \in Context /\ krn \in Device /\ req \in {"none", "ready", "spent"}
         /\ streak \in 0 .. 2 /\ call.faulty \in BOOLEAN
         /\ krn.seq \in Streams[codec] \cup {NoHeader}
         /\ drv.streamed => drv.capAlloc
         /\ call.at \notin {"idle", "begun"} => req # "none"
         /\ call.at # "idle" => call.want \in Streams[codec] /\ call.want \in Headers
         /\ call.at \in PastEnsure => drv.capAlloc
         /\ codec \notin SequenceOnRequest => drv.seq = krn.seq
         /\ call.at \in PastSequence => drv.seq = call.want
         /\ shown.under = shown.want
<1>1. call.at # "idle" => call.want \in Headers
  BY HeaderTypes, Types DEF IInv, StreamInv
<1>2. call \in Picture
  BY Types DEF IInv
<1> QED
  BY <1>1, <1>2, Types DEF IInv, TypeOK, StreamInv, SequenceInv, Picture

(* The next step of a picture.                                             *)
LEMMA NextStep ==
  ASSUME IInv, NEW step \in Steps, Goto(step) \/ GotoRefused(step)
  PROVE  call' \in Picture /\ call'.at = step /\ call'.want = call.want
<1>1. call \in Picture
  BY Types DEF IInv
<1> QED
  BY <1>1 DEF Goto, GotoRefused, Picture

LEMMA GoesOn ==
  ASSUME IInv, call.at # "idle",
         call' \in Picture, call'.want = call.want,
         codec' = codec, drv' \in Context, krn' \in Device,
         krn'.seq \in Streams[codec] \cup {NoHeader},
         drv'.streamed => drv'.capAlloc,
         req' \in {"ready", "spent"}, streak' \in 0 .. 2,
         call'.at \in PastEnsure => drv'.capAlloc,
         codec \notin SequenceOnRequest => drv'.seq = krn'.seq,
         call'.at \in PastSequence => drv'.seq = call.want,
         shown'.under = shown'.want
  PROVE  IInv'
<1>1. TypeOK'
  BY Types DEF IInv, TypeOK, Context, Device, Picture
<1>2. StreamInv'
  BY DEF IInv, StreamInv
<1>3. SequenceInv'
  BY DEF IInv, SequenceInv
<1> QED
  BY <1>1, <1>2, <1>3 DEF IInv

LEMMA BeginPictureKeeps ==
  ASSUME IInv, NEW h \in Streams[codec], BeginPicture(h)
  PROVE  IInv'
<1>1. h \in Headers
  BY HeaderTypes, Types DEF IInv
<1>2. PICK faulty \in BOOLEAN : call' = [at |-> "begun", want |-> h, faulty |-> faulty]
  BY DEF BeginPicture
<1>3. call' \in Picture /\ call'.at = "begun" /\ call'.want = h
  BY <1>1, <1>2 DEF Picture, Steps
<1>4. req' \in {"none", "ready", "spent"}
  BY Types DEF BeginPicture, IInv
<1>5. UNCHANGED <<codec, drv, krn, shown, streak>>
  BY DEF BeginPicture
<1>6. TypeOK'
  BY <1>3, <1>4, <1>5 DEF IInv, TypeOK, Picture
<1>7. StreamInv'
  BY <1>3, <1>5 DEF IInv, StreamInv, PastEnsure
<1>8. SequenceInv'
  BY <1>3, <1>5 DEF IInv, SequenceInv, PastSequence
<1> QED
  BY <1>6, <1>7, <1>8 DEF IInv

LEMMA EndPictureKeeps ==
  ASSUME IInv, EndPicture
  PROVE  IInv'
<1>1. call.at = "begun" /\ UNCHANGED <<drv, krn>>
  BY DEF EndPicture, At
<1>0. drv \in Context /\ (drv.streamed => drv.capAlloc) /\ req \in {"none", "ready", "spent"}
  BY Facts
<1>5. /\ drv' \in Context /\ drv'.seq = drv.seq /\ (drv'.streamed => drv'.capAlloc)
      /\ krn' = krn
  BY <1>0, <1>1
<1>2. CASE Lost(TRUE) /\ UNCHANGED req
  <2>1. req' \in {"none", "ready", "spent"}
    BY <1>0, <1>2
  <2> QED
    BY <1>2, <1>5, <2>1, LostKeeps
<1>3. CASE Fails(TRUE)
  BY <1>1, <1>3, <1>5, LostKeeps DEF Fails
<1>4. CASE req # "none" /\ Goto("sequence") /\ UNCHANGED <<codec, req, shown, streak>>
  <2>1. call' \in Picture /\ call'.at = "sequence" /\ call'.want = call.want
    BY <1>4, NextStep DEF Steps
  <2>2. call'.at \notin PastEnsure /\ call'.at \notin PastSequence
    BY <2>1 DEF PastEnsure, PastSequence
  <2> QED
    BY <1>1, <1>4, <2>1, <2>2, Facts, GoesOn
<1> QED
  BY <1>2, <1>3, <1>4 DEF EndPicture

LEMMA SetSequenceKeeps ==
  ASSUME IInv, SetSequence
  PROVE  IInv'
<1>1. /\ call.at = "sequence" /\ codec' = codec /\ req # "none"
      /\ call.want \in Streams[codec] /\ call.want \in Headers
  BY Facts DEF SetSequence, At
<1> DEFINE d == [drv EXCEPT !.seq = call.want]
           k == [krn EXCEPT !.seq = call.want]
<1>2. /\ d \in Context /\ d.seq = call.want /\ d.streamed = drv.streamed
      /\ d.capAlloc = drv.capAlloc
      /\ k \in Device /\ k.seq = call.want
  BY <1>1, Facts DEF Context, Device
<1>3. CASE /\ drv.seq = call.want /\ Goto("ensure")
           /\ UNCHANGED <<drv, krn, req, shown, streak>>
  <2>1. call' \in Picture /\ call'.at = "ensure" /\ call'.want = call.want
    BY <1>3, NextStep DEF Steps
  <2> QED
    BY <1>1, <1>3, <2>1, Facts, GoesOn DEF PastEnsure
<1>4. CASE Goto("ensure") /\ drv' = d /\ krn' = k /\ UNCHANGED <<req, shown, streak>>
  <2> HIDE DEF d, k
  <2>1. call' \in Picture /\ call'.at = "ensure" /\ call'.want = call.want
    BY <1>4, NextStep DEF Steps
  <2> QED
    BY <1>1, <1>2, <1>4, <2>1, Facts, GoesOn DEF PastEnsure
<1>5. CASE /\ RefusalTolerated /\ drv' = d
           /\ call' = [call EXCEPT !.at = "ensure", !.faulty = @ \/ ~SequenceBusy]
           /\ UNCHANGED <<krn, req, shown, streak>>
  <2>1. call' \in Picture /\ call'.at = "ensure" /\ call'.want = call.want
    BY <1>5, Types DEF IInv, Picture, Steps
  <2>2. codec \in SequenceOnRequest
    BY <1>5 DEF RefusalTolerated, SequenceOnRequest
  <2> HIDE DEF d, k
  <2> QED
    BY <1>1, <1>2, <1>5, <2>1, <2>2, Facts, GoesOn DEF PastEnsure
<1>6. CASE Fails(call.faulty \/ ~SequenceBusy) /\ UNCHANGED <<drv, krn>>
  BY <1>1, <1>6, Facts, LostKeeps DEF Fails
<1> QED
  BY <1>3, <1>4, <1>5, <1>6 DEF SetSequence

LEMMA EnsureCaptureKeeps ==
  ASSUME IInv, EnsureCapture
  PROVE  IInv'
<1>1. /\ call.at = "ensure" /\ krn' = krn /\ req # "none" /\ drv.seq = call.want
      /\ drv \in Context
  BY Facts DEF EnsureCapture, At, PastSequence
<1>2. CASE /\ ~SizeChanged /\ ~FmtChanged
           /\ Goto("streamon") /\ UNCHANGED <<codec, drv, req, shown, streak>>
  <2>1. call' \in Picture /\ call'.at = "streamon" /\ call'.want = call.want
    BY <1>2, NextStep DEF Steps
  <2>2. drv.capAlloc
    BY <1>2 DEF FmtChanged
  <2> QED
    BY <1>1, <1>2, <2>1, <2>2, Facts, GoesOn
<1>3. CASE drv' = Released /\ Goto("output") /\ UNCHANGED <<codec, req, shown, streak>>
  <2>1. call' \in Picture /\ call'.at = "output" /\ call'.want = call.want
    BY <1>3, NextStep DEF Steps
  <2>2. Released \in Context /\ Released.seq = drv.seq /\ Released.streamed = FALSE
    BY <1>1 DEF Released, Context
  <2> QED
    BY <1>1, <1>3, <2>1, <2>2, Facts, GoesOn DEF PastEnsure
<1>4. CASE drv' = [drv EXCEPT !.streamed = FALSE] /\ Fails(TRUE)
  <2>1. drv' \in Context /\ drv'.seq = drv.seq /\ drv'.streamed = FALSE
    BY <1>1, <1>4 DEF Context
  <2> QED
    BY <1>1, <1>4, <2>1, LostKeeps DEF Fails
<1> QED
  BY <1>2, <1>3, <1>4 DEF EnsureCapture

(* What a rebuild of the OUTPUT queue may leave behind.                    *)
LEMMA RebuildOutputTo ==
  ASSUME IInv, RebuildOutput
  PROVE  /\ call.at = "output" /\ UNCHANGED <<codec, req, shown, streak>>
         /\ call' \in Picture /\ call'.at = "capture" /\ call'.want = call.want
         /\ drv' \in Context /\ krn' \in Device /\ krn'.seq = krn.seq /\ krn'.cap = krn.cap
         /\ drv'.seq = drv.seq /\ drv'.cap = drv.cap /\ drv'.len = drv.len
         /\ drv'.streamed = drv.streamed /\ drv'.capAlloc = drv.capAlloc
         /\ "out_setup" \notin Faults => drv'.outAlloc = drv.outAlloc
         /\ ~OutputTooSmall => krn' = krn
<1>1. /\ call.at = "output" /\ UNCHANGED <<codec, req, shown, streak>>
      /\ drv \in Context /\ krn \in Device /\ call.want \in Headers
  BY Facts DEF RebuildOutput, At
<1>2. call' \in Picture /\ call'.at = "capture" /\ call'.want = call.want
  <2>1. Goto("capture") \/ GotoRefused("capture")
    BY DEF RebuildOutput
  <2> QED
    BY <2>1, NextStep DEF Steps
<1>3. /\ drv' \in Context /\ drv'.seq = drv.seq /\ drv'.cap = drv.cap /\ drv'.len = drv.len
      /\ drv'.streamed = drv.streamed /\ drv'.capAlloc = drv.capAlloc
      /\ "out_setup" \notin Faults => drv'.outAlloc = drv.outAlloc
  <2>1. \/ drv' = drv
        \/ drv' = [drv EXCEPT !.mapped = TRUE]
        \/ drv' = [drv EXCEPT !.mapped = FALSE]
        \/ drv' = [drv EXCEPT !.mapped = FALSE, !.outAlloc = FALSE] /\ "out_setup" \in Faults
    BY DEF RebuildOutput, May
  <2> QED
    BY <1>1, <2>1 DEF Context
<1>4. /\ krn' \in Device /\ krn'.seq = krn.seq /\ krn'.cap = krn.cap
      /\ ~OutputTooSmall => krn' = krn
  <2>1. \/ krn' = krn
        \/ OutputTooSmall /\ krn' = [krn EXCEPT !.out = call.want.size, !.len = call.want.size]
        \/ OutputTooSmall /\ krn' = [krn EXCEPT !.out = call.want.size]
    BY DEF RebuildOutput
  <2>2. call.want.size \in Sizes
    BY <1>1, HeaderTypes
  <2> QED
    BY <1>1, <2>1, <2>2 DEF Device
<1> QED
  BY <1>1, <1>2, <1>3, <1>4

LEMMA RebuildOutputKeeps ==
  ASSUME IInv, RebuildOutput
  PROVE  IInv'
<1>1. call'.at \notin PastEnsure /\ call.at \in PastSequence /\ call.at # "idle"
  BY RebuildOutputTo DEF PastEnsure, PastSequence
<1>2. req \in {"ready", "spent"}
  BY <1>1, RebuildOutputTo, Facts
<1> QED
  BY <1>1, <1>2, RebuildOutputTo, Facts, GoesOn

(* The CAPTURE queue is set up for the picture, or the picture is lost.    *)
LEMMA AllocCaptureTo ==
  ASSUME IInv, AllocCapture
  PROVE  \/ /\ ~FormatRefused
            /\ drv' \in Context /\ drv'.seq = drv.seq /\ drv'.capAlloc = TRUE
            /\ drv'.outAlloc = drv.outAlloc /\ drv'.len = drv.len
            /\ drv'.cap.depth = call.want.depth
            /\ "geometry" \notin Faults => drv'.cap = call.want
            /\ krn' \in Device /\ krn'.seq = krn.seq /\ krn'.cap = call.want
            /\ krn'.out = krn.out /\ krn'.len = krn.len
            /\ call' \in Picture /\ call'.at = "streamon" /\ call'.want = call.want
            /\ UNCHANGED <<codec, shown, req, streak>>
         \/ /\ UNCHANGED <<drv, krn>> /\ Fails(call.faulty \/ ~FormatRefused)
<1>1. /\ call.at = "capture" /\ drv \in Context /\ krn \in Device /\ call.want \in Headers
      /\ UNCHANGED <<codec, shown>>
  BY Facts DEF AllocCapture, At
<1>2. /\ call.want.size \in Sizes /\ call.want.depth \in Depths
      /\ call.want = [size |-> call.want.size, depth |-> call.want.depth]
  BY <1>1, HeaderTypes
<1>3. ASSUME NEW n \in Sizes \cup {0}, Allocated(n),
             ~FormatRefused, Goto("streamon") \/ GotoRefused("streamon"), UNCHANGED <<req, streak>>,
             n = call.want.size \/ "geometry" \in Faults
      PROVE  /\ drv' \in Context /\ drv'.seq = drv.seq /\ drv'.capAlloc = TRUE
             /\ drv'.outAlloc = drv.outAlloc /\ drv'.len = drv.len
             /\ drv'.cap.depth = call.want.depth
             /\ "geometry" \notin Faults => drv'.cap = call.want
             /\ krn' \in Device /\ krn'.seq = krn.seq /\ krn'.cap = call.want
             /\ krn'.out = krn.out /\ krn'.len = krn.len
             /\ call' \in Picture /\ call'.at = "streamon" /\ call'.want = call.want
  <2>1. call' \in Picture /\ call'.at = "streamon" /\ call'.want = call.want
    BY <1>3, NextStep DEF Steps
  <2> DEFINE cap == [size |-> n, depth |-> call.want.depth]
  <2>2. /\ cap \in [size : Sizes \cup {0}, depth : Depths \cup {0}]
        /\ cap.depth = call.want.depth
        /\ "geometry" \notin Faults => cap = call.want
    BY <1>2, <1>3
  <2>3. drv' = [drv EXCEPT !.capAlloc = TRUE, !.cap = cap] /\ krn' = [krn EXCEPT !.cap = call.want]
    BY <1>3 DEF Allocated
  <2> HIDE DEF cap
  <2>4. call.want \in [size : Sizes \cup {0}, depth : Depths \cup {0}]
    BY <1>2
  <2>5. /\ drv' \in Context /\ drv'.seq = drv.seq /\ drv'.capAlloc = TRUE
        /\ drv'.outAlloc = drv.outAlloc /\ drv'.len = drv.len /\ drv'.cap = cap
    BY <1>1, <2>2, <2>3 DEF Context
  <2>6. /\ krn' \in Device /\ krn'.seq = krn.seq /\ krn'.cap = call.want
        /\ krn'.out = krn.out /\ krn'.len = krn.len
    BY <1>1, <2>3, <2>4 DEF Device
  <2> QED
    BY <2>1, <2>2, <2>5, <2>6
<1>4. drv.cap.size \in Sizes \cup {0}
  BY <1>1 DEF Context
<1>5. CASE /\ ~FormatRefused /\ Allocated(call.want.size)
           /\ Goto("streamon") /\ UNCHANGED <<req, streak>>
  BY <1>1, <1>2, <1>3, <1>5
<1>6. CASE /\ ~FormatRefused /\ May("geometry") /\ Allocated(drv.cap.size)
           /\ GotoRefused("streamon") /\ UNCHANGED <<req, streak>>
  BY <1>1, <1>3, <1>4, <1>6 DEF May
<1>7. CASE Fails(call.faulty \/ ~FormatRefused) /\ UNCHANGED <<drv, krn>>
  BY <1>7
<1> QED
  BY <1>5, <1>6, <1>7 DEF AllocCapture

LEMMA AllocCaptureKeeps ==
  ASSUME IInv, AllocCapture
  PROVE  IInv'
<1>1. call.at = "capture" /\ call.at \in PastSequence /\ call.at # "idle"
  BY DEF AllocCapture, At, PastSequence
<1>2. CASE Fails(call.faulty \/ ~FormatRefused) /\ UNCHANGED <<drv, krn>>
  <2>1. (call.faulty \/ ~FormatRefused) \in BOOLEAN
    OBVIOUS
  <2> QED
    BY <1>2, <2>1, Facts, LostKeeps DEF Fails
<1>3. CASE ~(Fails(call.faulty \/ ~FormatRefused) /\ UNCHANGED <<drv, krn>>)
  BY <1>1, <1>3, AllocCaptureTo, Facts, GoesOn
<1> QED
  BY <1>2, <1>3

LEMMA StreamOnKeeps ==
  ASSUME IInv, StreamOn
  PROVE  IInv'
<1>1. /\ call.at = "streamon" /\ krn' = krn /\ drv \in Context
      /\ call.at \in PastEnsure /\ call.at \in PastSequence
  BY Facts DEF StreamOn, At, PastEnsure, PastSequence
<1>2. CASE Goto("submit") /\ UNCHANGED <<codec, req, shown, streak>>
           /\ (drv' = drv \/ drv' = [drv EXCEPT !.streamed = TRUE])
  <2>1. call' \in Picture /\ call'.at = "submit" /\ call'.want = call.want
    BY <1>2, NextStep DEF Steps
  <2>2. drv' \in Context /\ drv'.seq = drv.seq /\ drv'.capAlloc = drv.capAlloc
    BY <1>1, <1>2 DEF Context
  <2> QED
    BY <1>1, <1>2, <2>1, <2>2, Facts, GoesOn
<1>3. CASE Fails(TRUE) /\ UNCHANGED drv
  BY <1>1, <1>3, Facts, LostKeeps DEF Fails
<1> QED
  BY <1>2, <1>3 DEF StreamOn

LEMMA MemoizedType ==
  ASSUME IInv, NEW k \in OutSlots
  PROVE  /\ Memoized(k) \in Context /\ Memoized(k).seq = drv.seq
         /\ Memoized(k).cap = drv.cap /\ Memoized(k).streamed = drv.streamed
         /\ Memoized(k).capAlloc = drv.capAlloc /\ Memoized(k).outAlloc = drv.outAlloc
         /\ \A j \in OutSlots : Memoized(k).len[j] \in {drv.len[j], krn.len}
<1>1. drv \in Context /\ krn \in Device
  BY Facts
<1>2. PlaneLength(k) \in Sizes \cup {0} /\ PlaneLength(k) \in {drv.len[k], krn.len}
  BY <1>1 DEF PlaneLength, Context, Device
<1> QED
  BY <1>1, <1>2 DEF Memoized, Context

(* What a submission may lead to.                                          *)
LEMMA SubmitTo ==
  ASSUME IInv, NEW k \in OutSlots, Submit(k)
  PROVE  /\ call.at = "submit" /\ codec' = codec /\ krn' = krn
         /\ drv' \in Context /\ drv'.seq = drv.seq /\ drv'.cap = drv.cap
         /\ drv'.capAlloc = drv.capAlloc /\ drv'.outAlloc = drv.outAlloc
         /\ drv'.streamed => drv.streamed
         /\ \A j \in OutSlots : drv'.len[j] \in {drv.len[j], krn.len}
         /\ \/ Fails(call.faulty \/ (req # "spent" /\ drv.outAlloc))
            \/ Fails(call.faulty \/ ~LengthRefused(k))
            \/ Fails(TRUE)
            \/ /\ shown'.want = call.want /\ shown'.cap = krn.cap
               /\ shown'.under = IF codec \in SequenceOnRequest THEN call.want ELSE krn.seq
               /\ streak' = 0 /\ req' = req /\ req = "ready"
               /\ call' \in Picture /\ call'.at = "reinit" /\ call'.want = call.want
<1>1. call.at = "submit" /\ UNCHANGED <<codec, krn>> /\ drv \in Context
  BY Facts DEF Submit, At
<1>2. \/ drv' \in {drv, Memoized(k)}
      \/ drv' = [Memoized(k) EXCEPT !.streamed = FALSE]
  BY DEF Submit
<1>3. /\ drv' \in Context /\ drv'.seq = drv.seq /\ drv'.cap = drv.cap
      /\ drv'.capAlloc = drv.capAlloc /\ drv'.outAlloc = drv.outAlloc
      /\ drv'.streamed => drv.streamed
      /\ \A j \in OutSlots : drv'.len[j] \in {drv.len[j], krn.len}
  <2>1. CASE drv' = drv
    BY <1>1, <2>1
  <2>2. CASE drv' = Memoized(k)
    BY <2>2, MemoizedType
  <2>3. CASE drv' = [Memoized(k) EXCEPT !.streamed = FALSE]
    <3> DEFINE m == Memoized(k)
    <3>1. /\ m \in Context /\ m.seq = drv.seq /\ m.cap = drv.cap
          /\ m.capAlloc = drv.capAlloc /\ m.outAlloc = drv.outAlloc
          /\ \A j \in OutSlots : m.len[j] \in {drv.len[j], krn.len}
      BY MemoizedType
    <3> HIDE DEF m
    <3> QED
      BY <2>3, <3>1 DEF Context, m
  <2> QED
    BY <1>2, <2>1, <2>2, <2>3
<1>4. CASE /\ shown' = [want |-> call.want,
                        under |-> IF codec \in SequenceOnRequest THEN call.want ELSE krn.seq,
                        cap |-> krn.cap, written |-> drv.mapped]
           /\ streak' = 0 /\ Goto("reinit") /\ UNCHANGED req /\ req = "ready"
  <2>1. call' \in Picture /\ call'.at = "reinit" /\ call'.want = call.want
    BY <1>4, NextStep DEF Steps
  <2> QED
    BY <1>1, <1>3, <1>4, <2>1
<1> QED
  BY <1>1, <1>3, <1>4 DEF Submit

LEMMA SubmitKeeps ==
  ASSUME IInv, NEW k \in OutSlots, Submit(k)
  PROVE  IInv'
<1>1. /\ call.at \in PastSequence /\ call.at # "idle" /\ call.faulty \in BOOLEAN
      /\ drv' \in Context /\ drv'.seq = drv.seq
      /\ drv'.streamed => drv'.capAlloc
      /\ codec' = codec /\ krn' = krn
  BY SubmitTo, Facts DEF PastSequence
<1>2. ASSUME NEW faulty \in BOOLEAN, Fails(faulty)
      PROVE  IInv'
  BY <1>1, <1>2, SubmitTo, LostKeeps DEF Fails
<1>3. CASE /\ shown'.want = call.want /\ shown'.cap = krn.cap
           /\ shown'.under = IF codec \in SequenceOnRequest THEN call.want ELSE krn.seq
           /\ streak' = 0 /\ req' = req /\ req = "ready"
           /\ call' \in Picture /\ call'.at = "reinit" /\ call'.want = call.want
  <2>1. shown'.under = shown'.want
    BY <1>1, <1>3, Facts
  <2>2. call'.at \notin PastEnsure /\ call'.at \notin PastSequence
    BY <1>3 DEF PastEnsure, PastSequence
  <2>3. req' \in {"ready", "spent"} /\ streak' \in 0 .. 2
    BY <1>3
  <2>4. /\ krn' \in Device /\ krn'.seq \in Streams[codec] \cup {NoHeader}
        /\ codec \notin SequenceOnRequest => drv'.seq = krn'.seq
    BY <1>1, Facts
  <2> QED
    BY <1>1, <1>3, <2>1, <2>2, <2>3, <2>4, GoesOn
<1> QED
  BY <1>1, <1>2, <1>3, SubmitTo

LEMMA ReinitKeeps ==
  ASSUME IInv, Reinit
  PROVE  IInv'
<1>1. /\ call' = NotUnderWay /\ UNCHANGED <<codec, drv, krn, shown, streak>>
      /\ req' \in {"none", "ready", "spent"}
  BY DEF Reinit, NotUnderWay
<1>2. NotUnderWay \in Picture /\ NotUnderWay.at = "idle"
  BY DEF NotUnderWay, Picture, Steps
<1> HIDE DEF NotUnderWay
<1>3. TypeOK'
  BY <1>1, <1>2 DEF IInv, TypeOK, Picture
<1>4. StreamInv'
  BY <1>1, <1>2 DEF IInv, StreamInv, PastEnsure
<1>5. SequenceInv'
  BY <1>1, <1>2 DEF IInv, SequenceInv, PastSequence
<1> QED
  BY <1>3, <1>4, <1>5 DEF IInv

LEMMA InitInv == Init => IInv
<1> SUFFICES ASSUME Init PROVE IInv
  OBVIOUS
<1>1. PICK h \in Streams[codec], d \in Depths :
        LET cap == IF codec \in CaptureDeferred THEN NoHeader ELSE [size |-> h.size, depth |-> d]
        IN  /\ drv = [seq |-> NoHeader, cap |-> cap, capAlloc |-> codec \notin CaptureDeferred,
                      outAlloc |-> TRUE, mapped |-> TRUE,
                      len |-> [k \in OutSlots |-> 0], streamed |-> FALSE]
            /\ krn = [seq |-> NoHeader, cap |-> cap, out |-> h.size, len |-> h.size]
  BY DEF Init
<1> DEFINE cap == IF codec \in CaptureDeferred THEN NoHeader ELSE [size |-> h.size, depth |-> d]
<1>2. codec \in Codecs /\ h \in Headers /\ h.size \in Sizes
  BY HeaderTypes DEF Init
<1>3. cap \in [size : Sizes \cup {0}, depth : Depths \cup {0}]
  BY <1>2 DEF NoHeader
<1>4. /\ drv = [seq |-> NoHeader, cap |-> cap, capAlloc |-> codec \notin CaptureDeferred,
                outAlloc |-> TRUE, mapped |-> TRUE,
                len |-> [k \in OutSlots |-> 0], streamed |-> FALSE]
      /\ krn = [seq |-> NoHeader, cap |-> cap, out |-> h.size, len |-> h.size]
  BY <1>1
<1> HIDE DEF cap
<1>5. drv \in Context /\ drv.seq = NoHeader /\ drv.streamed = FALSE
  BY <1>3, <1>4 DEF Context
<1>6. krn \in Device /\ krn.seq = NoHeader
  BY <1>2, <1>3, <1>4 DEF Device
<1>7. call \in Picture /\ call.at = "idle"
  BY DEF Init, Picture, Steps
<1>8. TypeOK
  BY <1>2, <1>5, <1>6, <1>7 DEF Init, TypeOK, Context, Device, Picture
<1>9. StreamInv /\ SequenceInv
  BY <1>5, <1>6, <1>7 DEF Init, StreamInv, SequenceInv, PastEnsure, PastSequence
<1> QED
  BY <1>8, <1>9 DEF IInv

LEMMA InvKept == IInv /\ [Next]_vars => IInv'
<1> SUFFICES ASSUME IInv, [Next]_vars PROVE IInv'
  OBVIOUS
<1>1. CASE UNCHANGED vars
  BY <1>1 DEF vars, IInv, TypeOK, StreamInv, SequenceInv
<1>2. CASE \E h \in Streams[codec] : BeginPicture(h)
  BY <1>2, BeginPictureKeeps
<1>3. CASE EndPicture \/ SetSequence \/ EnsureCapture
  BY <1>3, EndPictureKeeps, SetSequenceKeeps, EnsureCaptureKeeps
<1>4. CASE RebuildOutput \/ AllocCapture \/ StreamOn
  BY <1>4, RebuildOutputKeeps, AllocCaptureKeeps, StreamOnKeeps
<1>5. CASE \E k \in OutSlots : Submit(k)
  BY <1>5, SubmitKeeps
<1>6. CASE Reinit
  BY <1>6, ReinitKeeps
<1> QED
  BY <1>1, <1>2, <1>3, <1>4, <1>5, <1>6 DEF Next

LEMMA InvHolds == Spec => []IInv
BY InitInv, InvKept, PTL DEF Spec

(***************************************************************************)
(* Every decoded picture was decoded under its own sequence header,        *)
(* whatever the kernel refused before: the memcmp that skips the sequence  *)
(* control compares with what is in force.                                 *)
(***************************************************************************)
THEOREM SequencesInForce == Spec => []SequenceInForce
<1>1. IInv => SequenceInForce
  BY DEF IInv, SequenceInv, SequenceInForce
<1> QED
  BY <1>1, InvHolds, PTL

-----------------------------------------------------------------------------
(***************************************************************************)
(* CaptureFits, when the geometry that S_FMT settled on can be read back.  *)
(* What is remembered of the CAPTURE queue is then what the device has,    *)
(* and it fits the picture from ensure_capture on.                         *)
(***************************************************************************)
GeometryRead == "geometry" \notin Faults

Fits(have, want) == have.size >= want.size /\ have.depth = want.depth

FitInv ==
  /\ drv.cap = krn.cap
  /\ call.at \in PastEnsure => Fits(drv.cap, call.want)
  /\ Fits(shown.cap, shown.want)

LEMMA FitUnchanged ==
  ASSUME FitInv, drv'.cap = drv.cap, krn'.cap = krn.cap, shown' = shown,
         call'.at \in PastEnsure => call.at \in PastEnsure /\ call'.want = call.want
  PROVE  FitInv'
BY DEF FitInv, Fits

LEMMA FitLost ==
  ASSUME FitInv, NEW faulty, Lost(faulty), drv'.cap = drv.cap, krn'.cap = krn.cap
  PROVE  FitInv'
<1>1. call'.at = "idle" /\ shown' = shown
  BY DEF Lost
<1> QED
  BY <1>1, FitUnchanged DEF PastEnsure

LEMMA FitKept == GeometryRead /\ IInv /\ FitInv /\ [Next]_vars => FitInv'
<1> SUFFICES ASSUME GeometryRead, IInv, FitInv, [Next]_vars PROVE FitInv'
  OBVIOUS
<1>0. drv \in Context /\ krn \in Device /\ call \in Picture
  BY Types DEF IInv
<1>1. CASE UNCHANGED vars
  BY <1>1, FitUnchanged DEF vars
<1>2. ASSUME NEW h \in Streams[codec], BeginPicture(h)
      PROVE  FitInv'
  <2>1. call'.at = "begun" /\ UNCHANGED <<drv, krn, shown>>
    BY <1>2 DEF BeginPicture
  <2> QED
    BY <2>1, FitUnchanged DEF PastEnsure
<1>3. CASE EndPicture
  <2>1. Goto("sequence") => call'.at = "sequence"
    BY <1>0 DEF Goto, Picture
  <2> QED
    BY <1>3, <2>1, FitLost, FitUnchanged DEF EndPicture, Fails, PastEnsure
<1>4. CASE SetSequence
  <2>1. drv'.cap = drv.cap /\ krn'.cap = krn.cap
    BY <1>0, <1>4 DEF SetSequence, Fails, Lost, Context, Device
  <2>2. CASE Fails(call.faulty \/ ~SequenceBusy)
    BY <2>1, <2>2, FitLost DEF Fails
  <2>3. CASE ~Fails(call.faulty \/ ~SequenceBusy)
    <3>1. call'.at = "ensure" /\ shown' = shown
      BY <1>0, <1>4, <2>3 DEF SetSequence, Goto, Picture
    <3> QED
      BY <2>1, <3>1, FitUnchanged DEF PastEnsure
  <2> QED
    BY <2>2, <2>3
<1>5. CASE EnsureCapture
  <2>1. drv'.cap = drv.cap /\ krn' = krn
    BY <1>0, <1>5 DEF EnsureCapture, Fails, Lost, Context, Released
  <2>2. CASE Fails(TRUE)
    BY <2>1, <2>2, FitLost DEF Fails
  <2>3. CASE Goto("output") /\ shown' = shown
    <3>1. call'.at = "output"
      BY <1>0, <2>3 DEF Goto, Picture
    <3> QED
      BY <2>1, <2>3, <3>1, FitUnchanged DEF PastEnsure
  <2>4. CASE ~SizeChanged /\ ~FmtChanged /\ Goto("streamon") /\ UNCHANGED <<drv, shown>>
    <3>1. call'.at = "streamon" /\ call'.want = call.want
      BY <1>0, <2>4 DEF Goto, Picture
    <3>2. call.want \in Headers
      BY <1>5, Facts DEF EnsureCapture, At
    <3>3. call.want.size \in Nat /\ drv.cap.size \in Nat
      BY <1>0, <3>2, HeaderTypes DEF Context
    <3>4. Fits(drv.cap, call.want)
      BY <2>4, <3>3 DEF SizeChanged, FmtChanged, Fits
    <3> QED
      BY <2>1, <2>4, <3>1, <3>4 DEF FitInv, Fits
  <2> QED
    BY <1>5, <2>2, <2>3, <2>4 DEF EnsureCapture
<1>6. CASE RebuildOutput
  BY <1>6, RebuildOutputTo, FitUnchanged DEF PastEnsure
<1>7. CASE AllocCapture
  <2>1. CASE Fails(call.faulty \/ ~FormatRefused) /\ UNCHANGED <<drv, krn>>
    BY <2>1, FitLost DEF Fails
  <2>2. CASE ~(Fails(call.faulty \/ ~FormatRefused) /\ UNCHANGED <<drv, krn>>)
    <3>1. /\ drv'.cap = call.want /\ krn'.cap = call.want /\ call'.want = call.want
          /\ shown' = shown
      BY <1>7, <2>2, AllocCaptureTo DEF GeometryRead
    <3>2. call.want \in Headers
      BY <1>7, Facts DEF AllocCapture, At
    <3>3. Fits(call.want, call.want)
      BY <3>2, HeaderTypes DEF Fits
    <3> QED
      BY <3>1, <3>3 DEF FitInv, Fits
  <2> QED
    BY <2>1, <2>2
<1>8. CASE StreamOn
  <2>1. call.at = "streamon" /\ krn' = krn /\ drv'.cap = drv.cap
    BY <1>0, <1>8 DEF StreamOn, At, Fails, Lost, Context
  <2>2. CASE Fails(TRUE)
    BY <2>1, <2>2, FitLost DEF Fails
  <2>3. CASE Goto("submit") /\ shown' = shown
    <3>1. call'.want = call.want
      BY <1>0, <2>3 DEF Goto, Picture
    <3> QED
      BY <2>1, <2>3, <3>1, FitUnchanged DEF PastEnsure
  <2> QED
    BY <1>8, <2>2, <2>3 DEF StreamOn
<1>9. ASSUME NEW k \in OutSlots, Submit(k)
      PROVE  FitInv'
  <2>1. drv'.cap = drv.cap /\ krn' = krn /\ call.at = "submit"
    BY <1>9, SubmitTo
  <2>2. ASSUME NEW faulty, Fails(faulty) PROVE FitInv'
    BY <2>1, <2>2, FitLost DEF Fails
  <2>3. CASE shown'.want = call.want /\ shown'.cap = krn.cap /\ call'.at = "reinit"
    BY <2>1, <2>3 DEF FitInv, Fits, PastEnsure
  <2> QED
    BY <1>9, <2>2, <2>3, SubmitTo
<1>10. CASE Reinit
  <2>1. call'.at = "idle" /\ UNCHANGED <<drv, krn, shown>>
    BY <1>10 DEF Reinit
  <2> QED
    BY <2>1, FitUnchanged DEF PastEnsure
<1> QED
  BY <1>1, <1>2, <1>3, <1>4, <1>5, <1>6, <1>7, <1>8, <1>9, <1>10 DEF Next

(* Every decoded picture fits the buffers it was decoded into, over any    *)
(* growths, shrinkages and half-done renegotiations.                       *)
THEOREM PicturesFit ==
  ASSUME GeometryRead
  PROVE  Spec => []CaptureFits
<1>1. Init => FitInv
  BY DEF Init, FitInv, Fits, PastEnsure, NoHeader
<1>2. FitInv => CaptureFits
  BY DEF FitInv, Fits, CaptureFits
<1> QED
  BY <1>1, <1>2, InvHolds, FitKept, PTL DEF Spec

-----------------------------------------------------------------------------
(***************************************************************************)
(* FailuresHeal, for the streams the code supports: the depth of an H.264  *)
(* stream and the size of an AV1 stream do not change, and an OUTPUT queue *)
(* that was given up can be set up again.                                  *)
(***************************************************************************)
Supported ==
  /\ "out_setup" \notin Faults
  /\ \A c \in Codecs \cap {"H264"} : \A g, h \in Streams[c] : g.depth = h.depth
  /\ \A c \in Codecs \cap {"AV1"} : \A g, h \in Streams[c] : g.size = h.size

(* The OUTPUT queue stays allocated; AV1's memoised plane lengths are those *)
(* of its buffers; an H.264 device with CAPTURE buffers has a sequence.    *)
DeviceInv ==
  /\ drv.outAlloc
  /\ codec = "AV1" => /\ \A h \in Streams[codec] : krn.out = h.size
                      /\ \A k \in OutSlots : drv.len[k] \in {0, krn.len}
  /\ codec = "H264" /\ (drv.capAlloc \/ drv.seq # NoHeader) => krn.seq # NoHeader

(* A picture is lost to a request that was not recycled, which its loss    *)
(* closes; so the next is not.                                             *)
StreakInv ==
  /\ streak \in {0, 1}
  /\ streak = 1 => req # "spent" /\ call.at # "reinit"

LEMMA DeviceUnchanged ==
  ASSUME DeviceInv, codec' = codec, drv'.outAlloc = drv.outAlloc, drv'.len = drv.len,
         drv'.seq = drv.seq, drv'.capAlloc => drv.capAlloc,
         krn'.out = krn.out, krn'.len = krn.len, krn'.seq = krn.seq
  PROVE  DeviceInv'
BY DEF DeviceInv

LEMMA DeviceInit == Supported /\ Init => DeviceInv
<1> SUFFICES ASSUME Supported, Init PROVE DeviceInv
  OBVIOUS
<1>1. PICK h \in Streams[codec], d \in Depths :
        LET cap == IF codec \in CaptureDeferred THEN NoHeader ELSE [size |-> h.size, depth |-> d]
        IN  /\ drv = [seq |-> NoHeader, cap |-> cap, capAlloc |-> codec \notin CaptureDeferred,
                      outAlloc |-> TRUE, mapped |-> TRUE,
                      len |-> [k \in OutSlots |-> 0], streamed |-> FALSE]
            /\ krn = [seq |-> NoHeader, cap |-> cap, out |-> h.size, len |-> h.size]
  BY DEF Init
<1>2. /\ drv.outAlloc = TRUE /\ drv.seq = NoHeader /\ krn.out = h.size
      /\ drv.capAlloc = (codec \notin CaptureDeferred)
      /\ \A k \in OutSlots : drv.len[k] = 0
  BY <1>1
<1>3. codec = "H264" => ~drv.capAlloc
  BY <1>2 DEF CaptureDeferred
<1>4. codec = "AV1" => \A g \in Streams[codec] : g.size = h.size
  BY DEF Supported, Init
<1> QED
  BY <1>2, <1>3, <1>4 DEF DeviceInv

LEMMA DeviceKept == Supported /\ IInv /\ DeviceInv /\ [Next]_vars => DeviceInv'
<1> SUFFICES ASSUME Supported, IInv, DeviceInv, [Next]_vars PROVE DeviceInv'
  OBVIOUS
<1>0. drv \in Context /\ krn \in Device /\ call \in Picture
  BY Types DEF IInv
<1>1. CASE UNCHANGED vars
  BY <1>1, DeviceUnchanged DEF vars
<1>2. ASSUME UNCHANGED <<codec, drv, krn>>
      PROVE  DeviceInv'
  BY <1>2, DeviceUnchanged
<1>3. CASE \E h \in Streams[codec] : BeginPicture(h)
  BY <1>2, <1>3 DEF BeginPicture
<1>4. CASE EndPicture \/ Reinit
  BY <1>2, <1>4 DEF EndPicture, Reinit, Fails, Lost
<1>5. CASE SetSequence
  <2>1. call.want \in Headers /\ call.want # NoHeader /\ codec' = codec
    BY <1>5, Facts, HeaderTypes DEF SetSequence, At
  <2>2. CASE UNCHANGED <<drv, krn>>
    BY <1>2, <2>1, <2>2
  <2>3. CASE drv' = [drv EXCEPT !.seq = call.want] /\ krn' = [krn EXCEPT !.seq = call.want]
    <3>1. /\ drv'.outAlloc = drv.outAlloc /\ drv'.len = drv.len
          /\ krn'.out = krn.out /\ krn'.len = krn.len /\ krn'.seq = call.want
      BY <1>0, <2>3 DEF Context, Device
    <3> QED
      BY <2>1, <3>1 DEF DeviceInv
  <2>4. CASE drv' = [drv EXCEPT !.seq = call.want] /\ krn' = krn /\ RefusalTolerated
    <3>1. drv'.outAlloc = drv.outAlloc /\ drv'.len = drv.len
      BY <1>0, <2>4 DEF Context
    <3>2. codec = "H264" => drv.capAlloc
      BY <2>4 DEF RefusalTolerated
    <3> QED
      BY <2>1, <2>4, <3>1, <3>2 DEF DeviceInv
  <2> QED
    BY <1>5, <2>2, <2>3, <2>4 DEF SetSequence
<1>6. CASE EnsureCapture
  <2>1. drv' \in {drv, Released, [drv EXCEPT !.streamed = FALSE]}
    BY <1>6 DEF EnsureCapture
  <2>2. /\ drv'.outAlloc = drv.outAlloc /\ drv'.len = drv.len /\ drv'.seq = drv.seq
        /\ drv'.capAlloc => drv.capAlloc
    BY <1>0, <2>1 DEF Context, Released
  <2>3. krn' = krn /\ codec' = codec
    BY <1>6 DEF EnsureCapture, Fails, Lost
  <2> QED
    BY <2>2, <2>3, DeviceUnchanged
<1>7. CASE RebuildOutput
  <2>1. codec = "AV1" => krn' = krn
    <3> SUFFICES ASSUME codec = "AV1" PROVE ~OutputTooSmall
      BY <1>7, RebuildOutputTo
    <3>1. call.want \in Streams[codec] /\ call.want \in Headers
      BY <1>7, Facts DEF RebuildOutput, At
    <3>2. krn.out = call.want.size /\ call.want.size \in Nat
      BY <3>1, HeaderTypes DEF DeviceInv
    <3> QED
      BY <3>2 DEF OutputTooSmall
  <2>2. drv'.outAlloc = drv.outAlloc
    BY <1>7, RebuildOutputTo DEF Supported
  <2> QED
    BY <1>7, <2>1, <2>2, RebuildOutputTo DEF DeviceInv
<1>8. CASE AllocCapture
  <2>1. CASE Fails(call.faulty \/ ~FormatRefused) /\ UNCHANGED <<drv, krn>>
    BY <1>2, <2>1 DEF Fails, Lost
  <2>2. CASE ~(Fails(call.faulty \/ ~FormatRefused) /\ UNCHANGED <<drv, krn>>)
    <3>1. /\ drv'.outAlloc = drv.outAlloc /\ drv'.len = drv.len /\ krn'.seq = krn.seq
          /\ krn'.out = krn.out /\ krn'.len = krn.len /\ codec' = codec
      BY <1>8, <2>2, AllocCaptureTo
    <3>2. drv.seq = call.want /\ call.want \in Headers
      BY <1>8, Facts DEF AllocCapture, At, PastSequence
    <3>3. drv.seq # NoHeader
      BY <3>2, HeaderTypes
    <3> QED
      BY <3>1, <3>3 DEF DeviceInv
  <2> QED
    BY <2>1, <2>2
<1>9. CASE StreamOn
  <2>1. drv' \in {drv, [drv EXCEPT !.streamed = TRUE]} /\ krn' = krn /\ codec' = codec
    BY <1>9 DEF StreamOn, Fails, Lost
  <2>2. /\ drv'.outAlloc = drv.outAlloc /\ drv'.len = drv.len /\ drv'.seq = drv.seq
        /\ drv'.capAlloc = drv.capAlloc
    BY <1>0, <2>1 DEF Context
  <2> QED
    BY <2>1, <2>2, DeviceUnchanged
<1>10. CASE \E k \in OutSlots : Submit(k)
  BY <1>10, SubmitTo DEF DeviceInv
<1> QED
  BY <1>1, <1>3, <1>4, <1>5, <1>6, <1>7, <1>8, <1>9, <1>10 DEF Next

(* What the device refuses of itself does not happen to these streams.     *)
LEMMA SequenceNeverBusy ==
  ASSUME Supported, IInv, DeviceInv, call.at # "idle"
  PROVE  ~SequenceBusy
<1>1. codec \in Codecs /\ call.want \in Streams[codec] /\ krn.seq \in Streams[codec] \cup {NoHeader}
  BY Facts, Types DEF IInv
<1> QED
  BY <1>1 DEF Supported, SequenceBusy

LEMMA FormatNeverRefused ==
  ASSUME Supported, IInv, DeviceInv, call.at = "capture"
  PROVE  ~FormatRefused
<1>1. /\ codec \in Codecs /\ call.want \in Streams[codec] /\ call.want \in Headers
      /\ krn.seq \in Streams[codec] \cup {NoHeader} /\ drv.seq = call.want
      /\ codec \notin SequenceOnRequest => drv.seq = krn.seq
  BY Facts, Types DEF IInv, PastSequence
<1>2. drv.seq # NoHeader
  BY <1>1, HeaderTypes
<1>3. codec = "H264" => krn.seq.depth = call.want.depth
  BY <1>1, <1>2 DEF Supported, DeviceInv
<1>4. codec = "HEVC" => krn.seq = call.want
  BY <1>1 DEF SequenceOnRequest
<1> QED
  BY <1>3, <1>4 DEF FormatRefused, DepthFollowsSequence

LEMMA LengthNeverRefused ==
  ASSUME DeviceInv, NEW k \in OutSlots
  PROVE  ~LengthRefused(k)
BY DEF DeviceInv, LengthRefused, PlaneLength

(* A picture that is lost to no refusal is lost to a request not recycled. *)
LEMMA StreakLost ==
  ASSUME StreakInv, NEW faulty \in BOOLEAN, Lost(faulty),
         faulty \/ req = "spent", req' = "none" \/ (req' = req /\ req # "spent")
  PROVE  StreakInv'
<1>1. call'.at = "idle"
  BY DEF Lost
<1>2. ~faulty => streak = 0
  BY DEF StreakInv
<1>3. streak' = IF faulty THEN 0 ELSE 1
  BY <1>2 DEF Lost
<1> QED
  BY <1>1, <1>3 DEF StreakInv

LEMMA StreakGoesOn ==
  ASSUME StreakInv, streak' = streak, req' = req \/ req' = "ready", call'.at # "reinit"
  PROVE  StreakInv'
BY DEF StreakInv

LEMMA StreakKept == Supported /\ IInv /\ DeviceInv /\ StreakInv /\ [Next]_vars => StreakInv'
<1> SUFFICES ASSUME Supported, IInv, DeviceInv, StreakInv, [Next]_vars PROVE StreakInv'
  OBVIOUS
<1>0. call \in Picture /\ call.faulty \in BOOLEAN
  BY Facts, Types DEF IInv
<1>1. CASE UNCHANGED vars
  BY <1>1 DEF vars, StreakInv
<1>2. ASSUME Fails(TRUE) PROVE StreakInv'
  BY <1>2, StreakLost DEF Fails
<1>3. ASSUME NEW step \in Steps \ {"reinit"}, Goto(step) \/ GotoRefused(step),
             UNCHANGED <<req, streak>>
      PROVE  StreakInv'
  <2>1. call'.at = step
    BY <1>3, NextStep
  <2> QED
    BY <1>3, <2>1, StreakGoesOn
<1>4. ASSUME NEW h \in Streams[codec], BeginPicture(h)
      PROVE  StreakInv'
  <2>1. /\ call'.at = "begun" /\ streak' = streak
        /\ req' = req \/ req' = "ready"
    BY <1>4 DEF BeginPicture
  <2> QED
    BY <2>1, StreakGoesOn
<1>5. CASE EndPicture
  <2>1. CASE req = "none" /\ Lost(TRUE) /\ UNCHANGED req
    BY <2>1, StreakLost
  <2> QED
    BY <1>2, <1>3, <1>5, <2>1 DEF EndPicture, Steps
<1>6. CASE SetSequence
  <2>1. ~SequenceBusy
    BY <1>6, SequenceNeverBusy DEF SetSequence, At
  <2>2. CASE Fails(call.faulty \/ ~SequenceBusy)
    BY <1>2, <2>1, <2>2
  <2>3. CASE ~Fails(call.faulty \/ ~SequenceBusy)
    <3>1. call'.at = "ensure" /\ UNCHANGED <<req, streak>>
      BY <1>0, <1>6, <2>3 DEF SetSequence, Goto, Picture
    <3> QED
      BY <3>1, StreakGoesOn
  <2> QED
    BY <2>2, <2>3
<1>7. CASE EnsureCapture
  BY <1>2, <1>3, <1>7 DEF EnsureCapture, Steps
<1>8. CASE RebuildOutput
  BY <1>8, RebuildOutputTo, StreakGoesOn
<1>9. CASE AllocCapture
  <2>1. ~FormatRefused
    BY <1>9, FormatNeverRefused DEF AllocCapture, At
  <2>2. CASE Fails(call.faulty \/ ~FormatRefused)
    BY <1>2, <2>1, <2>2
  <2>3. CASE ~Fails(call.faulty \/ ~FormatRefused)
    BY <1>9, <2>3, AllocCaptureTo, StreakGoesOn
  <2> QED
    BY <2>2, <2>3
<1>10. CASE StreamOn
  BY <1>2, <1>3, <1>10 DEF StreamOn, Steps
<1>11. ASSUME NEW k \in OutSlots, Submit(k)
       PROVE  StreakInv'
  <2>1. drv.outAlloc = TRUE /\ ~LengthRefused(k)
    BY LengthNeverRefused, Facts DEF DeviceInv, Context
  <2>2. CASE Fails(call.faulty \/ (req # "spent" /\ drv.outAlloc))
    <3>1. (call.faulty \/ (req # "spent" /\ drv.outAlloc)) \in BOOLEAN
      OBVIOUS
    <3>2. (call.faulty \/ (req # "spent" /\ drv.outAlloc)) \/ req = "spent"
      BY <2>1
    <3> QED
      BY <2>2, <3>1, <3>2, StreakLost DEF Fails
  <2>3. CASE Fails(call.faulty \/ ~LengthRefused(k))
    BY <1>2, <2>1, <2>3
  <2>4. CASE streak' = 0
    BY <2>4 DEF StreakInv
  <2> QED
    BY <1>2, <1>11, <2>2, <2>3, <2>4, SubmitTo
<1>12. CASE Reinit
  <2>1. streak = 0 /\ streak' = streak
    BY <1>12 DEF Reinit, At, StreakInv
  <2> QED
    BY <2>1 DEF StreakInv
<1> QED
  BY <1>1, <1>4, <1>5, <1>6, <1>7, <1>8, <1>9, <1>10, <1>11, <1>12 DEF Next

(***************************************************************************)
(* After the kernel has refused something, at most one more picture is     *)
(* lost before pictures are decoded again: no error path leaves behind     *)
(* what the next picture fails on.                                         *)
(***************************************************************************)
THEOREM RefusalsHeal ==
  ASSUME Supported
  PROVE  Spec => []FailuresHeal
<1>1. Init => DeviceInv /\ StreakInv
  <2>1. Init => StreakInv
    BY DEF Init, StreakInv
  <2> QED
    BY <2>1, DeviceInit
<1>2. IInv /\ DeviceInv /\ StreakInv /\ [Next]_vars => DeviceInv' /\ StreakInv'
  BY DeviceKept, StreakKept
<1>3. StreakInv => FailuresHeal
  BY DEF StreakInv, FailuresHeal
<1> QED
  BY <1>1, <1>2, <1>3, InvHolds, PTL DEF Spec

=============================================================================
