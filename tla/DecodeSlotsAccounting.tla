----------------------- MODULE DecodeSlotsAccounting -----------------------
(***************************************************************************)
(* No buffer gets lost, in the GBM-copy mode: every CAPTURE slot and every *)
(* OUTPUT slot is always somewhere, the slots the kernel predicts from are *)
(* never free, and the book-keeping as a whole implements SlotPool.        *)
(*                                                                         *)
(* DecodeSlotsProofs shows that no slot is in two places.  The reverse     *)
(* is not so for every stream and every failure: README.md, section 5,     *)
(* lists what loses a slot, and the hypotheses Av1Quiet, OutMode and       *)
(* SteadyPools leave out exactly those.  What is said of OUTPUT slots      *)
(* holds in the EXPBUF mode too, by an invariant of its own.               *)
(***************************************************************************)
EXTENDS DecodeSlotsProofs, PoolRefinement

(* An AV1 stream of one size whose frame headers are all found, and whose  *)
(* frames are decoded in time and snapshotted: nothing resets the driver's *)
(* reference model while the kernel's stays.  The other codecs have no     *)
(* such model and no such restriction.                                     *)
Av1Quiet ==
  (\E c \in Contexts : Codec[c] = "AV1") =>
    {"no_obu", "pull", "resize", "timeout"} \cap Events = {}

(* No QBUF of CAPTURE fails, and no STREAMOFF of a resize finds an OUTPUT  *)
(* buffer that was late.                                                   *)
OutMode == "qbuf_cap" \notin Events /\ ("late_out" \in Events => "resize" \notin Events)

-----------------------------------------------------------------------------
(* What the fields of one context record say of each other.                *)

(* Slots that are listed or referenced exist, and can be mapped.           *)
BoundsOK(c, x) ==
  /\ \A k \in Slots : k \in x.free \/ (\E r \in Refs : x.slotBuf[r] = k) =>
       k < x.allocd /\ (Av1Quiet => k < NumCap)
  /\ Codec[c] # "AV1" => x.allocd <= NumCap
  /\ Av1Quiet /\ Codec[c] = "AV1" => x.allocd > 0

(* The kernel's reference table is the driver's, but for the frame that    *)
(* was decoded into slot k and is not yet entered for the references R.    *)
TableOK(x, R, k) ==
  Av1Quiet => \A r \in Refs : x.kdpb[r] = IF r \in R THEN k ELSE x.slotBuf[r]

(* Every OUTPUT slot is free, done, or the one in hand, o.                 *)
OutputsOK(x, o) ==
  OutMode =>
    /\ \A i \in OutSlots : i < x.outAllocd => i \in x.freeOut \cup x.done \cup {o}
    /\ x.done # {} => "late_out" \in Events /\ x.allocd > 0

InHand(c) == IF call.ctx = c /\ call.at \in {"submit", "wait"} THEN call.out ELSE None

Pending(c) ==
  IF call.ctx = c /\ call.at = "attach" /\ ~call.bad THEN call.refresh ELSE {}

RecordOK(c, x, o, R, k) == BoundsOK(c, x) /\ TableOK(x, R, k) /\ OutputsOK(x, o)

(* The picture in progress: an AV1 frame has switched the model on, no     *)
(* other codec refreshes references, and its slot can be mapped.           *)
PictureOK ==
  /\ call.at # "idle" /\ Codec[call.ctx] # "AV1" => call.refresh = {}
  /\ Av1Quiet /\ call.at \in {"start", "submit", "wait", "attach"}
        /\ Codec[call.ctx] = "AV1" => ctx[call.ctx].active
  /\ call.at \in {"wait", "attach"} /\ Av1Quiet => call.cap < NumCap

RecordsOK == \A c \in live : RecordOK(c, ctx[c], InHand(c), Pending(c), call.cap)

RInv == PictureOK /\ RecordsOK

(* Records that agree on what RecordOK looks at.                           *)
SameRecord(y, x) ==
  /\ y.free = x.free /\ y.allocd = x.allocd /\ y.slotBuf = x.slotBuf
  /\ y.kdpb = x.kdpb /\ y.outAllocd = x.outAllocd
  /\ y.freeOut = x.freeOut /\ y.done = x.done

LEMMA RecordSame ==
  ASSUME NEW c, NEW x, NEW y, NEW o, NEW R, NEW k, RecordOK(c, x, o, R, k),
         SameRecord(y, x)
  PROVE  RecordOK(c, y, o, R, k)
BY DEF RecordOK, SameRecord, BoundsOK, TableOK, OutputsOK

(* With no references pending the slot does not matter.                    *)
LEMMA RecordNone ==
  ASSUME NEW c, NEW x, NEW o, NEW k, NEW j, RecordOK(c, x, o, {}, k)
  PROVE  RecordOK(c, x, o, {}, j)
BY DEF RecordOK, TableOK

(* The exits and jumps of vaEndPicture.                                    *)
LEMMA FinishRecords ==
  ASSUME IInv, RInv, NEW c \in live, NEW x \in ContextRec, NEW f, NEW st, NEW ret,
         NEW k, RecordOK(c, x, None, {}, k),
         call.at = "idle" \/ call.ctx = c,
         Finish(c, x, f, st, ret)
  PROVE  RInv'
<1>1. c \in Contexts /\ ctx \in [Contexts -> ContextRec] /\ live \subseteq Contexts
  BY DEF IInv, TypeOK
<1>2. live' = live /\ call'.at = "idle" /\ call'.bad = FALSE
  BY DEF Finish, Idle
<1>3. /\ ctx'[c] = [x EXCEPT !.current = NoSurface]
      /\ \A d \in live \ {c} : ctx'[d] = ctx[d]
  BY <1>1 DEF Finish
<1>4. SameRecord(ctx'[c], x)
  BY <1>3 DEF ContextRec, SameRecord
<1>5. \A d : InHand(d)' = None /\ Pending(d)' = {}
  BY <1>2 DEF InHand, Pending
<1>6. \A d \in live \ {c} : InHand(d) = None /\ Pending(d) = {}
  BY DEF InHand, Pending
<1>7. RecordOK(c, ctx'[c], None, {}, call'.cap)
  BY <1>4, RecordSame, RecordNone
<1>8. ASSUME NEW d \in live \ {c} PROVE RecordOK(d, ctx'[d], None, {}, call'.cap)
  <2>1. RecordOK(d, ctx[d], None, {}, call.cap)
    BY <1>6 DEF RInv, RecordsOK
  <2>2. QED  BY <1>3, <2>1, RecordNone
<1>9. RecordsOK'
  <2> SUFFICES ASSUME NEW d \in live
               PROVE  RecordOK(d, ctx[d], InHand(d), Pending(d), call.cap)'
    BY <1>2 DEF RecordsOK
  <2>1. RecordOK(d, ctx'[d], None, {}, call'.cap)
    BY <1>7, <1>8
  <2>2. QED
    BY <1>5, <2>1 DEF RecordOK, BoundsOK, TableOK, OutputsOK
<1>10. QED  BY <1>2, <1>9 DEF RInv, PictureOK

LEMMA FailRecords ==
  ASSUME IInv, RInv, NEW c \in live, NEW x \in ContextRec, NEW f,
         NEW k, RecordOK(c, x, None, {}, k),
         call.at = "idle" \/ call.ctx = c,
         Fail(c, x, f)
  PROVE  RInv'
<1> DEFINE y == [x EXCEPT !.request = "none"]
<1>1. y \in ContextRec /\ SameRecord(y, x)
  BY DEF ContextRec, SameRecord
<1>2. Finish(c, y, f, "Skipped", "error")
  BY DEF Fail
<1> HIDE DEF y
<1>3. RecordOK(c, y, None, {}, k)
  BY <1>1, RecordSame
<1>4. QED  BY <1>1, <1>2, <1>3, FinishRecords

LEMMA GotoRecords ==
  ASSUME IInv, RInv, NEW c \in live, NEW x \in ContextRec, NEW f, NEW next,
         call.at = "idle" \/ call.ctx = c,
         next.ctx = c, next.at # "idle",
         Codec[c] # "AV1" => next.refresh = {},
         Av1Quiet /\ next.at # "prepare" /\ Codec[c] = "AV1" => x.active,
         next.at \in {"wait", "attach"} /\ Av1Quiet => next.cap < NumCap,
         RecordOK(c, x, IF next.at \in {"submit", "wait"} THEN next.out ELSE None,
                  IF next.at = "attach" /\ ~next.bad THEN next.refresh ELSE {},
                  next.cap),
         Goto(c, x, f, next)
  PROVE  RInv'
<1>1. c \in Contexts /\ ctx \in [Contexts -> ContextRec] /\ live \subseteq Contexts
  BY DEF IInv, TypeOK
<1>2. /\ live' = live /\ call' = next /\ ctx'[c] = x
      /\ \A d \in live \ {c} : ctx'[d] = ctx[d]
  BY <1>1 DEF Goto
<1>3. /\ InHand(c)' = IF next.at \in {"submit", "wait"} THEN next.out ELSE None
      /\ Pending(c)' = IF next.at = "attach" /\ ~next.bad THEN next.refresh ELSE {}
  BY <1>2 DEF InHand, Pending
<1>4. \A d \in live \ {c} : /\ InHand(d) = None /\ Pending(d) = {}
                            /\ InHand(d)' = None /\ Pending(d)' = {}
  BY <1>2 DEF InHand, Pending
<1>5. RecordOK(c, ctx'[c], InHand(c)', Pending(c)', call'.cap)
  BY <1>2, <1>3
<1>6. ASSUME NEW d \in live \ {c}
      PROVE  RecordOK(d, ctx'[d], InHand(d)', Pending(d)', call'.cap)
  <2>1. RecordOK(d, ctx[d], None, {}, call.cap)
    BY <1>4 DEF RInv, RecordsOK
  <2>2. QED  BY <1>2, <1>4, <2>1, RecordNone
<1>7. RecordsOK'
  BY <1>2, <1>5, <1>6 DEF RecordsOK, RecordOK, BoundsOK, TableOK, OutputsOK
<1>8. PictureOK'
  BY <1>2 DEF PictureOK
<1>9. QED  BY <1>7, <1>8 DEF RInv

LEMMA RecordFacts ==
  ASSUME IInv, RInv, call.at # "idle"
  PROVE  LET c == call.ctx
         IN  RecordOK(c, ctx[c], InHand(c), Pending(c), call.cap)
BY CallFacts DEF RInv, RecordsOK

LEMMA RecordsEndPicture ==
  ASSUME IInv, RInv, NEW c \in Contexts, EndPicture(c)
  PROVE  RInv'
<1> DEFINE next == [Idle EXCEPT !.at = "prepare", !.ctx = c]
<1>1. c \in live /\ call.at = "idle" /\ ctx[c] \in ContextRec
  BY DEF EndPicture, LockFree, IInv, TypeOK
<1>2. RecordOK(c, ctx[c], None, {}, call.cap)
  <2>1. InHand(c) = None /\ Pending(c) = {}
    BY <1>1 DEF InHand, Pending
  <2>2. QED  BY <1>1, <2>1 DEF RInv, RecordsOK
<1>3. CASE \E st, ret : Finish(c, ctx[c], surf, st, ret)
  BY <1>1, <1>2, <1>3, FinishRecords
<1>4. CASE Goto(c, ctx[c], surf, next)
  <2>1. next.at = "prepare" /\ next.ctx = c /\ next.refresh = {}
    BY DEF Idle
  <2> HIDE DEF next
  <2>2. RecordOK(c, ctx[c], None, {}, next.cap)
    BY <1>2, RecordNone
  <2>3. QED  BY <1>1, <1>4, <2>1, <2>2, GotoRecords
<1>5. QED  BY <1>3, <1>4 DEF EndPicture

LEMMA HeadersRecord ==
  ASSUME NEW c, NEW x \in ContextRec, NEW h \in Headers(c, x)
  PROVE  /\ SameRecord(h.x, x)
         /\ Codec[c] # "AV1" => h.refresh = {}
         /\ Codec[c] = "AV1" /\ "no_obu" \notin Events => h.x.active
<1>1. CASE Codec[c] # "AV1"
  BY <1>1 DEF Headers, SameRecord
<1>2. CASE Codec[c] = "AV1"
  <2>1. PICK obu \in {b \in BOOLEAN : (IF b THEN "obu" ELSE "no_obu") \in Events} :
          h.x = [x EXCEPT !.active = x.active \/ obu]
    BY <1>2 DEF Headers
  <2>2. \A b : SameRecord([x EXCEPT !.active = b], x) /\ [x EXCEPT !.active = b].active = b
    BY DEF ContextRec, SameRecord
  <2>3. PICK b : h.x = [x EXCEPT !.active = b]
    BY <2>1
  <2>4. SameRecord(h.x, x)
    BY <2>2, <2>3
  <2>5. "no_obu" \notin Events => h.x.active
    <3>1. "no_obu" \notin Events => obu = TRUE
      BY <2>1
    <3>2. obu = TRUE => (x.active \/ obu) = TRUE
      BY Zenon
    <3>3. QED  BY <2>1, <2>2, <3>1, <3>2, Zenon
  <2>6. QED  BY <1>2, <2>4, <2>5
<1>3. QED  BY <1>1, <1>2

(* A queue that is stopped and allocated anew.  That happens to a resized  *)
(* stream, and to one whose queue has yet to be allocated.                 *)
LEMMA RebuiltRecords ==
  ASSUME NEW c \in Contexts, NEW x \in ContextRec, NEW k, RecordOK(c, x, None, {}, k),
         \A r \in Refs : x.slotBuf[r] # None => x.streamed,
         "resize" \in Events \/ x.allocd = 0
  PROVE  /\ RecordOK(c, CaptureStopped(x), None, {}, k)
         /\ \A z \in OutputQueues(CaptureStopped(x)), n \in CapGrants(c) \cup {0} :
              RecordOK(c, CaptureQueue(z, n), None, {}, k)
<1> DEFINE y == CaptureStopped(x)
<1>1. y \in ContextRec /\ \A z \in OutputQueues(y) : z \in ContextRec
  <2>1. y \in ContextRec
    BY ResetTypes
  <2>2. QED  BY <2>1, ResetTypes
<1>2. x.allocd \in 0 .. NumCapAV1 /\ NumCapAV1 \in Nat
  BY SlotFacts DEF ContextRec
<1>3. /\ \A r \in Refs : y.slotBuf[r] = None /\ y.kdpb[r] = IF Av1Quiet THEN None ELSE y.kdpb[r]
      /\ y.free = x.free /\ y.allocd = x.allocd
      /\ y.freeOut = x.freeOut /\ y.outAllocd = x.outAllocd
      /\ y.done \subseteq x.done
  <2>1. CASE x.streamed
    BY <2>1 DEF CaptureStopped, DpbModelReset, StreamOff, ContextRec
  <2>2. CASE ~x.streamed
    <3>1. y = x /\ \A r \in Refs : x.slotBuf[r] = None
      BY <2>2 DEF CaptureStopped
    <3>2. Av1Quiet => \A r \in Refs : x.kdpb[r] = None
      BY <3>1 DEF RecordOK, TableOK
    <3>3. QED  BY <3>1, <3>2
  <2>3. QED  BY <2>1, <2>2
<1>4. OutMode => x.done = {}
  <2>1. OutMode /\ x.done # {} => "late_out" \in Events /\ x.allocd > 0
    BY DEF RecordOK, OutputsOK
  <2>2. QED  BY <1>2, <2>1 DEF OutMode
<1>5. Av1Quiet => Codec[c] # "AV1"
  BY <1>2 DEF RecordOK, BoundsOK, Av1Quiet
<1> HIDE DEF y
<1>6. OutputsOK(y, None) /\ y.done = IF OutMode THEN {} ELSE y.done
  BY <1>3, <1>4 DEF OutputsOK, RecordOK
<1>7. TableOK(y, {}, k)
  BY <1>3 DEF TableOK
<1>8. BoundsOK(c, y)
  BY <1>3, SlotFacts DEF BoundsOK, RecordOK
<1>9. ASSUME NEW z \in OutputQueues(y), NEW n \in CapGrants(c) \cup {0}
      PROVE  RecordOK(c, CaptureQueue(z, n), None, {}, k)
  <2> DEFINE w == CaptureQueue(z, n)
  <2>1. /\ z.slotBuf = y.slotBuf /\ z.kdpb = y.kdpb /\ z.done = y.done
        /\ OutMode => \A i \in OutSlots : i < z.outAllocd => i \in z.freeOut
    <3>1. \/ z = y
          \/ z = [y EXCEPT !.freeOut = OutSlots, !.outAllocd = NumOut]
          \/ z = [y EXCEPT !.freeOut = {}, !.outAllocd = 0]
      BY DEF OutputQueues
    <3>2. CASE z = y
      <4>1. OutMode => \A i \in OutSlots : i < y.outAllocd => i \in y.freeOut \cup {} \cup {None}
        BY <1>6 DEF OutputsOK
      <4>2. QED  BY <3>2, <4>1, SlotFacts
    <3>3. CASE z = [y EXCEPT !.freeOut = OutSlots, !.outAllocd = NumOut]
      BY <1>1, <3>3 DEF ContextRec
    <3>4. CASE z = [y EXCEPT !.freeOut = {}, !.outAllocd = 0]
      BY <1>1, <3>4 DEF ContextRec, OutSlots
    <3>5. QED  BY <3>1, <3>2, <3>3, <3>4
  <2>2. /\ w.slotBuf = z.slotBuf /\ w.kdpb = z.kdpb /\ w.done = z.done
        /\ w.freeOut = z.freeOut /\ w.outAllocd = z.outAllocd
        /\ w.allocd = n /\ w.free = {j \in 0 .. n - 1 : j < NumCap}
    BY <1>1 DEF CaptureQueue, ContextRec
  <2> HIDE DEF w
  <2>3. OutputsOK(w, None)
    BY <1>6, <2>1, <2>2 DEF OutputsOK
  <2>4. TableOK(w, {}, k)
    BY <1>7, <2>1, <2>2 DEF TableOK
  <2>5. n \in Int /\ NumCap \in Nat /\ (Codec[c] # "AV1" => n <= NumCap)
    BY ConstantAssumption DEF CapGrants
  <2>6. BoundsOK(c, w)
    <3>1. \A j \in Slots : j \in w.free \/ (\E r \in Refs : w.slotBuf[r] = j) =>
             j < w.allocd /\ j < NumCap
      BY <1>3, <2>1, <2>2, <2>5, SlotFacts
    <3>2. QED  BY <1>5, <2>2, <2>5, <3>1 DEF BoundsOK
  <2>7. QED  BY <2>3, <2>4, <2>6 DEF RecordOK, w
<1>10. QED  BY <1>6, <1>7, <1>8, <1>9 DEF RecordOK, y

LEMMA RecordsPrepare == ASSUME IInv, RInv, Prepare PROVE RInv'
<1> DEFINE c == call.ctx
           k == call.cap
<1>1. /\ c \in live /\ c \in Contexts /\ ctx[c] \in ContextRec /\ call \in CallRec
      /\ call.at = "prepare" /\ PoolOK(c, ctx[c], surf, None)
  BY CallFacts DEF Prepare, FlightSlot
<1>2. RecordOK(c, ctx[c], None, {}, k)
  <2>1. InHand(c) = None /\ Pending(c) = {}
    BY <1>1 DEF InHand, Pending
  <2>2. QED  BY <1>1, <2>1, RecordFacts
<1>3. CASE Fail(c, ctx[c], surf)
  BY <1>1, <1>2, <1>3, FailRecords
<1>4. ASSUME NEW h \in Headers(c, ctx[c])
      PROVE  /\ h.x \in ContextRec /\ RecordOK(c, h.x, None, {}, k)
             /\ \A r \in Refs : h.x.slotBuf[r] # None => h.x.streamed
             /\ Codec[c] # "AV1" => h.refresh = {}
             /\ Av1Quiet /\ Codec[c] = "AV1" => h.x.active
  <2>1. h.x \in ContextRec /\ RecordOK(c, h.x, None, {}, k)
    BY <1>1, <1>2, HeadersTypes, HeadersRecord, RecordSame
  <2>2. \A r \in Refs : h.x.slotBuf[r] # None => h.x.streamed
    BY <1>1, HeadersQueue DEF SameQueue, PoolOK, RefsOK
  <2>3. Av1Quiet /\ Codec[c] = "AV1" => "no_obu" \notin Events
    BY <1>1 DEF Av1Quiet
  <2>4. QED  BY <1>1, <2>1, <2>2, <2>3, HeadersRecord
<1>5. ASSUME NEW h \in Headers(c, ctx[c]), Fail(c, h.x, surf) PROVE RInv'
  BY <1>1, <1>4, <1>5, FailRecords
<1>6. ASSUME NEW h \in Headers(c, ctx[c]),
             EnsureCapture(c, h.x, [call EXCEPT !.at = "start", !.refresh = h.refresh])
      PROVE  RInv'
  <2> DEFINE x == h.x
             y == CaptureStopped(x)
             f == ReleaseCtxCaptureSurfaces(x)
             next == [call EXCEPT !.at = "start", !.refresh = h.refresh]
  <2>1. /\ next.ctx = c /\ next.at = "start" /\ next.refresh = h.refresh
        /\ next.cap = k
    BY <1>1 DEF CallRec
  <2>2. /\ x \in ContextRec /\ y \in ContextRec
        /\ \A z \in OutputQueues(y), n \in CapGrants(c) \cup {0} :
             CaptureQueue(z, n) \in ContextRec
    <3>1. 0 \in 0 .. NumCapAV1 /\ CapGrants(c) \subseteq 0 .. NumCapAV1
      BY <1>1, SlotFacts
    <3>2. x \in ContextRec /\ y \in ContextRec
      BY <1>4, ResetTypes
    <3>3. OutputQueues(y) \subseteq ContextRec
      BY <3>2, ResetTypes
    <3>4. QED  BY <3>1, <3>2, <3>3, ResetTypes
  <2>3. \/ Goto(c, x, surf, next)
        \/ /\ "resize" \in Events \/ x.allocd = 0
           /\ \/ Fail(c, y, f)
              \/ \E z \in OutputQueues(y) :
                   \/ Fail(c, CaptureQueue(z, 0), f)
                   \/ \E n \in CapGrants(c) : Goto(c, CaptureQueue(z, n), f, next)
    BY <1>6 DEF EnsureCapture
  <2>4. CASE Goto(c, x, surf, next)
    <3> HIDE DEF next, x
    <3>1. QED  BY <1>1, <1>4, <2>1, <2>2, <2>4, GotoRecords DEF x
  <2>5. CASE /\ "resize" \in Events \/ x.allocd = 0
             /\ \/ Fail(c, y, f)
                \/ \E z \in OutputQueues(y) :
                     \/ Fail(c, CaptureQueue(z, 0), f)
                     \/ \E n \in CapGrants(c) : Goto(c, CaptureQueue(z, n), f, next)
    <3>1. /\ RecordOK(c, y, None, {}, k)
          /\ \A z \in OutputQueues(y), n \in CapGrants(c) \cup {0} :
               RecordOK(c, CaptureQueue(z, n), None, {}, k)
      BY <1>1, <1>4, <2>5, RebuiltRecords
    <3>2. Av1Quiet => Codec[c] # "AV1"
      <4>1. Av1Quiet /\ Codec[c] = "AV1" => x.allocd > 0 /\ "resize" \notin Events
        BY <1>1, <1>4 DEF RecordOK, BoundsOK, Av1Quiet
      <4>2. QED  BY <2>5, <4>1, SlotFacts
    <3> HIDE DEF next, x, y, f
    <3>3. CASE Fail(c, y, f)
      BY <1>1, <2>2, <3>1, <3>3, FailRecords
    <3>4. ASSUME NEW z \in OutputQueues(y), Fail(c, CaptureQueue(z, 0), f)
          PROVE  RInv'
      BY <1>1, <2>2, <3>1, <3>4, FailRecords
    <3>5. ASSUME NEW z \in OutputQueues(y), NEW n \in CapGrants(c),
                 Goto(c, CaptureQueue(z, n), f, next)
          PROVE  RInv'
      <4> DEFINE w == CaptureQueue(z, n)
      <4>1. w \in ContextRec /\ RecordOK(c, w, None, {}, k)
        BY <2>2, <3>1
      <4> HIDE DEF w
      <4>2. Goto(c, w, f, next)
        BY <3>5 DEF w
      <4>3. QED  BY <1>1, <1>4, <2>1, <3>2, <4>1, <4>2, GotoRecords
    <3>6. QED  BY <2>5, <3>3, <3>4, <3>5
  <2>6. QED  BY <2>3, <2>4, <2>5
<1>7. QED  BY <1>3, <1>5, <1>6 DEF Prepare

LEMMA RecordsStart == ASSUME IInv, RInv, Start PROVE RInv'
<1> DEFINE c == call.ctx
           k == call.cap
           x == [ctx[c] EXCEPT !.streamed = TRUE]
<1>1. /\ c \in live /\ ctx[c] \in ContextRec /\ call \in CallRec
      /\ call.at = "start"
  BY CallFacts DEF Start
<1>2. RecordOK(c, ctx[c], None, {}, k)
  <2>1. InHand(c) = None /\ Pending(c) = {}
    BY <1>1 DEF InHand, Pending
  <2>2. QED  BY <1>1, <2>1, RecordFacts
<1>3. x \in ContextRec /\ SameRecord(x, ctx[c]) /\ x.active = ctx[c].active
  BY <1>1 DEF ContextRec, SameRecord
<1>4. \/ Fail(c, ctx[c], surf) \/ Fail(c, x, surf)
      \/ \E o \in x.freeOut : Goto(c, [x EXCEPT !.freeOut = @ \ {o}], surf,
                                   [call EXCEPT !.at = "submit", !.out = o])
  BY DEF Start
<1> HIDE DEF x
<1>5. RecordOK(c, x, None, {}, k)
  BY <1>2, <1>3, RecordSame
<1>6. CASE Fail(c, ctx[c], surf) \/ Fail(c, x, surf)
  BY <1>1, <1>2, <1>3, <1>5, <1>6, FailRecords
<1>7. ASSUME NEW o \in x.freeOut,
             Goto(c, [x EXCEPT !.freeOut = @ \ {o}], surf,
                  [call EXCEPT !.at = "submit", !.out = o])
      PROVE  RInv'
  <2> DEFINE y == [x EXCEPT !.freeOut = @ \ {o}]
             next == [call EXCEPT !.at = "submit", !.out = o]
  <2>1. /\ next.ctx = c /\ next.at = "submit" /\ next.out = o /\ next.cap = k
        /\ next.refresh = call.refresh
    BY <1>1 DEF CallRec
  <2>2. /\ y \in ContextRec /\ y.freeOut = x.freeOut \ {o} /\ y.done = x.done
        /\ y.free = x.free /\ y.allocd = x.allocd /\ y.slotBuf = x.slotBuf
        /\ y.kdpb = x.kdpb /\ y.outAllocd = x.outAllocd /\ y.active = x.active
    BY <1>3 DEF ContextRec
  <2>3. Goto(c, y, surf, next)
    BY <1>7
  <2> HIDE DEF y, next
  <2>4. RecordOK(c, y, o, {}, k)
    <3>1. OutputsOK(y, o)
      <4>1. None \notin OutSlots
        BY SlotFacts
      <4>2. QED  BY <1>5, <2>2, <4>1 DEF RecordOK, OutputsOK
    <3>2. QED  BY <1>5, <2>2, <3>1 DEF RecordOK, BoundsOK, TableOK
  <2>5. /\ Codec[c] # "AV1" => next.refresh = {}
        /\ Av1Quiet /\ Codec[c] = "AV1" => y.active
    BY <1>1, <1>3, <2>1, <2>2 DEF RInv, PictureOK
  <2>6. QED  BY <1>1, <2>1, <2>2, <2>3, <2>4, <2>5, GotoRecords
<1>8. QED  BY <1>4, <1>6, <1>7

(* Slots that exist come back to the pool, or leave it.                    *)
LEMMA RecordFree ==
  ASSUME NEW c, NEW x, NEW y, NEW o, NEW R, NEW k, RecordOK(c, x, o, R, k),
         y.allocd = x.allocd, y.slotBuf = x.slotBuf, y.kdpb = x.kdpb,
         y.outAllocd = x.outAllocd, y.freeOut = x.freeOut, y.done = x.done,
         \A j \in y.free : j \in x.free \/ (j < x.allocd /\ (Av1Quiet => j < NumCap))
  PROVE  RecordOK(c, y, o, R, k)
BY DEF RecordOK, BoundsOK, TableOK, OutputsOK

LEMMA PushRecord ==
  ASSUME NEW x \in ContextRec, NEW k
  PROVE  /\ LET y == CapPoolPush(x, k)
            IN  /\ y.free = x.free \cup {k}
                /\ y.allocd = x.allocd /\ y.slotBuf = x.slotBuf /\ y.kdpb = x.kdpb
                /\ y.outAllocd = x.outAllocd /\ y.freeOut = x.freeOut
                /\ y.done = x.done /\ y.active = x.active
         /\ LET y == OutPoolPush(x, k)
            IN  /\ y.freeOut = x.freeOut \cup {k}
                /\ y.free = x.free /\ y.allocd = x.allocd /\ y.slotBuf = x.slotBuf
                /\ y.kdpb = x.kdpb /\ y.outAllocd = x.outAllocd /\ y.done = x.done
BY DEF CapPoolPush, OutPoolPush, ContextRec

LEMMA RecordOutBack ==
  ASSUME NEW c, NEW x \in ContextRec, NEW o \in OutSlots, NEW R, NEW k,
         RecordOK(c, x, o, R, k)
  PROVE  RecordOK(c, OutPoolPush(x, o), None, R, k)
<1> DEFINE y == OutPoolPush(x, o)
<1>1. /\ y.freeOut = x.freeOut \cup {o}
      /\ y.free = x.free /\ y.allocd = x.allocd /\ y.slotBuf = x.slotBuf
      /\ y.kdpb = x.kdpb /\ y.outAllocd = x.outAllocd /\ y.done = x.done
  BY PushRecord
<1> HIDE DEF y
<1>2. RecordOK(c, y, None, R, k)
  BY <1>1 DEF RecordOK, BoundsOK, TableOK, OutputsOK
<1>3. QED  BY <1>2 DEF y

(* decode_submit in the GBM-copy mode: it always pops a slot.              *)
LEMMA SubmitCases ==
  ASSUME ~ExpbufWanted, Submit, ctx[call.ctx] \in ContextRec
  PROVE  LET c == call.ctx
             o == call.out
             x == ctx[c]
         IN  \/ Fail(c, OutPoolPush(x, o), surf)
             \/ \E k \in x.free : \E y : y = [x EXCEPT !.free = @ \ {k}] /\
                  (\/ Fail(c, CapPoolPush(OutPoolPush(y, o), k), surf)
                   \/ /\ "qbuf_cap" \in Events \/ k >= x.allocd
                      /\ LET w == CapPoolPush(y, k) IN
                         \/ Fail(c, w, surf)
                         \/ \E d \in w.done :
                              Fail(c, OutPoolPush([w EXCEPT !.done = @ \ {d}], d), surf)
                   \/ Goto(c, y, surf, [call EXCEPT !.at = "wait", !.cap = k]))
<1> DEFINE x == ctx[call.ctx]
<1>1. CaptureChoices(x) = x.free
  BY DEF CaptureChoices
<1>2. ASSUME NEW k \in x.free, NEW y, y = [x EXCEPT !.free = @ \ {k}]
      PROVE  y.allocd = x.allocd
  BY <1>2 DEF ContextRec
<1>3. QED  BY <1>1, <1>2 DEF Submit

LEMMA RecordsSubmit == ASSUME IInv, RInv, ~ExpbufWanted, Submit PROVE RInv'
<1> DEFINE c == call.ctx
           o == call.out
           x == ctx[c]
<1>1. /\ c \in live /\ c \in Contexts /\ x \in ContextRec /\ call \in CallRec
      /\ call.at = "submit" /\ o \in OutSlots /\ x.free \subseteq Slots
  BY CallFacts DEF Submit, IInv, TypeOK, ContextRec
<1>2. RecordOK(c, x, o, {}, call.cap)
  <2>1. InHand(c) = o /\ Pending(c) = {}
    BY <1>1 DEF InHand, Pending
  <2>2. QED  BY <1>1, <2>1, RecordFacts
<1>3. CASE Fail(c, OutPoolPush(x, o), surf)
  BY <1>1, <1>2, <1>3, PushTypes, RecordOutBack, FailRecords
<1>5. ASSUME NEW k \in x.free, NEW y, y = [x EXCEPT !.free = @ \ {k}],
             \/ Fail(c, CapPoolPush(OutPoolPush(y, o), k), surf)
             \/ /\ "qbuf_cap" \in Events \/ k >= x.allocd
                /\ LET w == CapPoolPush(y, k) IN
                   \/ Fail(c, w, surf)
                   \/ \E d \in w.done :
                        Fail(c, OutPoolPush([w EXCEPT !.done = @ \ {d}], d), surf)
             \/ Goto(c, y, surf, [call EXCEPT !.at = "wait", !.cap = k])
      PROVE  RInv'
  <2>1. /\ k \in Slots /\ k < x.allocd /\ (Av1Quiet => k < NumCap)
    BY <1>1, <1>2 DEF RecordOK, BoundsOK
  <2>2. /\ y \in ContextRec /\ y.free = x.free \ {k}
        /\ y.allocd = x.allocd /\ y.slotBuf = x.slotBuf /\ y.kdpb = x.kdpb
        /\ y.outAllocd = x.outAllocd /\ y.freeOut = x.freeOut
        /\ y.done = x.done /\ y.active = x.active
    BY <1>1, <1>5 DEF ContextRec
  <2>3. RecordOK(c, y, o, {}, call.cap)
    BY <1>2, <2>2, RecordFree
  <2>4. CASE Fail(c, CapPoolPush(OutPoolPush(y, o), k), surf)
    <3> DEFINE v == OutPoolPush(y, o)
    <3>1. v \in ContextRec /\ RecordOK(c, v, None, {}, call.cap) /\ v.allocd = x.allocd
      BY <1>1, <2>2, <2>3, PushTypes, PushRecord, RecordOutBack
    <3> HIDE DEF v
    <3>2. CapPoolPush(v, k) \in ContextRec /\ RecordOK(c, CapPoolPush(v, k), None, {}, call.cap)
      BY <2>1, <3>1, PushTypes, PushRecord, RecordFree
    <3>3. Fail(c, CapPoolPush(v, k), surf)
      BY <2>4 DEF v
    <3>4. QED  BY <1>1, <3>2, <3>3, FailRecords
  <2>5. CASE /\ "qbuf_cap" \in Events \/ k >= x.allocd
             /\ LET w == CapPoolPush(y, k) IN
                \/ Fail(c, w, surf)
                \/ \E d \in w.done :
                     Fail(c, OutPoolPush([w EXCEPT !.done = @ \ {d}], d), surf)
    <3> DEFINE w == CapPoolPush(y, k)
    <3>1. ~OutMode
      BY <1>1, <2>1, <2>5 DEF OutMode, Slots, ContextRec
    <3>2. w \in ContextRec /\ RecordOK(c, w, o, {}, call.cap)
      BY <2>1, <2>2, <2>3, PushTypes, PushRecord, RecordFree
    <3> HIDE DEF w
    <3>3. RecordOK(c, w, None, {}, call.cap)
      BY <3>1, <3>2 DEF RecordOK, OutputsOK
    <3>4. ASSUME NEW d \in w.done
          PROVE  LET v == OutPoolPush([w EXCEPT !.done = @ \ {d}], d)
                 IN  v \in ContextRec /\ RecordOK(c, v, None, {}, call.cap)
      <4> DEFINE u == [w EXCEPT !.done = @ \ {d}]
                 v == OutPoolPush(u, d)
      <4>1. u \in ContextRec /\ d \in OutSlots
        BY <3>2 DEF ContextRec
      <4>2. /\ u.free = w.free /\ u.allocd = w.allocd /\ u.slotBuf = w.slotBuf
            /\ u.kdpb = w.kdpb
        BY <3>2 DEF ContextRec
      <4> HIDE DEF u
      <4>3. /\ v \in ContextRec /\ v.free = u.free /\ v.allocd = u.allocd
            /\ v.slotBuf = u.slotBuf /\ v.kdpb = u.kdpb
        BY <4>1, PushTypes, PushRecord
      <4> HIDE DEF v
      <4>4. RecordOK(c, v, None, {}, call.cap)
        BY <3>1, <3>3, <4>2, <4>3 DEF RecordOK, BoundsOK, TableOK, OutputsOK
      <4>5. QED  BY <4>3, <4>4 DEF u, v
    <3>5. QED  BY <1>1, <2>5, <3>2, <3>3, <3>4, FailRecords DEF w
  <2>6. CASE Goto(c, y, surf, [call EXCEPT !.at = "wait", !.cap = k])
    <3> DEFINE next == [call EXCEPT !.at = "wait", !.cap = k]
    <3>1. /\ next.ctx = c /\ next.at = "wait" /\ next.out = o /\ next.cap = k
          /\ next.refresh = call.refresh
      BY <1>1 DEF CallRec
    <3> HIDE DEF next
    <3>2. RecordOK(c, y, o, {}, k)
      BY <2>3, RecordNone
    <3>3. /\ Codec[c] # "AV1" => next.refresh = {}
          /\ Av1Quiet /\ Codec[c] = "AV1" => y.active
      BY <1>1, <2>2, <3>1 DEF RInv, PictureOK
    <3>4. Goto(c, y, surf, next)
      BY <2>6 DEF next
    <3>5. QED  BY <1>1, <2>1, <2>2, <3>1, <3>2, <3>3, <3>4, GotoRecords
  <2>7. QED  BY <1>5, <2>4, <2>5, <2>6
<1>6. QED  BY <1>1, <1>3, <1>5, SubmitCases

(* What the steps of Wait leave of a record.                               *)
LEMMA SpoiledFields ==
  ASSUME NEW x \in ContextRec, NEW k
  PROVE  LET y == Spoiled(x, k)
         IN  /\ y.free = x.free /\ y.allocd = x.allocd /\ y.slotBuf = x.slotBuf
             /\ y.kdpb = x.kdpb /\ y.outAllocd = x.outAllocd /\ y.active = x.active
             /\ y.freeOut = x.freeOut /\ y.done = x.done
BY DEF Spoiled, ContextRec

LEMMA DecodedFields ==
  ASSUME NEW x \in ContextRec, NEW k, NEW R
  PROVE  LET y == Decoded(x, k, R)
         IN  /\ y.free = x.free /\ y.allocd = x.allocd /\ y.slotBuf = x.slotBuf
             /\ y.kdpb = [r \in Refs |-> IF r \in R THEN k ELSE x.kdpb[r]]
             /\ y.outAllocd = x.outAllocd /\ y.active = x.active
             /\ y.freeOut = x.freeOut /\ y.done = x.done
BY DEF Decoded, ContextRec

(* vb2's reset gives every buffer back that no surface shows.              *)
LEMMA ResetRecord ==
  ASSUME NEW c, NEW x \in ContextRec, NEW k, RecordOK(c, x, None, {}, k),
         Av1Quiet => Codec[c] # "AV1"
  PROVE  RecordOK(c, DecodeReset(x), None, {}, k)
<1> DEFINE y == DecodeReset(x)
<1>1. /\ y.slotBuf = [r \in Refs |-> None] /\ y.kdpb = [r \in Refs |-> None]
      /\ y.done = {} /\ y.allocd = x.allocd /\ y.outAllocd = x.outAllocd
      /\ y.freeOut = 0 .. x.outAllocd - 1
      /\ y.free \subseteq 0 .. x.allocd - 1
  BY DEF DecodeReset, RebuildFreePools, DpbModelReset, StreamOff, ContextRec
<1> HIDE DEF y
<1>2. x.allocd \in Int /\ x.outAllocd \in Int /\ NumCap \in Int /\ None \notin Slots
      /\ OutSlots \subseteq Int /\ (\A i \in OutSlots : i >= 0)
  BY SlotFacts DEF ContextRec, OutSlots
<1>3. OutputsOK(y, None)
  BY <1>1, <1>2 DEF OutputsOK
<1>4. TableOK(y, {}, k)
  BY <1>1 DEF TableOK
<1>5. BoundsOK(c, y)
  <2>1. Codec[c] # "AV1" => x.allocd <= NumCap
    BY DEF RecordOK, BoundsOK
  <2>2. \A j \in Slots : j \in y.free \/ (\E r \in Refs : y.slotBuf[r] = j) => j < x.allocd
    BY <1>1, <1>2
  <2>3. \A j \in Slots : j < x.allocd /\ Av1Quiet => j < NumCap
    BY <1>2, <2>1 DEF Slots
  <2>4. QED  BY <1>1, <2>1, <2>2, <2>3 DEF BoundsOK
<1>6. QED  BY <1>3, <1>4, <1>5 DEF RecordOK, y

LEMMA DequeuedRecord ==
  ASSUME NEW c, NEW x \in ContextRec, NEW o \in OutSlots, NEW R, NEW k,
         RecordOK(c, x, o, R, k), x.allocd > 0, NEW z \in Dequeued(x, o)
  PROVE  RecordOK(c, z, None, R, k) /\ z.active = x.active
<1>1. /\ z.free = x.free /\ z.allocd = x.allocd /\ z.slotBuf = x.slotBuf
      /\ z.kdpb = x.kdpb /\ z.outAllocd = x.outAllocd /\ z.active = x.active
      /\ \/ \E d \in IF x.done = {} THEN {o} ELSE x.done :
              z.freeOut = x.freeOut \cup {d} /\ z.done = (x.done \cup {o}) \ {d}
         \/ /\ x.done = {} /\ "late_out" \in Events
            /\ z.freeOut = x.freeOut /\ z.done = x.done \cup {o}
  <2> DEFINE one == IF x.done = {} THEN {o} ELSE x.done
             D == x.done \cup {o}
  <2>1. \/ \E d \in one : z = [x EXCEPT !.freeOut = x.freeOut \cup {d}, !.done = D \ {d}]
        \/ x.done = {} /\ "late_out" \in Events /\ z = [x EXCEPT !.done = D]
    BY DEF Dequeued
  <2>2. /\ z.free = x.free /\ z.allocd = x.allocd /\ z.slotBuf = x.slotBuf
        /\ z.kdpb = x.kdpb /\ z.outAllocd = x.outAllocd /\ z.active = x.active
    BY <2>1 DEF ContextRec
  <2>3. ASSUME NEW d, z = [x EXCEPT !.freeOut = x.freeOut \cup {d}, !.done = D \ {d}]
        PROVE  z.freeOut = x.freeOut \cup {d} /\ z.done = D \ {d}
    BY <2>3 DEF ContextRec
  <2>4. ASSUME z = [x EXCEPT !.done = D]
        PROVE  z.freeOut = x.freeOut /\ z.done = D
    BY <2>4 DEF ContextRec
  <2>5. QED  BY <2>1, <2>2, <2>3, <2>4
<1>2. OutputsOK(z, None)
  <2> SUFFICES ASSUME OutMode
               PROVE  /\ \A i \in OutSlots : i < z.outAllocd => i \in z.freeOut \cup z.done
                      /\ z.done # {} => "late_out" \in Events /\ z.allocd > 0
    BY DEF OutputsOK
  <2>1. /\ \A i \in OutSlots : i < x.outAllocd => i \in x.freeOut \cup x.done \cup {o}
        /\ x.done # {} => "late_out" \in Events
    BY DEF RecordOK, OutputsOK
  <2>2. QED  BY <1>1, <2>1
<1>3. QED  BY <1>1, <1>2 DEF RecordOK, BoundsOK, TableOK

LEMMA RecordsWait == ASSUME IInv, RInv, Wait PROVE RInv'
<1> DEFINE c == call.ctx
           k == call.cap
           o == call.out
           x == ctx[c]
           R == call.refresh
<1>1. /\ c \in live /\ c \in Contexts /\ x \in ContextRec /\ call \in CallRec
      /\ call.at = "wait" /\ ~call.bad /\ o \in OutSlots /\ k \in Slots
      /\ PoolOK(c, x, surf, k)
  <2>1. call.at = "wait" /\ ~call.bad
    BY DEF Wait, IInv, SlotInv, CallOK
  <2>2. FlightSlot(c) = k
    BY <2>1 DEF FlightSlot
  <2>3. QED  BY <2>1, <2>2, CallFacts DEF IInv, TypeOK
<1>2. k < x.allocd /\ (Av1Quiet => k < NumCap) /\ x.allocd > 0
  BY <1>1, SlotFacts DEF PoolOK, FlightOK, RInv, PictureOK, Slots, ContextRec
<1>3. RecordOK(c, x, o, {}, k)
  <2>1. InHand(c) = o /\ Pending(c) = {}
    BY <1>1 DEF InHand, Pending
  <2>2. QED  BY <1>1, <2>1, RecordFacts
<1>4. Spoiled(x, k) \in ContextRec /\ RecordOK(c, Spoiled(x, k), o, {}, k)
  <2>1. Spoiled(x, k) \in ContextRec
    BY <1>1, ResetTypes
  <2>2. SameRecord(Spoiled(x, k), x)
    BY <1>1, SpoiledFields DEF SameRecord
  <2>3. QED  BY <1>3, <2>1, <2>2, RecordSame
<1>5. ASSUME "timeout" \in Events, Fail(c, DecodeReset(Spoiled(x, k)), surf)
      PROVE  RInv'
  <2> DEFINE y == Spoiled(x, k)
  <2>1. Av1Quiet => Codec[c] # "AV1"
    BY <1>1, <1>5 DEF Av1Quiet
  <2>2. RecordOK(c, DecodeReset(OutPoolPush(y, o)), None, {}, k)
    BY <1>1, <1>4, <2>1, RecordOutBack, PushTypes, ResetRecord
  <2>3. SameRecord(DecodeReset(y), DecodeReset(OutPoolPush(y, o)))
    BY <1>4 DEF SameRecord, DecodeReset, RebuildFreePools, DpbModelReset, StreamOff,
                OutPoolPush, ContextRec
  <2>4. RecordOK(c, DecodeReset(y), None, {}, k)
    BY <2>2, <2>3, RecordSame
  <2>5. DecodeReset(y) \in ContextRec
    BY <1>4, ResetTypes
  <2>6. QED  BY <1>1, <1>5, <2>4, <2>5, FailRecords
<1>6. ASSUME NEW bad \in BOOLEAN, NEW req \in {"ready", "none", "stuck"},
             NEW z \in Dequeued(IF bad THEN CapPoolPush(Spoiled(x, k), k)
                                ELSE Decoded(x, k, R), o),
             Goto(c, [z EXCEPT !.request = req], surf,
                  [call EXCEPT !.at = "attach", !.bad = bad])
      PROVE  RInv'
  <2> DEFINE y == IF bad THEN CapPoolPush(Spoiled(x, k), k) ELSE Decoded(x, k, R)
             Q == IF bad THEN {} ELSE R
             w == [z EXCEPT !.request = req]
             next == [call EXCEPT !.at = "attach", !.bad = bad]
  <2>1. /\ next.ctx = c /\ next.at = "attach" /\ next.bad = bad /\ next.cap = k
        /\ next.refresh = R
    BY <1>1 DEF CallRec
  <2>2. Goto(c, w, surf, next)
    BY <1>6
  <2> HIDE DEF next
  <2>3. /\ y \in ContextRec /\ RecordOK(c, y, o, Q, k)
        /\ y.active = x.active /\ y.allocd = x.allocd
    <3>1. CASE bad
      <4> DEFINE u == Spoiled(x, k)
                 v == CapPoolPush(u, k)
      <4>1. u.allocd = x.allocd /\ u.active = x.active
        BY <1>1, SpoiledFields
      <4>2. u \in ContextRec /\ RecordOK(c, u, o, {}, k)
        BY <1>4
      <4> HIDE DEF u
      <4>3. v \in ContextRec
        BY <1>1, <4>2, PushTypes
      <4>4. /\ v.free = u.free \cup {k}
            /\ v.allocd = u.allocd /\ v.slotBuf = u.slotBuf /\ v.kdpb = u.kdpb
            /\ v.outAllocd = u.outAllocd /\ v.freeOut = u.freeOut
            /\ v.done = u.done /\ v.active = u.active
        BY <4>2, PushRecord
      <4> HIDE DEF v
      <4>5. RecordOK(c, v, o, {}, k)
        BY <1>2, <4>1, <4>2, <4>4, RecordFree
      <4>6. QED  BY <3>1, <4>1, <4>3, <4>4, <4>5 DEF u, v
    <3>2. CASE ~bad
      <4> DEFINE v == Decoded(x, k, R)
      <4>1. R \in SUBSET Refs
        BY <1>1 DEF CallRec
      <4>2. v \in ContextRec
        BY <1>1, <4>1, ResetTypes
      <4>3. /\ v.free = x.free /\ v.allocd = x.allocd /\ v.slotBuf = x.slotBuf
            /\ v.kdpb = [r \in Refs |-> IF r \in R THEN k ELSE x.kdpb[r]]
            /\ v.outAllocd = x.outAllocd /\ v.active = x.active
            /\ v.freeOut = x.freeOut /\ v.done = x.done
        BY <1>1, DecodedFields
      <4> HIDE DEF v
      <4>4. RecordOK(c, v, o, R, k)
        BY <1>3, <4>3 DEF RecordOK, BoundsOK, TableOK, OutputsOK
      <4>5. QED  BY <3>2, <4>2, <4>3, <4>4 DEF v
    <3>3. QED  BY <3>1, <3>2
  <2>4. z \in Dequeued(y, o)
    BY <1>6
  <2> HIDE DEF y, Q
  <2>5. z \in ContextRec /\ RecordOK(c, z, None, Q, k) /\ z.active = x.active
    <3>1. z \in ContextRec
      BY <1>1, <2>3, <2>4, ResetTypes
    <3>2. QED  BY <1>1, <1>2, <2>3, <2>4, <3>1, DequeuedRecord
  <2>6. w \in ContextRec /\ SameRecord(w, z) /\ w.active = x.active
    BY <2>5 DEF ContextRec, SameRecord
  <2> HIDE DEF w
  <2>7. RecordOK(c, w, None, Q, k)
    BY <2>5, <2>6, RecordSame
  <2>8. /\ Codec[c] # "AV1" => next.refresh = {}
        /\ Av1Quiet /\ Codec[c] = "AV1" => w.active
    BY <1>1, <2>1, <2>6 DEF RInv, PictureOK
  <2>9. RecordOK(c, w, None, IF next.at = "attach" /\ ~next.bad THEN next.refresh ELSE {}, next.cap)
    BY <2>1, <2>7 DEF Q
  <2>10. QED  BY <1>1, <1>2, <2>1, <2>2, <2>6, <2>8, <2>9, GotoRecords
<1>7. QED  BY <1>1, <1>5, <1>6 DEF Wait

LEMMA ReleaseFields ==
  ASSUME NEW x \in ContextRec, NEW k, NEW R
  PROVE  LET y == ReleaseUnrefd(x, k, R).x
         IN  /\ y.slotBuf = [r \in Refs |-> IF r \in R THEN k ELSE x.slotBuf[r]]
             /\ \A j \in y.free : \/ j \in x.free \/ j = k
                                  \/ j # None /\ \E r \in R : j = x.slotBuf[r]
             /\ y.allocd = x.allocd /\ y.kdpb = x.kdpb /\ y.active = x.active
             /\ y.outAllocd = x.outAllocd /\ y.freeOut = x.freeOut
             /\ y.done = x.done /\ y.pixels = x.pixels
BY DEF ReleaseUnrefd, ContextRec

LEMMA RecordsAttach == ASSUME IInv, RInv, Attach PROVE RInv'
<1> DEFINE c == call.ctx
           k == call.cap
           x == ctx[c]
           R == call.refresh
           s == x.current
           f == PullCapture(s, c, k)
           rel == ReleaseUnrefd(x, k, R)
           h == Unheld(f, {t \in Surfaces : \E j \in DOMAIN rel.loses :
                             rel.loses[j] = t /\ f[t].index = j})
<1>1. /\ c \in live /\ c \in Contexts /\ x \in ContextRec /\ call \in CallRec
      /\ call.at = "attach" /\ k \in Slots /\ R \in SUBSET Refs
      /\ ~call.bad => PoolOK(c, x, surf, k)
  <2>1. call.at = "attach" /\ (~call.bad => FlightSlot(c) = k)
    BY DEF Attach, FlightSlot
  <2>2. QED  BY <2>1, CallFacts DEF IInv, TypeOK, CallRec
<1>2. ~call.bad => k < x.allocd
  BY <1>1, SlotFacts DEF PoolOK, FlightOK
<1>3. Av1Quiet => k < NumCap
  BY <1>1 DEF RInv, PictureOK
<1>4. RecordOK(c, x, None, IF call.bad THEN {} ELSE R, k)
  <2>1. InHand(c) = None /\ Pending(c) = IF call.bad THEN {} ELSE R
    BY <1>1 DEF InHand, Pending
  <2>2. QED  BY <1>1, <2>1, RecordFacts
<1>5. Codec[c] # "AV1" => R = {}
  BY <1>1 DEF RInv, PictureOK
<1>6. Av1Quiet /\ Codec[c] = "AV1" => "pull" \notin Events /\ x.active
  BY <1>1 DEF RInv, PictureOK, Av1Quiet
<1>7. \/ call.bad /\ (Fail(c, x, surf) \/ Succeed(c, x, surf))
      \/ /\ ~call.bad /\ ("pull" \in Events \/ k >= NumCap)
         /\ Succeed(c, CapPoolPush(x, k), surf)
      \/ ~call.bad /\ Av1ModelActive(c) /\ Succeed(c, rel.x, h)
      \/ ~call.bad /\ ~Av1ModelActive(c) /\ Succeed(c, x, f)
  BY DEF Attach
<1> HIDE DEF h, f
<1>8. CASE call.bad /\ (Fail(c, x, surf) \/ Succeed(c, x, surf))
  BY <1>1, <1>4, <1>8, FailRecords, FinishRecords DEF Succeed
<1>9. CASE /\ ~call.bad /\ ("pull" \in Events \/ k >= NumCap)
           /\ Succeed(c, CapPoolPush(x, k), surf)
  <2> DEFINE y == CapPoolPush(x, k)
  <2>1. Av1Quiet => R = {}
    BY <1>1, <1>3, <1>5, <1>6, <1>9, SlotFacts DEF Slots
  <2>2. y \in ContextRec /\ RecordOK(c, y, None, R, k)
    BY <1>1, <1>2, <1>3, <1>4, <1>9, PushTypes, PushRecord, RecordFree
  <2> HIDE DEF y
  <2>3. RecordOK(c, y, None, {}, k)
    BY <2>1, <2>2 DEF RecordOK, TableOK
  <2>4. Finish(c, y, surf, "Rendering", "success")
    BY <1>9 DEF Succeed, y
  <2>5. QED  BY <1>1, <2>2, <2>3, <2>4, FinishRecords
<1>10. CASE ~call.bad /\ Av1ModelActive(c) /\ Succeed(c, rel.x, h)
  <2> DEFINE y == rel.x
  <2>1. y \in ContextRec
    BY <1>1, ReleaseTypes
  <2>2. /\ y.slotBuf = [r \in Refs |-> IF r \in R THEN k ELSE x.slotBuf[r]]
        /\ \A j \in y.free : \/ j \in x.free \/ j = k
                             \/ j # None /\ \E r \in R : j = x.slotBuf[r]
        /\ y.allocd = x.allocd /\ y.kdpb = x.kdpb
        /\ y.outAllocd = x.outAllocd /\ y.freeOut = x.freeOut /\ y.done = x.done
    BY <1>1, ReleaseFields
  <2>3. Finish(c, y, h, "Rendering", "success")
    BY <1>10 DEF Succeed
  <2> HIDE DEF y
  <2>4. TableOK(y, {}, k)
    BY <1>4, <1>10, <2>2 DEF RecordOK, TableOK
  <2>5. BoundsOK(c, y)
    BY <1>1, <1>2, <1>3, <1>4, <1>10, <2>2 DEF RecordOK, BoundsOK
  <2>6. OutputsOK(y, None)
    BY <1>4, <2>2 DEF RecordOK, OutputsOK
  <2>7. RecordOK(c, y, None, {}, k)
    BY <2>4, <2>5, <2>6 DEF RecordOK
  <2>8. QED  BY <1>1, <2>1, <2>3, <2>7, FinishRecords
<1>11. CASE ~call.bad /\ ~Av1ModelActive(c) /\ Succeed(c, x, f)
  <2>1. Av1Quiet => R = {}
    BY <1>5, <1>6, <1>11 DEF Av1ModelActive
  <2>2. RecordOK(c, x, None, {}, k)
    BY <1>4, <1>11, <2>1 DEF RecordOK, TableOK
  <2>3. QED  BY <1>1, <1>11, <2>2, FinishRecords DEF Succeed
<1>12. QED  BY <1>7, <1>8, <1>9, <1>10, <1>11

-----------------------------------------------------------------------------
(* Surfaces hold slots that can be mapped: only a successful pull gives    *)
(* them one.                                                               *)
Mappable == \A s \in Surfaces : surf[s].index < NumCap

LEMMA MappableKept ==
  ASSUME TypeOK, Mappable,
         NEW f, \A s \in Surfaces : f[s].index \in {surf[s].index, None},
         \A s \in Surfaces : surf'[s].index = f[s].index
  PROVE  Mappable'
BY ConstantAssumption DEF Mappable, None

LEMMA UnheldIndex ==
  ASSUME NEW f \in SurfTable, NEW S, NEW s \in Surfaces
  PROVE  Unheld(f, S)[s].index \in {f[s].index, None}
BY DEF Unheld, SurfTable, SurfaceRec

LEMMA FinishIndex ==
  ASSUME NEW c, NEW x, NEW f \in SurfTable, NEW st, NEW ret, Finish(c, x, f, st, ret)
  PROVE  \A s \in Surfaces : surf'[s].index = f[s].index
BY DEF Finish, SurfTable, SurfaceRec

LEMMA FailIndex ==
  ASSUME NEW c, NEW x, NEW f \in SurfTable, Fail(c, x, f)
  PROVE  \A s \in Surfaces : surf'[s].index = f[s].index
BY FinishIndex DEF Fail

(* The surface tables a step of vaEndPicture may leave, but for the slot   *)
(* Attach adds.                                                            *)
LEMMA PictureIndices ==
  ASSUME TypeOK,
         (\E c \in Contexts : EndPicture(c)) \/ Prepare \/ Start \/ Submit \/ Wait
  PROVE  \E f : /\ \A s \in Surfaces : f[s].index \in {surf[s].index, None}
                /\ \A s \in Surfaces : surf'[s].index = f[s].index
<1>1. surf \in SurfTable
  BY DEF TypeOK, SurfTable
<1>2. \A S : Unheld(surf, S) \in SurfTable
  BY <1>1, UnheldType
<1>3. SUFFICES \E f \in SurfTable :
                 /\ f = surf \/ \E S : f = Unheld(surf, S)
                 /\ \/ \E c, x, st, ret : Finish(c, x, f, st, ret)
                    \/ \E c, x, next : Goto(c, x, f, next)
  <2> SUFFICES ASSUME NEW f \in SurfTable, f = surf \/ \E S : f = Unheld(surf, S),
                      \/ \E c, x, st, ret : Finish(c, x, f, st, ret)
                      \/ \E c, x, next : Goto(c, x, f, next)
               PROVE  /\ \A s \in Surfaces : f[s].index \in {surf[s].index, None}
                      /\ \A s \in Surfaces : surf'[s].index = f[s].index
    OBVIOUS
  <2>1. \A s \in Surfaces : f[s].index \in {surf[s].index, None}
    BY <1>1, UnheldIndex
  <2>2. \A s \in Surfaces : surf'[s].index = f[s].index
    BY FinishIndex DEF Goto
  <2>3. QED  BY <2>1, <2>2
<1>4. CASE \E c \in Contexts : EndPicture(c)
  BY <1>1, <1>4 DEF EndPicture
<1>5. CASE Prepare
  <2>1. ASSUME NEW c, NEW x, NEW next, EnsureCapture(c, x, next)
        PROVE  \E f \in SurfTable : /\ f = surf \/ \E S : f = Unheld(surf, S)
                                    /\ \/ \E z : Fail(c, z, f)
                                       \/ \E z : Goto(c, z, f, next)
    <3> DEFINE g == ReleaseCtxCaptureSurfaces(x)
    <3>1. g \in SurfTable /\ \E S : g = Unheld(surf, S)
      BY <1>2 DEF ReleaseCtxCaptureSurfaces
    <3>2. \/ \E z : Goto(c, z, surf, next)
          \/ \E z : Fail(c, z, g)
          \/ \E z : Goto(c, z, g, next)
      BY <2>1 DEF EnsureCapture
    <3> HIDE DEF g
    <3>3. QED  BY <1>1, <3>1, <3>2
  <2>2. \/ \E c, x : Fail(c, x, surf)
        \/ \E c, x, next : EnsureCapture(c, x, next)
    BY <1>5 DEF Prepare
  <2>3. QED  BY <1>1, <2>1, <2>2 DEF Fail
<1>6. CASE Start
  BY <1>1, <1>6 DEF Start, Fail
<1>7. CASE Submit
  <2>1. (\E c, x : Fail(c, x, surf)) \/ \E c, x, next : Goto(c, x, surf, next)
    BY <1>7 DEF Submit
  <2>2. QED  BY <1>1, <2>1 DEF Fail
<1>8. CASE Wait
  <2>1. (\E c, x : Fail(c, x, surf)) \/ \E c, x, next : Goto(c, x, surf, next)
    BY <1>8 DEF Wait
  <2>2. QED  BY <1>1, <2>1 DEF Fail
<1>9. QED  BY <1>4, <1>5, <1>6, <1>7, <1>8

LEMMA PulledSlot ==
  ASSUME surf \in SurfTable, NEW s \in Surfaces, NEW c \in Contexts, NEW k \in Slots
  PROVE  LET f == PullCapture(s, c, k)
         IN  /\ f \in SurfTable /\ f[s].index = k /\ f[s].from = c
             /\ f[s].alive = surf[s].alive
             /\ \A t \in Surfaces \ {s} : f[t] = surf[t]
<1> DEFINE f == PullCapture(s, c, k)
<1>1. \A t \in Surfaces : surf[t] \in SurfaceRec
  BY DEF SurfTable
<1>2. f[s] = [surf[s] EXCEPT !.index = k, !.from = c]
  BY DEF PullCapture, SurfTable
<1>3. \A t \in Surfaces \ {s} : f[t] = surf[t]
  BY DEF PullCapture, SurfTable
<1>4. f[s] \in SurfaceRec /\ f[s].index = k /\ f[s].from = c /\ f[s].alive = surf[s].alive
  BY <1>1, <1>2 DEF SurfaceRec
<1>5. f = [t \in Surfaces |-> f[t]]
  BY DEF PullCapture, SurfTable
<1> HIDE DEF f
<1>6. f \in SurfTable
  BY <1>1, <1>3, <1>4, <1>5 DEF SurfTable
<1>7. QED  BY <1>3, <1>4, <1>6 DEF f

LEMMA MappableAttach == ASSUME TypeOK, Mappable, Attach PROVE Mappable'
<1> DEFINE c == call.ctx
           k == call.cap
           s == ctx[c].current
           f == PullCapture(s, c, k)
<1>1. call.at = "attach" /\ c \in Contexts /\ s \in Surfaces /\ k \in Slots
      /\ surf \in SurfTable
  BY DEF Attach, TypeOK, SurfTable
<1>2. f \in SurfTable /\ \A t \in Surfaces : f[t].index \in {surf[t].index, k}
  BY <1>1, PulledSlot
<1>3. \/ \E x, st, ret : Finish(c, x, surf, st, ret)
      \/ /\ k < NumCap
         /\ \E g : /\ g = f \/ \E S : g = Unheld(f, S)
                   /\ \E x, st, ret : Finish(c, x, g, st, ret)
  BY DEF Attach, Succeed, Fail
<1> HIDE DEF f
<1>4. CASE \E x, st, ret : Finish(c, x, surf, st, ret)
  BY <1>1, <1>4, FinishIndex, MappableKept
<1>5. ASSUME k < NumCap, NEW g, g = f \/ \E S : g = Unheld(f, S),
             \E x, st, ret : Finish(c, x, g, st, ret)
      PROVE  Mappable'
  <2>1. g \in SurfTable /\ \A t \in Surfaces : g[t].index \in {surf[t].index, k, None}
    BY <1>2, <1>5, UnheldType, UnheldIndex
  <2>2. \A t \in Surfaces : surf'[t].index \in {surf[t].index, k, None}
    BY <1>5, <2>1, FinishIndex
  <2>3. None < NumCap
    BY SlotFacts DEF None
  <2>4. QED  BY <1>5, <2>2, <2>3 DEF Mappable
<1>6. QED  BY <1>3, <1>4, <1>5

LEMMA MappableNext ==
  ASSUME ~ExpbufWanted, TypeOK, Mappable, [Next]_vars
  PROVE  Mappable'
<1>1. surf \in SurfTable
  BY DEF TypeOK, SurfTable
<1>2. CASE (\E c \in Contexts : EndPicture(c)) \/ Prepare \/ Start \/ Submit \/ Wait
  BY <1>2, PictureIndices, MappableKept
<1>3. CASE Attach
  BY <1>3, MappableAttach
<1>4. CASE \E s \in Surfaces : CreateSurface(s) \/ DestroySurfaces(s) \/ SyncSurface(s)
  <2>1. PICK s \in Surfaces : \/ surf' = [surf EXCEPT ![s] = NewSurface]
                              \/ surf' = [surf EXCEPT ![s] = NoSurfaceRec]
                              \/ surf' = [surf EXCEPT ![s].status = "Ready"]
    BY <1>4 DEF CreateSurface, DestroySurfaces, SyncSurface
  <2>2. \A t \in Surfaces : surf'[t].index \in {surf[t].index, None}
    BY <1>1, <2>1 DEF NewSurface, NoSurfaceRec, SurfTable, SurfaceRec
  <2>3. QED  BY <2>2, MappableKept
<1>5. CASE \E c \in Contexts :
             CreateContext(c) \/ CreateContextFails(c) \/ DestroyContext(c)
  <2>1. surf' = surf \/ \E S : surf' = Unheld(surf, S)
    BY <1>5 DEF CreateContext, CreateContextFails, DestroyContext,
                ReleaseCtxCaptureSurfaces
  <2>2. \A t \in Surfaces : surf'[t].index \in {surf[t].index, None}
    BY <1>1, <2>1, UnheldIndex
  <2>3. QED  BY <2>2, MappableKept
<1>6. CASE \E c \in Contexts, s \in Surfaces : BeginPicture(c, s)
  <2>1. surf' = surf \/ \E S : surf' = Unheld(surf, S)
    BY <1>6 DEF BeginPicture
  <2>2. \A t \in Surfaces : surf'[t].index \in {surf[t].index, None}
    BY <1>1, <2>1, UnheldIndex
  <2>3. QED  BY <2>2, MappableKept
<1>7. CASE \E s \in Surfaces : ExportSurface(s)
  BY <1>7 DEF ExportSurface
<1>8. CASE UNCHANGED vars
  BY <1>8 DEF vars, Mappable
<1>9. QED  BY <1>2, <1>3, <1>4, <1>5, <1>6, <1>7, <1>8 DEF Next

-----------------------------------------------------------------------------
(* The entry points that run between pictures.                             *)

(* They leave no picture in hand, so that each record is judged alone.     *)
LEMMA IdleRecords ==
  ASSUME LockFree
  PROVE  /\ \A c : InHand(c) = None /\ Pending(c) = {}
         /\ RInv <=> \A c \in live : RecordOK(c, ctx[c], None, {}, call.cap)
<1>1. \A c : InHand(c) = None /\ Pending(c) = {}
  BY DEF LockFree, InHand, Pending
<1>2. PictureOK
  BY DEF LockFree, PictureOK
<1>3. QED  BY <1>1, <1>2 DEF RInv, RecordsOK

LEMMA IdleStep ==
  ASSUME RInv, LockFree, call' = call,
         \A c \in live' : RecordOK(c, ctx'[c], None, {}, call.cap)
  PROVE  RInv'
<1>1. \A c : InHand(c)' = None /\ Pending(c)' = {}
  BY DEF LockFree, InHand, Pending
<1>2. PictureOK'
  BY DEF LockFree, PictureOK
<1>3. ASSUME NEW c \in live'
      PROVE  RecordOK(c, ctx[c], InHand(c), Pending(c), call.cap)'
  BY <1>1, <1>3 DEF RecordOK, BoundsOK, TableOK, OutputsOK
<1>4. QED  BY <1>2, <1>3 DEF RInv, RecordsOK

(* A slot a surface holds can be listed.                                   *)
LEMMA HeldListable ==
  ASSUME IInv, RInv, Mappable, LockFree, NEW c \in live, NEW s \in Surfaces,
         s \in ctx[c].targets, Decoder(c), surf[s].index # None
  PROVE  surf[s].index < ctx[c].allocd /\ surf[s].index < NumCap
<1>1. InPool(surf, s, c) /\ PoolOK(c, ctx[c], surf, None)
  BY HolderContext, IdlePools
<1>2. QED  BY <1>1 DEF PoolOK, HoldersOK, Mappable

LEMMA RecordsUnchanged ==
  ASSUME IInv, RInv,
         \/ \E s \in Surfaces : CreateSurface(s) \/ SyncSurface(s)
         \/ \E c \in Contexts : CreateContextFails(c) \/ DestroyContext(c)
  PROVE  RInv'
<1>1. LockFree /\ call' = call /\ live' \subseteq live
      /\ \A c \in live' : ctx'[c] = ctx[c]
  <2>1. live \subseteq Contexts
    BY DEF IInv, TypeOK
  <2>2. CASE \E s \in Surfaces : CreateSurface(s) \/ SyncSurface(s)
    BY <2>2 DEF CreateSurface, SyncSurface
  <2>3. CASE \E c \in Contexts : CreateContextFails(c)
    BY <2>3 DEF CreateContextFails
  <2>4. CASE \E c \in Contexts : DestroyContext(c)
    BY <2>1, <2>4 DEF DestroyContext
  <2>5. QED  BY <2>2, <2>3, <2>4
<1>2. \A c \in live : RecordOK(c, ctx[c], None, {}, call.cap)
  BY <1>1, IdleRecords
<1>3. QED  BY <1>1, <1>2, IdleStep

LEMMA NewContextRecord ==
  ASSUME NEW c \in Contexts, NEW T, NEW n \in CapGrants(c), NEW on, NEW k
  PROVE  RecordOK(c, NewContext(c, T, n, on), None, {}, k)
<1> DEFINE x == NewContext(c, T, n, on)
<1>1. /\ x.slotBuf = [r \in Refs |-> None] /\ x.kdpb = [r \in Refs |-> None]
      /\ x.done = {}
      /\ \/ x.outAllocd = 0 \/ x.freeOut = OutSlots
      /\ \/ /\ Codec[c] \in M2MCodecs \cup CaptureDeferred
            /\ x.allocd = 0 /\ x.free = {}
         \/ x.allocd = n /\ x.free = {j \in 0 .. n - 1 : j < NumCap}
  BY DEF NewContext, ClosedContext, CaptureQueue
<1> HIDE DEF x
<1>2. /\ n \in Nat /\ n > 0 /\ NumCap \in Nat /\ (Codec[c] # "AV1" => n <= NumCap)
  BY ConstantAssumption DEF CapGrants
<1>3. OutputsOK(x, None)
  BY <1>1, SlotFacts DEF OutputsOK, OutSlots
<1>4. TableOK(x, {}, k)
  BY <1>1 DEF TableOK
<1>5. "AV1" \notin M2MCodecs \cup CaptureDeferred
  BY DEF M2MCodecs, CaptureDeferred
<1>6. \A j \in Slots : j \in x.free => j < x.allocd /\ j < NumCap
  BY <1>1, <1>2
<1>7. BoundsOK(c, x)
  BY <1>1, <1>2, <1>5, <1>6, SlotFacts DEF BoundsOK
<1>8. QED  BY <1>3, <1>4, <1>7 DEF RecordOK, x

LEMMA RecordsCreateContext ==
  ASSUME IInv, RInv, NEW c \in Contexts, CreateContext(c)
  PROVE  RInv'
<1>1. LockFree /\ call' = call /\ live' = live \cup {c}
  BY DEF CreateContext
<1>2. PICK T \in Listable(c), n \in CapGrants(c), on \in {TRUE, "streamon" \notin Events} :
        ctx' = [ctx EXCEPT ![c] = NewContext(c, T, n, on)]
  BY DEF CreateContext
<1>3. ctx'[c] = NewContext(c, T, n, on) /\ \A d \in live \ {c} : ctx'[d] = ctx[d]
  BY <1>2 DEF IInv, TypeOK
<1>4. RecordOK(c, ctx'[c], None, {}, call.cap)
  BY <1>3, NewContextRecord
<1>5. \A d \in live : RecordOK(d, ctx[d], None, {}, call.cap)
  BY <1>1, IdleRecords
<1>6. QED  BY <1>1, <1>3, <1>4, <1>5, IdleStep

(* A context without decode queues has no slots to hold.                   *)
LEMMA SlotHeldByDecoder ==
  ASSUME IInv, NEW c \in live, NEW s \in Surfaces, surf[s].index # None,
         surf[s].index < ctx[c].allocd
  PROVE  Decoder(c)
<1>1. surf[s].index \in Slots
  BY DEF IInv, TypeOK, SurfaceRec
<1>2. ctx[c].allocd # 0
  BY <1>1, SlotFacts DEF Slots
<1>3. QED  BY <1>2 DEF IInv, SlotInv, ContextsOK

LEMMA RecordsDestroySurfaces ==
  ASSUME IInv, RInv, Mappable, NEW s \in Surfaces, DestroySurfaces(s)
  PROVE  RInv'
<1>1. LockFree /\ call' = call /\ live' = live /\ live \subseteq Contexts
      /\ \A c \in live : ctx[c] \in ContextRec /\ ctx'[c] = DetachSurface(c, s)
  BY DEF DestroySurfaces, IInv, TypeOK
<1>2. ASSUME NEW c \in live PROVE RecordOK(c, ctx'[c], None, {}, call.cap)
  <2> DEFINE x == ctx[c]
             y == DetachSurface(c, s)
             k == surf[s].index
             held == s \in x.targets /\ k # None /\ k < x.allocd
  <2>1. x \in ContextRec /\ ctx'[c] = y
    BY <1>1
  <2>2. RecordOK(c, x, None, {}, call.cap)
    BY <1>1, IdleRecords
  <2>3. held => k < NumCap
    BY <1>1, SlotHeldByDecoder, HeldListable
  <2>4. /\ y.allocd = x.allocd /\ y.slotBuf = x.slotBuf /\ y.kdpb = x.kdpb
        /\ y.outAllocd = x.outAllocd /\ y.freeOut = x.freeOut /\ y.done = x.done
    BY <2>1 DEF DetachSurface, ContextRec
  <2>5. y.free = IF held /\ ~Av1ModelActive(c) THEN x.free \cup {k} ELSE x.free
    <3>1. ctx[c] \in ContextRec
      BY <2>1
    <3>2. QED  BY <3>1, DetachFields, Zenon
  <2>6. \A j \in y.free : j \in x.free \/ (j < x.allocd /\ (Av1Quiet => j < NumCap))
    BY <2>3, <2>5
  <2> HIDE DEF y
  <2>7. RecordOK(c, y, None, {}, call.cap)
    BY <2>2, <2>4, <2>6, RecordFree
  <2>8. QED  BY <2>1, <2>7
<1>3. QED  BY <1>1, <1>2, IdleStep

LEMMA RecordsBeginPicture ==
  ASSUME IInv, GbmMode, RInv, Mappable, NEW c \in Contexts, NEW s \in Surfaces,
         BeginPicture(c, s)
  PROVE  RInv'
<1> DEFINE k == surf[s].index
<1>1. LockFree /\ call' = call /\ live' = live /\ c \in live /\ live \subseteq Contexts
      /\ ctx[c] \in ContextRec /\ (Decoder(c) => s \in ctx[c].targets)
  BY DEF BeginPicture, IInv, TypeOK, GbmMode, Decoder
<1>2. PICK req : LET x == [ctx[c] EXCEPT !.current = s,
                             !.request = IF @ = "none" /\ Codec[c] \notin M2MCodecs
                                         THEN req ELSE @]
                 IN  ctx' = [ctx EXCEPT ![c] =
                        IF (k # None /\ ~ExpbufWanted) /\ ~Av1ModelActive(c) /\ k < x.allocd
                        THEN CapPoolPush(x, k) ELSE x]
  BY DEF BeginPicture
<1> DEFINE x == [ctx[c] EXCEPT !.current = s,
                   !.request = IF @ = "none" /\ Codec[c] \notin M2MCodecs
                               THEN req ELSE @]
<1>3. ctx'[c] = x \/ (k # None /\ k < x.allocd /\ ctx'[c] = CapPoolPush(x, k))
  BY <1>2 DEF IInv, TypeOK
<1>4. \A d \in live \ {c} : ctx'[d] = ctx[d]
  BY <1>1, <1>2 DEF IInv, TypeOK
<1>5. SameRecord(x, ctx[c])
  BY <1>1 DEF SameRecord, ContextRec
<1>6. \A d \in live : RecordOK(d, ctx[d], None, {}, call.cap)
  BY <1>1, IdleRecords
<1>7. RecordOK(c, x, None, {}, call.cap) /\ x.allocd = ctx[c].allocd
  <2>1. RecordOK(c, ctx[c], None, {}, call.cap)
    BY <1>1, <1>6
  <2> HIDE DEF x
  <2>2. QED  BY <1>5, <2>1, RecordSame DEF SameRecord
<1>8. /\ CapPoolPush(x, k).free = x.free \cup {k}
      /\ CapPoolPush(x, k).allocd = x.allocd /\ CapPoolPush(x, k).slotBuf = x.slotBuf
      /\ CapPoolPush(x, k).kdpb = x.kdpb /\ CapPoolPush(x, k).outAllocd = x.outAllocd
      /\ CapPoolPush(x, k).freeOut = x.freeOut /\ CapPoolPush(x, k).done = x.done
  BY <1>1 DEF CapPoolPush, ContextRec
<1> HIDE DEF x
<1>9. k # None /\ k < x.allocd => k < NumCap
  BY <1>1, <1>7, SlotHeldByDecoder, HeldListable
<1>10. RecordOK(c, ctx'[c], None, {}, call.cap)
  BY <1>3, <1>7, <1>8, <1>9, RecordFree
<1>11. QED  BY <1>1, <1>4, <1>6, <1>10, IdleStep

LEMMA RecordsInit == Init => RInv /\ Mappable
<1> SUFFICES ASSUME Init PROVE RInv /\ Mappable
  OBVIOUS
<1>1. LockFree /\ live = {}
  BY DEF Init, LockFree, Idle
<1>2. RInv
  BY <1>1, IdleRecords
<1>3. Mappable
  BY ConstantAssumption DEF Init, Mappable, NoSurfaceRec, NewSurface, None
<1>4. QED  BY <1>2, <1>3

LEMMA RecordsNext ==
  ASSUME GbmMode, IInv, RInv, Mappable, [Next]_vars
  PROVE  RInv'
<1>1. ~ExpbufWanted
  BY DEF GbmMode
<1>2. CASE \E c \in Contexts : EndPicture(c)
  BY <1>2, RecordsEndPicture
<1>3. CASE Prepare
  BY <1>3, RecordsPrepare
<1>4. CASE Start
  BY <1>4, RecordsStart
<1>5. CASE Submit
  BY <1>1, <1>5, RecordsSubmit
<1>6. CASE Wait
  BY <1>6, RecordsWait
<1>7. CASE Attach
  BY <1>7, RecordsAttach
<1>8. CASE \/ \E s \in Surfaces : CreateSurface(s) \/ SyncSurface(s)
           \/ \E c \in Contexts : CreateContextFails(c) \/ DestroyContext(c)
  BY <1>8, RecordsUnchanged
<1>9. CASE \E c \in Contexts : CreateContext(c)
  BY <1>9, RecordsCreateContext
<1>10. CASE \E s \in Surfaces : DestroySurfaces(s)
  BY <1>10, RecordsDestroySurfaces
<1>11. CASE \E c \in Contexts, s \in Surfaces : BeginPicture(c, s)
  BY <1>11, RecordsBeginPicture
<1>12. CASE \E s \in Surfaces : ExportSurface(s)
  BY <1>1, <1>12 DEF ExportSurface
<1>13. CASE UNCHANGED vars
  BY <1>13 DEF vars, RInv, PictureOK, RecordsOK, RecordOK, BoundsOK, TableOK,
               OutputsOK, InHand, Pending
<1>14. QED
  BY <1>2, <1>3, <1>4, <1>5, <1>6, <1>7, <1>8, <1>9, <1>10, <1>11, <1>12, <1>13 DEF Next

(* In the GBM-copy mode the whole invariant is inductive.                  *)
LEMMA RecordsInductive ==
  ASSUME GbmMode
  PROVE  Spec => [](IInv /\ RInv /\ Mappable)
<1>1. Init => IInv /\ RInv /\ Mappable
  BY TypesInit, InvInit, RecordsInit, SMT DEF IInv, Init, CurrentSurfaceAlive
<1>2. IInv /\ RInv /\ Mappable /\ [Next]_vars => IInv' /\ RInv' /\ Mappable'
  BY TypesNext, CurrentNext, InvNext, RecordsNext, MappableNext DEF IInv, GbmMode
<1>3. QED  BY <1>1, <1>2, PTL DEF Spec

(* decode_submit's contract "returns -1 with both pools fully restored":   *)
(* in the GBM-copy mode, whatever fails but the QBUF of CAPTURE, every     *)
(* OUTPUT slot is free or done between two calls.                          *)
THEOREM OutputSlotsAccounted ==
  ASSUME GbmMode, OutMode
  PROVE  Spec => []OutputAccounted
<1>1. RInv => OutputAccounted
  <2> SUFFICES ASSUME RInv, LockFree, NEW c \in live, NEW o \in OutSlots,
                      o < ctx[c].outAllocd
               PROVE  o \in ctx[c].freeOut \cup ctx[c].done
    BY DEF OutputAccounted
  <2>1. RecordOK(c, ctx[c], None, {}, call.cap)
    BY IdleRecords
  <2>2. o \in ctx[c].freeOut \cup ctx[c].done \cup {None}
    BY <2>1 DEF RecordOK, OutputsOK
  <2>3. QED  BY <2>2, SlotFacts
<1>2. QED  BY <1>1, RecordsInductive, PTL

-----------------------------------------------------------------------------
(* OutputAccounted in the EXPBUF mode, where a slot in flight may have a   *)
(* holder and SlotInv says too much: of the invariants above only          *)
(* OutputsOK is kept, and of the pools only that what decode_submit queues *)
(* is a slot of the queue.                                                 *)
OutputsMet == \A c \in live : OutputsOK(ctx[c], InHand(c))

SameOutputs(y, x) ==
  /\ y.allocd = x.allocd /\ y.outAllocd = x.outAllocd
  /\ y.freeOut = x.freeOut /\ y.done = x.done

LEMMA OutputsSame ==
  ASSUME NEW x, NEW y, NEW o, OutputsOK(x, o), SameOutputs(y, x)
  PROVE  OutputsOK(y, o)
BY DEF OutputsOK, SameOutputs

(* A step of context c alone, and of none.                                 *)
LEMMA OutputsStep ==
  ASSUME OutputsMet, NEW c, live' \subseteq live \cup {c},
         \A d \in live \ {c} : ctx'[d] = ctx[d],
         call.at = "idle" \/ call.ctx = c,
         call'.at = "idle" \/ call'.ctx = c,
         OutputsOK(ctx'[c], InHand(c)')
  PROVE  OutputsMet'
<1> SUFFICES ASSUME NEW d \in live' PROVE OutputsOK(ctx[d], InHand(d))'
  BY DEF OutputsMet
<1>1. CASE d = c
  BY <1>1 DEF OutputsOK
<1>2. CASE d # c
  <2>1. InHand(d) = None /\ InHand(d)' = None
    BY <1>2 DEF InHand
  <2>2. OutputsOK(ctx[d], InHand(d)) /\ ctx'[d] = ctx[d]
    BY <1>2 DEF OutputsMet
  <2>3. QED  BY <2>1, <2>2 DEF OutputsOK
<1>3. QED  BY <1>1, <1>2

LEMMA OutputsIdle ==
  ASSUME OutputsMet, LockFree, call' = call, live' \subseteq live,
         \A c \in live' : SameOutputs(ctx'[c], ctx[c])
  PROVE  OutputsMet'
<1> SUFFICES ASSUME NEW c \in live' PROVE OutputsOK(ctx[c], InHand(c))'
  BY DEF OutputsMet
<1>1. InHand(c) = None /\ InHand(c)' = None
  BY DEF LockFree, InHand
<1>2. OutputsOK(ctx'[c], None)
  BY <1>1, OutputsSame DEF OutputsMet
<1>3. QED  BY <1>1, <1>2 DEF OutputsOK

LEMMA OutputsFinish ==
  ASSUME TypeOK, OutputsMet, NEW c \in live, NEW x \in ContextRec, NEW f, NEW st, NEW ret,
         OutputsOK(x, None), call.at = "idle" \/ call.ctx = c,
         Finish(c, x, f, st, ret)
  PROVE  OutputsMet'
<1>1. /\ live' = live /\ call'.at = "idle"
      /\ ctx'[c] = [x EXCEPT !.current = NoSurface]
      /\ \A d \in live \ {c} : ctx'[d] = ctx[d]
  BY DEF Finish, Idle, TypeOK
<1>2. SameOutputs(ctx'[c], x) /\ InHand(c)' = None
  BY <1>1 DEF SameOutputs, ContextRec, InHand
<1>3. OutputsOK(ctx'[c], None)
  BY <1>2, OutputsSame
<1>4. OutputsOK(ctx'[c], InHand(c)')
  BY <1>2, <1>3
<1>5. QED  BY <1>1, <1>4, OutputsStep

LEMMA OutputsFail ==
  ASSUME TypeOK, OutputsMet, NEW c \in live, NEW x \in ContextRec, NEW f,
         OutputsOK(x, None), call.at = "idle" \/ call.ctx = c, Fail(c, x, f)
  PROVE  OutputsMet'
<1> DEFINE y == [x EXCEPT !.request = "none"]
<1>1. y \in ContextRec /\ SameOutputs(y, x) /\ Finish(c, y, f, "Skipped", "error")
  BY DEF ContextRec, SameOutputs, Fail
<1> HIDE DEF y
<1>2. QED  BY <1>1, OutputsSame, OutputsFinish

LEMMA OutputsGoto ==
  ASSUME TypeOK, OutputsMet, NEW c \in live, NEW x \in ContextRec, NEW f, NEW next,
         call.at = "idle" \/ call.ctx = c, next.ctx = c, Goto(c, x, f, next),
         OutputsOK(x, IF next.at \in {"submit", "wait"} THEN next.out ELSE None)
  PROVE  OutputsMet'
<1>1. /\ live' = live /\ call' = next /\ ctx'[c] = x
      /\ \A d \in live \ {c} : ctx'[d] = ctx[d]
  BY DEF Goto, TypeOK
<1>2. InHand(c)' = IF next.at \in {"submit", "wait"} THEN next.out ELSE None
  BY <1>1 DEF InHand
<1>3. OutputsOK(ctx'[c], InHand(c)')
  BY <1>1, <1>2
<1>4. QED  BY <1>1, <1>3, OutputsStep

(* A queue that is stopped and allocated anew: OutMode lets a stream that  *)
(* leaves OUTPUT buffers in the kernel do so before its first picture only.*)
LEMMA OutputsRebuilt ==
  ASSUME OutMode, NEW c \in Contexts, NEW x \in ContextRec, OutputsOK(x, None),
         "resize" \in Events \/ x.allocd = 0
  PROVE  /\ CaptureStopped(x) \in ContextRec /\ OutputsOK(CaptureStopped(x), None)
         /\ \A z \in OutputQueues(CaptureStopped(x)), n \in CapGrants(c) \cup {0} :
              CaptureQueue(z, n) \in ContextRec /\ OutputsOK(CaptureQueue(z, n), None)
<1> DEFINE y == CaptureStopped(x)
<1>1. y \in ContextRec /\ OutputQueues(y) \subseteq ContextRec
  BY ResetTypes
<1>2. x.done = {}
  BY SlotFacts DEF OutputsOK, OutMode, ContextRec
<1>3. y.allocd = x.allocd /\ y.outAllocd = x.outAllocd /\ y.freeOut = x.freeOut /\ y.done = {}
  BY <1>2 DEF CaptureStopped, DpbModelReset, StreamOff, ContextRec
<1> HIDE DEF y
<1>4. OutputsOK(y, None)
  BY <1>2, <1>3 DEF OutputsOK
<1>5. ASSUME NEW z \in OutputQueues(y), NEW n \in CapGrants(c) \cup {0}
      PROVE  CaptureQueue(z, n) \in ContextRec /\ OutputsOK(CaptureQueue(z, n), None)
  <2> DEFINE w == CaptureQueue(z, n)
  <2>1. z \in ContextRec
    BY <1>1
  <2>2. w \in ContextRec
    <3>1. n \in 0 .. NumCapAV1
      BY SlotFacts
    <3>2. QED  BY <2>1, <3>1, ResetTypes
  <2>3. z.done = {} /\ OutputsOK(z, None)
    <3>1. \/ z = y
          \/ z = [y EXCEPT !.freeOut = OutSlots, !.outAllocd = NumOut]
          \/ z = [y EXCEPT !.freeOut = {}, !.outAllocd = 0]
      BY DEF OutputQueues
    <3>2. CASE z = y
      BY <1>3, <1>4, <3>2
    <3>3. CASE z = [y EXCEPT !.freeOut = OutSlots, !.outAllocd = NumOut]
      BY <1>1, <1>3, <3>3 DEF ContextRec, OutputsOK
    <3>4. CASE z = [y EXCEPT !.freeOut = {}, !.outAllocd = 0]
      BY <1>1, <1>3, <3>4 DEF ContextRec, OutSlots, OutputsOK
    <3>5. QED  BY <3>1, <3>2, <3>3, <3>4
  <2>4. w.done = z.done /\ w.freeOut = z.freeOut /\ w.outAllocd = z.outAllocd
    BY <2>1 DEF CaptureQueue, ContextRec
  <2> HIDE DEF w
  <2>5. OutputsOK(w, None)
    BY <2>3, <2>4 DEF OutputsOK
  <2>6. QED  BY <2>2, <2>5 DEF w
<1>6. QED  BY <1>1, <1>4, <1>5 DEF y

LEMMA OutputsNewContext ==
  ASSUME NEW c \in Contexts, NEW T, NEW n, NEW on
  PROVE  OutputsOK(NewContext(c, T, n, on), None)
<1> DEFINE x == NewContext(c, T, n, on)
<1>1. x.done = {} /\ (x.outAllocd = 0 \/ x.freeOut = OutSlots)
  BY DEF NewContext, ClosedContext, CaptureQueue
<1> HIDE DEF x
<1>2. OutputsOK(x, None)
  BY <1>1, SlotFacts DEF OutputsOK, OutSlots
<1>3. QED  BY <1>2 DEF x

(* The surfaces and contexts.                                              *)
LEMMA OutputsSurfaces ==
  ASSUME TypeOK, OutputsMet, NEW s \in Surfaces,
         CreateSurface(s) \/ DestroySurfaces(s) \/ SyncSurface(s)
  PROVE  OutputsMet'
<1>1. /\ ctx \in [Contexts -> ContextRec] /\ live \subseteq Contexts
      /\ LockFree /\ \A d : InHand(d) = None
  BY DEF TypeOK, CreateSurface, DestroySurfaces, SyncSurface, LockFree, InHand
<1>2. CASE CreateSurface(s) \/ SyncSurface(s)
  BY <1>1, <1>2, OutputsIdle DEF CreateSurface, SyncSurface, SameOutputs
<1>3. CASE DestroySurfaces(s)
  <2>1. \A d \in live : SameOutputs(DetachSurface(d, s), ctx[d])
    BY <1>1 DEF DetachSurface, SameOutputs, ContextRec
  <2>2. live' = live /\ call' = call /\ \A d \in live : ctx'[d] = DetachSurface(d, s)
    BY <1>1, <1>3 DEF DestroySurfaces
  <2>3. QED  BY <1>1, <2>1, <2>2, OutputsIdle
<1>4. QED  BY <1>2, <1>3

LEMMA OutputsContexts ==
  ASSUME TypeOK, OutMode, OutputsMet, NEW c \in Contexts,
         CreateContext(c) \/ CreateContextFails(c) \/ DestroyContext(c) \/ EndPicture(c)
  PROVE  OutputsMet'
<1>1. /\ ctx \in [Contexts -> ContextRec] /\ live \subseteq Contexts
      /\ LockFree /\ \A d : InHand(d) = None
  BY DEF TypeOK, CreateContext, CreateContextFails, DestroyContext, EndPicture, LockFree, InHand
<1>2. CASE CreateContextFails(c)
  BY <1>1, <1>2, OutputsIdle DEF CreateContextFails, SameOutputs
<1>3. CASE DestroyContext(c)
  <2>1. live' \subseteq live /\ call' = call /\ \A d \in live' : ctx'[d] = ctx[d]
    BY <1>1, <1>3 DEF DestroyContext
  <2>2. QED  BY <1>1, <2>1, OutputsIdle DEF SameOutputs
<1>4. CASE CreateContext(c)
  <2>1. PICK T \in Listable(c), n \in CapGrants(c), on \in {TRUE, "streamon" \notin Events} :
          ctx' = [ctx EXCEPT ![c] = NewContext(c, T, n, on)]
    BY <1>4 DEF CreateContext
  <2>2. /\ live' = live \cup {c} /\ call' = call /\ ctx'[c] = NewContext(c, T, n, on)
        /\ \A d \in live \ {c} : ctx'[d] = ctx[d]
    BY <1>1, <1>4, <2>1 DEF CreateContext
  <2>3. OutputsOK(ctx'[c], None) /\ InHand(c)' = None
    BY <1>1, <2>2, OutputsNewContext DEF LockFree, InHand
  <2>4. OutputsOK(ctx'[c], InHand(c)')
    BY <2>3
  <2>5. QED  BY <1>1, <2>2, <2>4, OutputsStep DEF LockFree
<1>5. CASE EndPicture(c)
  <2>1. c \in live /\ OutputsOK(ctx[c], None) /\ ctx[c] \in ContextRec
    BY <1>1, <1>5 DEF EndPicture, OutputsMet
  <2>2. ASSUME Goto(c, ctx[c], surf, [Idle EXCEPT !.at = "prepare", !.ctx = c])
        PROVE  OutputsMet'
    <3> DEFINE next == [Idle EXCEPT !.at = "prepare", !.ctx = c]
    <3>1. next.ctx = c /\ next.at = "prepare" /\ Goto(c, ctx[c], surf, next)
      BY <2>2 DEF Idle
    <3> HIDE DEF next
    <3>2. QED  BY <1>1, <2>1, <3>1, OutputsGoto DEF LockFree
  <2>3. QED  BY <1>1, <1>5, <2>1, <2>2, OutputsFinish DEF EndPicture, LockFree
<1>6. QED  BY <1>2, <1>3, <1>4, <1>5

LEMMA OutputsBeginPicture ==
  ASSUME TypeOK, OutputsMet, NEW c \in Contexts, NEW s \in Surfaces, BeginPicture(c, s)
  PROVE  OutputsMet'
<1>1. /\ ctx \in [Contexts -> ContextRec] /\ live \subseteq Contexts
      /\ LockFree /\ live' = live /\ call' = call
  BY DEF TypeOK, BeginPicture
<1>2. PICK req : ctx' = [ctx EXCEPT ![c] =
         LET k == surf[s].index
             x == [ctx[c] EXCEPT !.current = s,
                     !.request = IF @ = "none" /\ Codec[c] \notin M2MCodecs
                                 THEN req ELSE @]
             recycle == k # None /\ ~ExpbufWanted
         IN  IF recycle /\ ~Av1ModelActive(c) /\ k < x.allocd THEN CapPoolPush(x, k) ELSE x]
  BY DEF BeginPicture
<1>3. SameOutputs(ctx'[c], ctx[c]) /\ \A d \in live \ {c} : ctx'[d] = ctx[d]
  BY <1>1, <1>2 DEF CapPoolPush, SameOutputs, ContextRec
<1>4. \A d \in live : SameOutputs(ctx'[d], ctx[d])
  BY <1>3 DEF SameOutputs
<1>5. QED  BY <1>1, <1>4, OutputsIdle

LEMMA OutputsExport ==
  ASSUME TypeOK, OutMode, OutputsMet, ExpbufMode, NEW s \in Surfaces, ExportSurface(s)
  PROVE  OutputsMet'
<1>1. /\ ctx \in [Contexts -> ContextRec] /\ live \subseteq Contexts
      /\ LockFree /\ (\A d : InHand(d) = None) /\ live' = live /\ call' = call
  BY DEF TypeOK, ExportSurface, LockFree, InHand
<1>2. PICK c \in OwningContexts(s) :
        \E x \in ClaimQueues(s, c) : \E f : ClaimAndExport(s, c, x, f)
  BY DEF ExportSurface
<1>3. c \in live /\ c \in Contexts /\ ctx[c] \in ContextRec
  BY <1>1, <1>2 DEF OwningContexts, ExportSurface, ExpbufMode
<1>4. PICK x \in ClaimQueues(s, c) : \E f : ClaimAndExport(s, c, x, f)
  BY <1>2
<1>5. x \in ContextRec
  BY <1>3, <1>4, ClaimQueuesTypes
<1>6. OutputsOK(x, None)
  <2>1. OutputsOK(ctx[c], None)
    BY <1>1, <1>3 DEF OutputsMet
  <2>2. CASE NeedsQueue(s, c)
    BY <1>3, <1>4, <2>1, <2>2, OutputsRebuilt DEF ClaimQueues, NeedsQueue
  <2>3. CASE ~NeedsQueue(s, c)
    BY <1>4, <2>1, <2>3 DEF ClaimQueues
  <2>4. QED  BY <2>2, <2>3
<1>7. \E F : ctx' = [ctx EXCEPT ![c] = x] \/ ctx' = [ctx EXCEPT ![c] = [x EXCEPT !.free = F]]
  BY <1>4 DEF ClaimAndExport
<1>8. SameOutputs(ctx'[c], x) /\ \A d \in live \ {c} : ctx'[d] = ctx[d]
  BY <1>1, <1>3, <1>5, <1>7 DEF SameOutputs, ContextRec
<1>9. OutputsOK(ctx'[c], None) /\ InHand(c)' = None
  BY <1>1, <1>6, <1>8, OutputsSame DEF LockFree, InHand
<1>10. OutputsOK(ctx'[c], InHand(c)')
  BY <1>9
<1>11. QED  BY <1>1, <1>3, <1>8, <1>10, OutputsStep DEF LockFree

(* One picture, from its buffers to its slot.                              *)
LEMMA OutputsCall ==
  ASSUME TypeOK, OutputsMet, call.at # "idle"
  PROVE  /\ call.ctx \in live /\ call.ctx \in Contexts /\ ctx[call.ctx] \in ContextRec
         /\ OutputsOK(ctx[call.ctx], IF call.at \in {"submit", "wait"}
                                     THEN call.out ELSE None)
<1>1. OutputsOK(ctx[call.ctx], InHand(call.ctx))
  BY DEF TypeOK, OutputsMet
<1>2. InHand(call.ctx) = IF call.at \in {"submit", "wait"} THEN call.out ELSE None
  BY DEF InHand
<1>3. QED  BY <1>1, <1>2 DEF TypeOK

LEMMA OutputsPrepare ==
  ASSUME TypeOK, OutMode, OutputsMet, Prepare
  PROVE  OutputsMet'
<1> DEFINE c == call.ctx
<1>1. /\ call.at = "prepare" /\ c \in live /\ c \in Contexts /\ ctx[c] \in ContextRec
      /\ OutputsOK(ctx[c], None) /\ call \in CallRec
  BY OutputsCall DEF Prepare, TypeOK
<1>2. CASE Fail(c, ctx[c], surf)
  BY <1>1, <1>2, OutputsFail
<1>3. ASSUME NEW h \in Headers(c, ctx[c])
      PROVE  h.x \in ContextRec /\ OutputsOK(h.x, None)
  <2>1. SameOutputs(h.x, ctx[c])
    BY <1>1, HeadersRecord DEF SameRecord, SameOutputs
  <2>2. QED  BY <1>1, <2>1, HeadersTypes, OutputsSame
<1>4. ASSUME NEW h \in Headers(c, ctx[c]), Fail(c, h.x, surf) PROVE OutputsMet'
  BY <1>1, <1>3, <1>4, OutputsFail
<1>5. ASSUME NEW h \in Headers(c, ctx[c]),
             EnsureCapture(c, h.x, [call EXCEPT !.at = "start", !.refresh = h.refresh])
      PROVE  OutputsMet'
  <2> DEFINE x == h.x
             y == CaptureStopped(x)
             f == ReleaseCtxCaptureSurfaces(x)
             next == [call EXCEPT !.at = "start", !.refresh = h.refresh]
  <2>1. next.ctx = c /\ next.at = "start"
    BY <1>1 DEF CallRec
  <2>2. EnsureCapture(c, x, next)
    BY <1>5
  <2> HIDE DEF next
  <2>3. x \in ContextRec /\ OutputsOK(x, None)
    BY <1>3
  <2> HIDE DEF x
  <2>4. CASE Goto(c, x, surf, next)
    BY <1>1, <2>1, <2>3, <2>4, OutputsGoto
  <2>5. CASE "resize" \in Events \/ x.allocd = 0
    <3>1. /\ y \in ContextRec /\ OutputsOK(y, None)
          /\ \A z \in OutputQueues(y), n \in CapGrants(c) \cup {0} :
               CaptureQueue(z, n) \in ContextRec /\ OutputsOK(CaptureQueue(z, n), None)
      BY <1>1, <2>3, <2>5, OutputsRebuilt
    <3> HIDE DEF y, f
    <3>2. CASE Fail(c, y, f)
      BY <1>1, <3>1, <3>2, OutputsFail
    <3>3. ASSUME NEW z \in OutputQueues(y), Fail(c, CaptureQueue(z, 0), f)
          PROVE  OutputsMet'
      BY <1>1, <3>1, <3>3, OutputsFail
    <3>4. ASSUME NEW z \in OutputQueues(y), NEW n \in CapGrants(c),
                 Goto(c, CaptureQueue(z, n), f, next)
          PROVE  OutputsMet'
      BY <1>1, <2>1, <3>1, <3>4, OutputsGoto
    <3>5. \/ Goto(c, x, surf, next) \/ Fail(c, y, f)
          \/ \E z \in OutputQueues(y) :
               Fail(c, CaptureQueue(z, 0), f)
                 \/ \E n \in CapGrants(c) : Goto(c, CaptureQueue(z, n), f, next)
      BY <2>2 DEF EnsureCapture, y, f
    <3>6. QED  BY <2>4, <3>2, <3>3, <3>4, <3>5
  <2>6. QED  BY <2>2, <2>4, <2>5 DEF EnsureCapture
<1>6. QED  BY <1>2, <1>4, <1>5 DEF Prepare

LEMMA OutputsStart ==
  ASSUME TypeOK, OutputsMet, Start
  PROVE  OutputsMet'
<1> DEFINE c == call.ctx
           x == [ctx[c] EXCEPT !.streamed = TRUE]
<1>1. /\ call.at = "start" /\ c \in live /\ c \in Contexts /\ ctx[c] \in ContextRec
      /\ OutputsOK(ctx[c], None) /\ call \in CallRec
  BY OutputsCall DEF Start, TypeOK
<1>2. x \in ContextRec /\ SameOutputs(x, ctx[c])
  BY <1>1 DEF ContextRec, SameOutputs
<1>3. CASE Fail(c, ctx[c], surf)
  BY <1>1, <1>3, OutputsFail
<1>4. CASE Fail(c, x, surf)
  <2> HIDE DEF x
  <2>1. QED  BY <1>1, <1>2, <1>4, OutputsSame, OutputsFail
<1>5. ASSUME NEW o \in x.freeOut,
             Goto(c, [x EXCEPT !.freeOut = @ \ {o}], surf,
                  [call EXCEPT !.at = "submit", !.out = o])
      PROVE  OutputsMet'
  <2> DEFINE y == [x EXCEPT !.freeOut = @ \ {o}]
             next == [call EXCEPT !.at = "submit", !.out = o]
  <2>1. next.ctx = c /\ next.at = "submit" /\ next.out = o
    BY <1>1 DEF CallRec
  <2>2. OutputsOK(x, None)
    <3> HIDE DEF x
    <3>1. QED  BY <1>1, <1>2, OutputsSame
  <2>3. /\ y \in ContextRec /\ y.freeOut = x.freeOut \ {o}
        /\ y.done = x.done /\ y.allocd = x.allocd /\ y.outAllocd = x.outAllocd
    BY <1>2 DEF ContextRec
  <2>4. Goto(c, y, surf, next)
    BY <1>5
  <2> HIDE DEF next, y, x
  <2>5. OutputsOK(y, o)
    BY <2>2, <2>3, SlotFacts DEF OutputsOK
  <2>6. OutputsOK(y, IF next.at \in {"submit", "wait"} THEN next.out ELSE None)
    BY <2>1, <2>5
  <2>7. QED  BY <1>1, <2>1, <2>3, <2>4, <2>6, OutputsGoto
<1>6. QED  BY <1>3, <1>4, <1>5 DEF Start

(* The bitstream slot goes back to its pool, wherever the CAPTURE slot is. *)
LEMMA OutputsBack ==
  ASSUME NEW x \in ContextRec, NEW o \in OutSlots, OutputsOK(x, o)
  PROVE  OutPoolPush(x, o) \in ContextRec /\ OutputsOK(OutPoolPush(x, o), None)
<1> DEFINE y == OutPoolPush(x, o)
<1>1. /\ y.freeOut = x.freeOut \cup {o} /\ y.done = x.done
      /\ y.allocd = x.allocd /\ y.outAllocd = x.outAllocd
  BY DEF OutPoolPush, ContextRec
<1>2. y \in ContextRec
  BY PushTypes
<1> HIDE DEF y
<1>3. OutputsOK(y, None)
  BY <1>1 DEF OutputsOK
<1>4. QED  BY <1>2, <1>3 DEF y

LEMMA OutputsSubmit ==
  ASSUME EInv, ExpbufMode, OutMode, OutputsMet, Submit
  PROVE  OutputsMet'
<1> DEFINE c == call.ctx
           o == call.out
           X == ctx[c]
<1>1. /\ call.at = "submit" /\ c \in live /\ c \in Contexts /\ X \in ContextRec
      /\ OutputsOK(X, o) /\ call \in CallRec /\ o \in OutSlots /\ TypeOK
  BY OutputsCall DEF Submit, EInv, TypeOK
<1>2. CASE Fail(c, OutPoolPush(X, o), surf)
  BY <1>1, <1>2, OutputsBack, OutputsFail
<1>3. ASSUME NEW k \in CaptureChoices(X), NEW x,
             x = IF surf[X.current].index = k /\ ExpbufWanted THEN X
                 ELSE [X EXCEPT !.free = @ \ {k}],
             Goto(c, x, surf, [call EXCEPT !.at = "wait", !.cap = k])
      PROVE  OutputsMet'
  <2> DEFINE next == [call EXCEPT !.at = "wait", !.cap = k]
  <2>1. next.ctx = c /\ next.at = "wait" /\ next.out = o
    BY <1>1 DEF CallRec
  <2>2. x \in ContextRec /\ SameOutputs(x, X)
    BY <1>1, <1>3 DEF ContextRec, SameOutputs
  <2>3. Goto(c, x, surf, next)
    BY <1>3
  <2> HIDE DEF next
  <2>4. OutputsOK(x, o)
    BY <1>1, <2>2, OutputsSame
  <2>5. OutputsOK(x, IF next.at \in {"submit", "wait"} THEN next.out ELSE None)
    BY <2>1, <2>4
  <2>6. QED  BY <1>1, <2>1, <2>2, <2>3, <2>5, OutputsGoto
<1>4. \A k \in CaptureChoices(X) : k \in Slots /\ k < X.allocd
  BY <1>1, ReuseChoices
<1>5. ASSUME NEW k \in CaptureChoices(X), NEW x,
             x = IF surf[X.current].index = k /\ ExpbufWanted THEN X
                 ELSE [X EXCEPT !.free = @ \ {k}]
      PROVE  ~("qbuf_cap" \in Events \/ k >= x.allocd)
  <2>1. x.allocd = X.allocd /\ X.allocd \in Int /\ k \in Int
    BY <1>1, <1>4, <1>5, SlotFacts DEF ContextRec, Slots
  <2>2. QED  BY <1>4, <2>1 DEF OutMode
<1>6. "qbuf_out" \notin Events
  BY DEF ExpbufMode
<1>7. QED  BY <1>2, <1>3, <1>5, <1>6 DEF Submit

(* One slot comes back for the one that went, this one or another.         *)
LEMMA OutputsDequeued ==
  ASSUME OutMode, NEW x \in ContextRec, NEW o \in OutSlots, OutputsOK(x, o),
         x.allocd > 0, NEW z \in Dequeued(x, o)
  PROVE  z \in ContextRec /\ OutputsOK(z, None)
<1>1. z \in ContextRec
  BY ResetTypes
<1>2. /\ z.allocd = x.allocd /\ z.outAllocd = x.outAllocd
      /\ \/ \E d \in IF x.done = {} THEN {o} ELSE x.done :
              z.freeOut = x.freeOut \cup {d} /\ z.done = (x.done \cup {o}) \ {d}
         \/ /\ x.done = {} /\ "late_out" \in Events
            /\ z.freeOut = x.freeOut /\ z.done = x.done \cup {o}
  <2> DEFINE one == IF x.done = {} THEN {o} ELSE x.done
             D == x.done \cup {o}
  <2>1. \/ \E d \in one : z = [x EXCEPT !.freeOut = x.freeOut \cup {d}, !.done = D \ {d}]
        \/ x.done = {} /\ "late_out" \in Events /\ z = [x EXCEPT !.done = D]
    BY DEF Dequeued
  <2>2. ASSUME NEW d, z = [x EXCEPT !.freeOut = x.freeOut \cup {d}, !.done = D \ {d}]
        PROVE  /\ z.allocd = x.allocd /\ z.outAllocd = x.outAllocd
               /\ z.freeOut = x.freeOut \cup {d} /\ z.done = D \ {d}
    BY <2>2 DEF ContextRec
  <2>3. ASSUME z = [x EXCEPT !.done = D]
        PROVE  /\ z.allocd = x.allocd /\ z.outAllocd = x.outAllocd
               /\ z.freeOut = x.freeOut /\ z.done = D
    BY <2>3 DEF ContextRec
  <2>4. QED  BY <2>1, <2>2, <2>3
<1>3. /\ \A i \in OutSlots : i < x.outAllocd => i \in x.freeOut \cup x.done \cup {o}
      /\ x.done # {} => "late_out" \in Events
  BY DEF OutputsOK
<1>4. OutputsOK(z, None)
  BY <1>2, <1>3 DEF OutputsOK
<1>5. QED  BY <1>1, <1>4

LEMMA OutputsWait ==
  ASSUME EInv, ExpbufMode, OutMode, OutputsMet, Wait
  PROVE  OutputsMet'
<1> DEFINE c == call.ctx
           k == call.cap
           o == call.out
           x == ctx[c]
<1>1. /\ call.at = "wait" /\ c \in live /\ c \in Contexts /\ x \in ContextRec
      /\ OutputsOK(x, o) /\ call \in CallRec /\ o \in OutSlots /\ k \in Slots
      /\ call.refresh \in SUBSET Refs /\ TypeOK
  BY OutputsCall DEF Wait, EInv, TypeOK, CallRec
<1>2. x.allocd > 0
  <2>1. FlightSlot(c) = k /\ k # None
    BY <1>1, SlotFacts DEF FlightSlot, EInv, ReuseInv, CallOK
  <2>2. PoolOK(c, x, FlightTable, k)
    BY <1>1, <2>1, ReuseCall
  <2>3. k < x.allocd
    BY <2>1, <2>2 DEF PoolOK, FlightOK
  <2>4. QED  BY <1>1, <2>3, SlotFacts DEF Slots, ContextRec
<1>3. Spoiled(x, k) \in ContextRec /\ SameOutputs(Spoiled(x, k), x)
  BY <1>1, ResetTypes DEF Spoiled, ContextRec, SameOutputs
<1>4. CASE Fail(c, DecodeReset(Spoiled(x, k)), surf)
  <2> DEFINE y == Spoiled(x, k)
             z == DecodeReset(y)
  <2>1. z.done = {} /\ z.outAllocd = x.outAllocd /\ z.freeOut = 0 .. x.outAllocd - 1
    BY <1>3 DEF DecodeReset, RebuildFreePools, DpbModelReset, StreamOff, ContextRec,
                SameOutputs
  <2>2. z \in ContextRec
    BY <1>3, ResetTypes
  <2>3. Fail(c, z, surf)
    BY <1>4
  <2> HIDE DEF z
  <2>4. OutputsOK(z, None)
    BY <1>1, <2>1, SlotFacts DEF OutputsOK, OutSlots, ContextRec
  <2>5. QED  BY <1>1, <2>2, <2>3, <2>4, OutputsFail
<1>5. ASSUME NEW bad \in BOOLEAN, NEW req \in {"ready", "none", "stuck"},
             NEW z \in Dequeued(IF bad THEN CapPoolPush(Spoiled(x, k), k)
                                ELSE Decoded(x, k, call.refresh), o),
             Goto(c, [z EXCEPT !.request = req], surf,
                  [call EXCEPT !.at = "attach", !.bad = bad])
      PROVE  OutputsMet'
  <2> DEFINE y == IF bad THEN CapPoolPush(Spoiled(x, k), k) ELSE Decoded(x, k, call.refresh)
             w == [z EXCEPT !.request = req]
             next == [call EXCEPT !.at = "attach", !.bad = bad]
  <2>1. next.ctx = c /\ next.at = "attach"
    BY <1>1 DEF CallRec
  <2>2. Goto(c, w, surf, next)
    BY <1>5
  <2> HIDE DEF next
  <2>3. y \in ContextRec /\ SameOutputs(y, x)
    <3>1. CASE bad
      <4>1. CapPoolPush(Spoiled(x, k), k) \in ContextRec
        BY <1>1, <1>3, PushTypes
      <4>2. SameOutputs(CapPoolPush(Spoiled(x, k), k), Spoiled(x, k))
        BY <1>3 DEF CapPoolPush, ContextRec, SameOutputs
      <4>3. QED  BY <1>3, <3>1, <4>1, <4>2 DEF SameOutputs
    <3>2. CASE ~bad
      <4>1. Decoded(x, k, call.refresh) \in ContextRec
        BY <1>1, ResetTypes
      <4>2. SameOutputs(Decoded(x, k, call.refresh), x)
        BY <1>1 DEF Decoded, ContextRec, SameOutputs
      <4>3. QED  BY <3>2, <4>1, <4>2
    <3>3. QED  BY <3>1, <3>2
  <2>4. z \in Dequeued(y, o)
    BY <1>5
  <2> HIDE DEF y
  <2>5. OutputsOK(y, o) /\ y.allocd > 0
    BY <1>1, <1>2, <2>3, OutputsSame DEF SameOutputs
  <2>6. z \in ContextRec /\ OutputsOK(z, None)
    BY <1>1, <2>3, <2>4, <2>5, OutputsDequeued
  <2>7. w \in ContextRec /\ SameOutputs(w, z)
    BY <2>6 DEF ContextRec, SameOutputs
  <2> HIDE DEF w
  <2>8. OutputsOK(w, IF next.at \in {"submit", "wait"} THEN next.out ELSE None)
    BY <2>1, <2>6, <2>7, OutputsSame
  <2>9. QED  BY <1>1, <2>1, <2>2, <2>7, <2>8, OutputsGoto
<1>6. QED  BY <1>4, <1>5, Zenon DEF Wait

LEMMA OutputsAttach ==
  ASSUME TypeOK, OutputsMet, Attach
  PROVE  OutputsMet'
<1> DEFINE c == call.ctx
           k == call.cap
           x == ctx[c]
           y == ReleaseUnrefd(x, k, call.refresh).x
<1>1. /\ call.at = "attach" /\ c \in live /\ c \in Contexts /\ x \in ContextRec
      /\ OutputsOK(x, None) /\ k \in Slots /\ call \in CallRec /\ x.current \in Surfaces
  BY OutputsCall DEF Attach, TypeOK
<1>2. CapPoolPush(x, k) \in ContextRec /\ SameOutputs(CapPoolPush(x, k), x)
  BY <1>1, PushTypes DEF CapPoolPush, ContextRec, SameOutputs
<1>3. y \in ContextRec /\ SameOutputs(y, x)
  <2>1. y \in ContextRec
    BY <1>1, ReleaseTypes DEF CallRec
  <2>2. SameOutputs(y, x)
    BY <1>1 DEF ReleaseUnrefd, ContextRec, SameOutputs
  <2>3. QED  BY <2>1, <2>2
<1>4. ASSUME NEW w \in {x, CapPoolPush(x, k), y}
      PROVE  w \in ContextRec /\ OutputsOK(w, None)
  BY <1>1, <1>2, <1>3, <1>4, OutputsSame
<1>5. \E w \in {x, CapPoolPush(x, k), y} : \E f :
        Fail(c, w, f) \/ Succeed(c, w, f)
  BY Zenon DEF Attach
<1>6. QED  BY <1>1, <1>4, <1>5, OutputsFail, OutputsFinish DEF Succeed

LEMMA OutputsNext ==
  ASSUME ExpbufMode, OutMode, EInv, OutputsMet, [Next]_vars
  PROVE  OutputsMet'
<1>1. CASE UNCHANGED vars
  <2>1. \A c : InHand(c)' = InHand(c)
    BY <1>1 DEF vars, InHand
  <2>2. QED  BY <1>1, <2>1 DEF vars, OutputsMet, OutputsOK
<1>2. CASE Next
  <2>1. TypeOK
    BY DEF EInv
  <2>2. CASE \E s \in Surfaces : ExportSurface(s)
    BY <2>1, <2>2, OutputsExport
  <2>3. CASE Prepare \/ Start \/ Submit \/ Wait \/ Attach
    BY <2>1, <2>3, OutputsPrepare, OutputsStart, OutputsSubmit, OutputsWait, OutputsAttach
  <2>4. CASE \E s \in Surfaces : CreateSurface(s) \/ DestroySurfaces(s) \/ SyncSurface(s)
    BY <2>1, <2>4, OutputsSurfaces
  <2>5. CASE \E c \in Contexts : \/ CreateContext(c) \/ CreateContextFails(c)
                                 \/ DestroyContext(c) \/ EndPicture(c)
    BY <2>1, <2>5, OutputsContexts
  <2>6. CASE \E c \in Contexts, s \in Surfaces : BeginPicture(c, s)
    BY <2>1, <2>6, OutputsBeginPicture
  <2>7. QED  BY <1>2, <2>2, <2>3, <2>4, <2>5, <2>6 DEF Next
<1>3. QED  BY <1>1, <1>2

(* decode_submit's contract in the EXPBUF mode: every exit that this mode  *)
(* can take gives the bitstream slot back, also the ones after a surface's *)
(* own slot was reused.  It is a statement about decode contexts: an index *)
(* claimed from the queue of a JPEG or VPP context that lists the surface  *)
(* makes the QBUF of CAPTURE fail, and that exit loses the slot            *)
(* (README.md, section 5).                                                 *)
THEOREM OutputSlotsAccountedExpbuf ==
  ASSUME ExpbufMode, OutMode
  PROVE  Spec => []OutputAccounted
<1>1. Spec => [](TypeOK /\ CurrentSurfaceAlive /\ ReuseInv)
  BY ReuseInductive
<1>2. Init => OutputsMet
  BY DEF Init, OutputsMet
<1>3. TypeOK /\ CurrentSurfaceAlive /\ ReuseInv /\ OutputsMet /\ [Next]_vars => OutputsMet'
  BY OutputsNext DEF EInv
<1>4. OutputsMet => OutputAccounted
  <2> SUFFICES ASSUME OutputsMet, LockFree, NEW c \in live, NEW o \in OutSlots,
                      o < ctx[c].outAllocd
               PROVE  o \in ctx[c].freeOut \cup ctx[c].done
    BY DEF OutputAccounted
  <2>1. OutputsOK(ctx[c], None)
    BY DEF OutputsMet, InHand, LockFree
  <2>2. QED  BY <2>1, SlotFacts DEF OutputsOK
<1>5. QED  BY <1>1, <1>2, <1>3, <1>4, PTL DEF Spec

(* What av1_release_unrefd is for: while nothing resets the driver's model *)
(* of the AV1 reference table alone, no slot the kernel predicts from is   *)
(* on the free list.                                                       *)
THEOREM KernelReferencesNotFree ==
  ASSUME GbmMode, Av1Quiet
  PROVE  Spec => []KernelRefsNotFree
<1>1. IInv /\ RInv => KernelRefsNotFree
  <2> SUFFICES ASSUME IInv, RInv, NEW c \in live, NEW r \in Refs,
                      ctx[c].kdpb[r] # None
               PROVE  ctx[c].kdpb[r] \notin ctx[c].free
    BY DEF KernelRefsNotFree
  <2>1. ctx[c].kdpb[r] = IF r \in Pending(c) THEN call.cap ELSE ctx[c].slotBuf[r]
    BY DEF RInv, RecordsOK, RecordOK, TableOK
  <2>2. PoolOK(c, ctx[c], surf, FlightSlot(c))
    BY DEF IInv, SlotInv, PoolsOK
  <2>3. r \in Pending(c) => FlightSlot(c) = call.cap
    BY DEF Pending, FlightSlot
  <2>4. QED  BY <2>1, <2>2, <2>3 DEF PoolOK, FlightOK, RefsOK
<1>2. QED  BY <1>1, RecordsInductive, PTL

-----------------------------------------------------------------------------
(* No CAPTURE slot gets lost, and DecodeSlots implements SlotPool.         *)

(* Only decoders (the target of a stateful codec takes a slot away from    *)
(* the pool it belongs to), and no REQBUFS(0) fails between the release of *)
(* the surfaces and the new free list.                                     *)
SteadyPools ==
  /\ GbmMode /\ Av1Quiet
  /\ \A c \in Contexts : Decoder(c)
  /\ "reqbufs_zero" \notin Events

(* Every slot that can be listed is free, written, held or referenced.     *)
Accounted(c, x, f, p) ==
  \A k \in Slots : k < x.allocd /\ k < NumCap =>
    \/ k \in x.free \/ k = p
    \/ \E s \in Surfaces : InPool(f, s, c) /\ f[s].index = k
    \/ \E r \in Refs : x.slotBuf[r] = k

(* What an AV1 surface holds is a reference, and its own picture; so a     *)
(* client that keeps to the contract never recycles it.                    *)
HeldAreRefs(c, x, f) ==
  Codec[c] = "AV1" => \A s \in Surfaces : InPool(f, s, c) =>
    /\ \E r \in Refs : x.slotBuf[r] = f[s].index
    /\ x.pixels[f[s].index] = s

(* A recorded owner still holds the slot it is recorded for.               *)
OwnersHold(c, x, f) ==
  \A r \in Refs : x.slotBuf[r] # None /\ x.owner[x.slotBuf[r]] # NoSurface =>
    LET t == x.owner[x.slotBuf[r]]
    IN  InPool(f, t, c) /\ f[t].index = x.slotBuf[r]

(* vaBeginPicture has emptied the surface that is decoded onto.            *)
TargetEmpty(x, f) == x.current # NoSurface => f[x.current].index = None

AccountOK(c, x, f, p) ==
  Accounted(c, x, f, p) /\ HeldAreRefs(c, x, f) /\ OwnersHold(c, x, f) /\ TargetEmpty(x, f)

(* The decoded slot shows the picture it was decoded for.                  *)
PixelsOK ==
  call.at = "attach" /\ ~call.bad => ctx[call.ctx].pixels[call.cap] = ctx[call.ctx].current

AccountsOK == \A c \in live : AccountOK(c, ctx[c], surf, FlightSlot(c))

(* The inductive invariant of the steady pools.                            *)
SInv == IInv /\ RInv /\ Mappable /\ PixelsOK /\ AccountsOK

LEMMA InvImpliesAccounted == SInv => SlotsAccounted
<1> SUFFICES ASSUME SInv, NEW c \in live, NEW k \in Slots,
                    k < ctx[c].allocd, k < NumCap
             PROVE  \/ k \in ctx[c].free
                    \/ \E s \in Surfaces : Holds(s, c, k)
                    \/ InFlight(c, k)
                    \/ Av1ModelActive(c) /\ \E r \in Refs : ctx[c].slotBuf[r] = k
  BY DEF SlotsAccounted
<1>1. Accounted(c, ctx[c], surf, FlightSlot(c)) /\ k # None
  BY SlotFacts DEF SInv, AccountsOK, AccountOK
<1>2. CASE k = FlightSlot(c)
  BY <1>1, <1>2 DEF FlightSlot, InFlight
<1>3. ASSUME NEW s \in Surfaces, InPool(surf, s, c), surf[s].index = k
      PROVE  Holds(s, c, k)
  BY <1>3 DEF InPool, Holds, SInv, IInv, SlotInv, SurfacesOK
<1>4. ASSUME NEW r \in Refs, ctx[c].slotBuf[r] = k PROVE Av1ModelActive(c)
  BY <1>1, <1>4 DEF SInv, IInv, SlotInv, PoolsOK, PoolOK, RefsOK, Av1ModelActive
<1>5. QED  BY <1>1, <1>2, <1>3, <1>4 DEF Accounted

(* Who claims slot k of context c, as a function of its record x, the      *)
(* surface table f and the slot p in flight.                               *)
Holders(f, c, k) == {s \in Surfaces : InPool(f, s, c) /\ f[s].index = k}

Claim(c, x, f, p, k) ==
  (IF k \in x.free THEN {"free"} ELSE {})
  \cup (IF p = k THEN {"flight"} ELSE {})
  \cup Holders(f, c, k)
  \cup (IF (\E r \in Refs : x.slotBuf[r] = k) /\ Holders(f, c, k) = {} /\ p # k
        THEN {"kept"} ELSE {})

ClaimantsAreClaims ==
  \A c \in live, k \in Slots : Claimants(c, k) = Claim(c, ctx[c], surf, FlightSlot(c), k)

LEMMA ClaimantsNow == IInv => ClaimantsAreClaims
<1> SUFFICES ASSUME IInv, NEW c \in live, NEW k \in Slots
             PROVE  Claimants(c, k) = Claim(c, ctx[c], surf, FlightSlot(c), k)
  BY DEF ClaimantsAreClaims
<1>1. k # None
  BY SlotFacts
<1>2. InFlight(c, k) <=> FlightSlot(c) = k
  BY <1>1 DEF InFlight, FlightSlot
<1>3. \A s \in Surfaces : Holds(s, c, k) <=> InPool(surf, s, c) /\ surf[s].index = k
  BY <1>1 DEF Holds, InPool, IInv, SlotInv, SurfacesOK
<1>4. {s \in Surfaces : Holds(s, c, k)} = Holders(surf, c, k)
  BY <1>3 DEF Holders
<1>5. (\A s \in Surfaces : ~Holds(s, c, k)) <=> Holders(surf, c, k) = {}
  BY <1>4
<1>6. QED  BY <1>2, <1>4, <1>5 DEF Claimants, Claim

LEMMA ClaimantsNext == IInv' => ClaimantsAreClaims'
BY ClaimantsNow, PTL

(* The places a slot can be in exclude each other.                         *)
Excluded(c, x, f, p) ==
  /\ \A s \in Surfaces : InPool(f, s, c) =>
       f[s].index \notin x.free /\ f[s].index # p
  /\ DistinctOK(c, f)
  /\ p # None => p \notin x.free
  /\ \A r \in Refs : x.slotBuf[r] # None =>
       x.slotBuf[r] \notin x.free /\ x.slotBuf[r] # p

LEMMA ClaimCases ==
  ASSUME NEW c, NEW x, NEW f, NEW p, Excluded(c, x, f, p), NEW k \in Slots
  PROVE  /\ k \in x.free => Claim(c, x, f, p, k) = Pool!Free
         /\ k = p => Claim(c, x, f, p, k) = Pool!Flight
         /\ \A s \in Surfaces : InPool(f, s, c) /\ f[s].index = k =>
              Claim(c, x, f, p, k) = {s}
         /\ (\E r \in Refs : x.slotBuf[r] = k) /\ Holders(f, c, k) = {} =>
              Claim(c, x, f, p, k) = Pool!Kept
         /\ k \notin x.free /\ k # p /\ Holders(f, c, k) = {}
              /\ (\A r \in Refs : x.slotBuf[r] # k) =>
              Claim(c, x, f, p, k) = Pool!Gone
<1>1. k # None
  BY SlotFacts
<1>2. k \in x.free => Holders(f, c, k) = {} /\ k # p /\ \A r \in Refs : x.slotBuf[r] # k
  BY <1>1 DEF Excluded, Holders
<1>3. k = p => Holders(f, c, k) = {} /\ k \notin x.free /\ \A r \in Refs : x.slotBuf[r] # k
  BY <1>1 DEF Excluded, Holders
<1>4. \A s \in Surfaces : InPool(f, s, c) /\ f[s].index = k =>
        Holders(f, c, k) = {s} /\ k # p /\ k \notin x.free
  BY DEF Excluded, DistinctOK, Holders
<1>5. (\E r \in Refs : x.slotBuf[r] = k) => k \notin x.free /\ k # p
  BY <1>1 DEF Excluded
<1>6. QED
  BY <1>2, <1>3, <1>4, <1>5 DEF Claim, Pool!Free, Pool!Flight, Pool!Kept, Pool!Gone

(* Of a slot that nothing happens to, the claim stays.                     *)
LEMMA ClaimKept ==
  ASSUME NEW c, NEW x, NEW y, NEW f, NEW g, NEW p, NEW q, NEW k,
         k \in y.free <=> k \in x.free, k = q <=> k = p,
         Holders(g, c, k) = Holders(f, c, k),
         (\E r \in Refs : y.slotBuf[r] = k) <=> (\E r \in Refs : x.slotBuf[r] = k)
  PROVE  Claim(c, y, g, q, k) = Claim(c, x, f, p, k)
BY DEF Claim

(* What a step makes of the claims to the slots of context c when it       *)
(* leaves c with record x, the surfaces with f, and slot p in flight.      *)
ClaimsOf(c, x, f, p) == [k \in Slots |-> Claim(c, x, f, p, k)]

Moves(c, x, f, p) ==
  \/ Pool!Exchange(ClaimsOf(c, ctx[c], surf, FlightSlot(c)), ClaimsOf(c, x, f, p))
  \/ Pool!Rebuild(ClaimsOf(c, x, f, p))

SamePool(y, x) ==
  /\ y.free = x.free /\ y.allocd = x.allocd /\ y.slotBuf = x.slotBuf
  /\ y.owner = x.owner /\ y.pixels = x.pixels
  /\ y.current \in {x.current, NoSurface}

SameSlots(g, f) ==
  \A s \in Surfaces : g[s].index = f[s].index /\ (f[s].index = None \/ g[s].from = f[s].from)

(* A step of context c: the other contexts keep their pools.               *)
Becomes(c, x, f, p) ==
  /\ live' \ {c} = live \ {c}
  /\ SamePool(ctx'[c], x)
  /\ \A d \in live \ {c} : /\ SamePool(ctx'[d], ctx[d])
                           /\ FlightSlot(d) = None /\ FlightSlot(d)' = None
  /\ SameSlots(surf', f)
  /\ FlightSlot(c)' = p

(* f differs from the surface table in what c's render targets hold of c.  *)
LocalTo(f, c) ==
  \A s \in Surfaces :
    \/ /\ f[s].index = surf[s].index
       /\ f[s].index = None \/ f[s].from = surf[s].from
    \/ /\ c \in live /\ s \in ctx[c].targets
       /\ f[s].index = None \/ f[s].from = c

LEMMA OthersKept ==
  ASSUME IInv, \A c \in Contexts : Decoder(c), NEW c \in Contexts, NEW f, LocalTo(f, c),
         NEW d \in live \ {c}
  PROVE  /\ \A s \in Surfaces : InPool(f, s, d) <=> InPool(surf, s, d)
         /\ \A s \in Surfaces : InPool(surf, s, d) => f[s].index = surf[s].index
         /\ \A s \in ctx[d].targets : f[s].index = surf[s].index
<1>1. d \in Contexts /\ ctx[d].targets \subseteq Surfaces /\ Decoder(d) /\ Decoder(c)
  BY DEF IInv, TypeOK, ContextRec
<1>2. \A s \in Surfaces : InPool(surf, s, d) => s \in ctx[d].targets
  BY DEF IInv, SlotInv, PoolsOK, PoolOK, HoldersOK
<1>3. c \in live => ctx[c].targets \cap ctx[d].targets = {}
  BY <1>1 DEF IInv, SlotInv, TargetsDisjoint
<1>4. ASSUME NEW s \in Surfaces
      PROVE  /\ InPool(f, s, d) <=> InPool(surf, s, d)
             /\ InPool(surf, s, d) => f[s].index = surf[s].index
             /\ s \in ctx[d].targets => f[s].index = surf[s].index
  <2>1. CASE /\ f[s].index = surf[s].index
             /\ f[s].index = None \/ f[s].from = surf[s].from
    BY <2>1 DEF InPool
  <2>2. CASE /\ c \in live /\ s \in ctx[c].targets
             /\ f[s].index = None \/ f[s].from = c
    BY <1>2, <1>3, <2>2 DEF InPool
  <2>3. QED  BY <2>1, <2>2 DEF LocalTo
<1>5. QED  BY <1>1, <1>4

LEMMA SameAccount ==
  ASSUME NEW d, NEW x, NEW y, NEW f, NEW g, NEW p, AccountOK(d, x, f, p),
         SamePool(y, x),
         \A s \in Surfaces : InPool(g, s, d) <=> InPool(f, s, d),
         \A s \in Surfaces : InPool(f, s, d) => g[s].index = f[s].index,
         x.owner \in [Slots -> Surfaces \cup {NoSurface}],
         x.slotBuf \in [Refs -> Slots \cup {None}],
         x.current # NoSurface => g[x.current].index = None
  PROVE  AccountOK(d, y, g, p)
<1>1. Accounted(d, y, g, p)
  BY DEF AccountOK, Accounted, SamePool
<1>2. HeldAreRefs(d, y, g)
  BY DEF AccountOK, HeldAreRefs, SamePool
<1>3. OwnersHold(d, y, g)
  BY DEF AccountOK, OwnersHold, SamePool
<1>4. TargetEmpty(y, g)
  BY DEF TargetEmpty, SamePool
<1>5. QED  BY <1>1, <1>2, <1>3, <1>4 DEF AccountOK

LEMMA SameClaims ==
  ASSUME NEW d, NEW x, NEW y, NEW f, NEW g, NEW p,
         y.free = x.free, y.slotBuf = x.slotBuf,
         \A s \in Surfaces : InPool(g, s, d) <=> InPool(f, s, d),
         \A s \in Surfaces : InPool(f, s, d) => g[s].index = f[s].index
  PROVE  ClaimsOf(d, y, g, p) = ClaimsOf(d, x, f, p)
<1>1. \A k : Holders(g, d, k) = Holders(f, d, k)
  BY DEF Holders
<1>2. QED  BY <1>1 DEF ClaimsOf, Claim

(* One picture's step, or one entry point's, in the abstract pool.         *)
LEMMA StepOfPool ==
  ASSUME IInv, IInv', AccountsOK, \A c \in Contexts : Decoder(c),
         NEW c \in Contexts, NEW x \in ContextRec, NEW f, NEW p,
         Becomes(c, x, f, p), LocalTo(f, c),
         c \in live' => AccountOK(c, x, f, p) /\ (c \in live => Moves(c, x, f, p)),
         c \in live' /\ c \notin live => Pool!Rebuild(ClaimsOf(c, x, f, p))
  PROVE  AccountsOK' /\ [Pool!Next]_([d \in Contexts |-> [k \in Slots |-> Claimants(d, k)]])
<1>1. live \subseteq Contexts /\ live' \subseteq Contexts
      /\ \A d \in live : ctx[d] \in ContextRec
  BY DEF IInv, TypeOK
<1>2. \A s \in Surfaces : \A d : /\ InPool(surf', s, d) <=> InPool(f, s, d)
                                 /\ surf'[s].index = f[s].index
  BY DEF Becomes, SameSlots, InPool
<1>3. ASSUME NEW d \in live \ {c}
      PROVE  /\ AccountOK(d, ctx'[d], surf', FlightSlot(d)')
             /\ \A k \in Slots : Claimants(d, k)' = Claimants(d, k)
  <2>1. /\ \A s \in Surfaces : InPool(f, s, d) <=> InPool(surf, s, d)
        /\ \A s \in Surfaces : InPool(surf, s, d) => f[s].index = surf[s].index
        /\ \A s \in ctx[d].targets : f[s].index = surf[s].index
    BY OthersKept
  <2>2. d \in Contexts /\ d \in live' /\ ctx[d] \in ContextRec /\ Decoder(d)
    BY <1>1 DEF Becomes
  <2>3. /\ SamePool(ctx'[d], ctx[d])
        /\ FlightSlot(d) = None /\ FlightSlot(d)' = None
    BY DEF Becomes
  <2>4. AccountOK(d, ctx[d], surf, None)
    BY <2>3 DEF AccountsOK
  <2>5. ctx[d].current # NoSurface => surf'[ctx[d].current].index = None
    <3>1. ctx[d].current # NoSurface => ctx[d].current \in ctx[d].targets
      BY <2>2 DEF IInv, SlotInv, ContextsOK
    <3>2. ctx[d].current # NoSurface => surf[ctx[d].current].index = None
      BY <2>4 DEF AccountOK, TargetEmpty
    <3>3. ctx[d].current # NoSurface => ctx[d].current \in Surfaces
      BY <2>2 DEF ContextRec
    <3>4. QED  BY <1>2, <2>1, <3>1, <3>2, <3>3
  <2>6. /\ \A s \in Surfaces : InPool(surf', s, d) <=> InPool(surf, s, d)
        /\ \A s \in Surfaces : InPool(surf, s, d) => surf'[s].index = surf[s].index
    BY <1>2, <2>1
  <2>7. /\ ctx[d].owner \in [Slots -> Surfaces \cup {NoSurface}]
        /\ ctx[d].slotBuf \in [Refs -> Slots \cup {None}]
    BY <2>2 DEF ContextRec
  <2>8. AccountOK(d, ctx'[d], surf', None)
    BY <2>3, <2>4, <2>5, <2>6, <2>7, SameAccount
  <2>9. ClaimsOf(d, ctx'[d], surf', None) = ClaimsOf(d, ctx[d], surf, None)
    BY <2>3, <2>6, SameClaims DEF SamePool
  <2>10. \A k \in Slots : Claim(d, ctx'[d], surf', None, k) = Claim(d, ctx[d], surf, None, k)
    BY <2>9 DEF ClaimsOf
  <2>11. \A k \in Slots : /\ Claimants(d, k) = Claim(d, ctx[d], surf, None, k)
                          /\ Claimants(d, k)' = Claim(d, ctx'[d], surf', None, k)
    BY <2>2, <2>3, ClaimantsNow, ClaimantsNext DEF ClaimantsAreClaims
  <2>12. QED  BY <2>3, <2>8, <2>10, <2>11
<1>4. ASSUME c \in live' PROVE AccountOK(c, ctx'[c], surf', FlightSlot(c)')
  <2>1. AccountOK(c, x, f, p) /\ SamePool(ctx'[c], x) /\ FlightSlot(c)' = p
    BY <1>4 DEF Becomes
  <2>2. x.current # NoSurface => x.current \in Surfaces /\ f[x.current].index = None
    BY <2>1 DEF AccountOK, TargetEmpty, ContextRec
  <2>3. /\ x.owner \in [Slots -> Surfaces \cup {NoSurface}]
        /\ x.slotBuf \in [Refs -> Slots \cup {None}]
    BY DEF ContextRec
  <2>4. AccountOK(c, ctx'[c], surf', p)
    BY <1>2, <2>1, <2>2, <2>3, SameAccount
  <2>5. QED  BY <2>1, <2>4
<1>5. AccountsOK'
  <2>1. ASSUME NEW d \in live' PROVE AccountOK(d, ctx'[d], surf', FlightSlot(d)')
    BY <1>3, <1>4 DEF Becomes
  <2>2. QED  BY <2>1 DEF AccountsOK, AccountOK, Accounted, HeldAreRefs, OwnersHold,
                         TargetEmpty, InPool
<1> DEFINE before == [d \in Contexts |-> [k \in Slots |-> Claimants(d, k)]]
           after == [d \in Contexts |-> [k \in Slots |-> Claimants(d, k)']]
<1>6. \A d \in Contexts \ {c} : after[d] = before[d]
  <2>1. ASSUME NEW d \in Contexts \ {c}, d \notin live
        PROVE  \A k \in Slots : Claimants(d, k)' = Claimants(d, k)
    BY <2>1 DEF Becomes, Claimants
  <2>2. QED  BY <1>3, <2>1
<1>7. \/ Pool!Exchange(before[c], after[c])
      \/ Pool!Rebuild(after[c])
  <2>1. c \in live' => after[c] = ClaimsOf(c, x, f, p)
    <3> SUFFICES ASSUME c \in live' PROVE after[c] = ClaimsOf(c, x, f, p)
      OBVIOUS
    <3>1. \A k \in Slots : Claimants(c, k)' = Claim(c, ctx'[c], surf', p, k)
      BY ClaimantsNext DEF ClaimantsAreClaims, Becomes
    <3>2. ClaimsOf(c, ctx'[c], surf', p) = ClaimsOf(c, x, f, p)
      BY <1>2, SameClaims DEF Becomes, SamePool
    <3>3. QED  BY <3>1, <3>2 DEF ClaimsOf
  <2>2. c \in live => before[c] = ClaimsOf(c, ctx[c], surf, FlightSlot(c))
    BY ClaimantsNow DEF ClaimantsAreClaims, ClaimsOf
  <2>3. c \notin live' => Pool!Rebuild(after[c])
    BY DEF Pool!Rebuild, Pool!Free, Pool!Gone, Claimants
  <2> HIDE DEF before, after
  <2>4. QED  BY <2>1, <2>2, <2>3 DEF Moves
<1>8. Pool!Next
  BY <1>6, <1>7 DEF Pool!Next
<1>9. QED  BY <1>5, <1>8

(* At most one slot is in flight before or after a step, or the same.      *)
LEMMA MovesIf ==
  ASSUME NEW c, NEW x, NEW f, NEW p, p = None \/ FlightSlot(c) \in {None, p},
         \A k \in Slots :
           LET old == Claim(c, ctx[c], surf, FlightSlot(c), k)
               new == Claim(c, x, f, p, k)
           IN  new = old \/ Pool!Handover(old, new)
  PROVE  Moves(c, x, f, p)
<1> DEFINE old == ClaimsOf(c, ctx[c], surf, FlightSlot(c))
           new == ClaimsOf(c, x, f, p)
<1>1. \A k \in Slots : old[k] = new[k] \/ Pool!Handover(old[k], new[k])
  BY DEF ClaimsOf
<1>2. \A y, g, q, k : "flight" \in Claim(c, y, g, q, k) => k = q
  BY NamesAssumption DEF Claim, Holders
<1>3. \A k \in Slots : /\ old[k] = Pool!Flight => k = FlightSlot(c)
                       /\ new[k] = Pool!Flight => k = p
  BY <1>2 DEF ClaimsOf, Pool!Flight
<1> HIDE DEF old, new
<1>4. \A j, k \in Slots :
        Pool!Flight \in {old[j], new[j]} /\ Pool!Flight \in {old[k], new[k]} => j = k
  BY <1>3, SlotFacts
<1>5. QED  BY <1>1, <1>4 DEF Moves, Pool!Exchange, old, new

LEMMA PoolExcluded ==
  ASSUME NEW c, NEW x, NEW f, NEW p, PoolOK(c, x, f, p)
  PROVE  Excluded(c, x, f, p)
BY DEF PoolOK, HoldersOK, FlightOK, RefsOK, Excluded

LEMMA BecomesExcluded ==
  ASSUME IInv', NEW c \in live', NEW x, NEW f, NEW p, Becomes(c, x, f, p)
  PROVE  Excluded(c, x, f, p)
<1>1. PoolOK(c, ctx'[c], surf', p)
  BY DEF IInv, SlotInv, PoolsOK, Becomes, PoolOK, HoldersOK, DistinctOK, FlightOK, RefsOK,
         InPool
<1>2. Excluded(c, ctx'[c], surf', p)
  BY <1>1, PoolExcluded
<1>3. QED  BY <1>2 DEF Excluded, DistinctOK, InPool, Becomes, SamePool, SameSlots

(* What the exits and jumps of vaEndPicture leave.                         *)
LEMMA FinishBecomes ==
  ASSUME IInv, NEW c \in live, NEW x \in ContextRec, NEW f \in SurfTable, NEW st, NEW ret,
         call.at = "idle" \/ call.ctx = c, Finish(c, x, f, st, ret)
  PROVE  Becomes(c, x, f, None)
<1>1. ctx \in [Contexts -> ContextRec] /\ live \subseteq Contexts /\ c \in Contexts
  BY DEF IInv, TypeOK
<1>2. /\ live' = live /\ call'.at = "idle"
      /\ ctx' = [ctx EXCEPT ![c] = [x EXCEPT !.current = NoSurface]]
      /\ surf' = [f EXCEPT ![x.current].status = st]
  BY DEF Finish, Idle
<1>3. SamePool([x EXCEPT !.current = NoSurface], x)
  BY DEF SamePool, ContextRec
<1>4. ctx'[c] = [x EXCEPT !.current = NoSurface] /\ \A d \in live \ {c} : ctx'[d] = ctx[d]
  BY <1>1, <1>2
<1>5. SameSlots(surf', f)
  BY <1>2 DEF SameSlots, SurfTable, SurfaceRec
<1>6. \A d : FlightSlot(d)' = None
  BY <1>2 DEF FlightSlot
<1>7. \A d \in live \ {c} : FlightSlot(d) = None
  BY DEF FlightSlot
<1>8. QED  BY <1>2, <1>3, <1>4, <1>5, <1>6, <1>7 DEF Becomes, SamePool

LEMMA FailBecomes ==
  ASSUME IInv, NEW c \in live, NEW x \in ContextRec, NEW f \in SurfTable,
         call.at = "idle" \/ call.ctx = c, Fail(c, x, f)
  PROVE  Becomes(c, x, f, None)
<1> DEFINE y == [x EXCEPT !.request = "none"]
<1>1. y \in ContextRec /\ SamePool(y, x) /\ y.current = x.current
  BY DEF ContextRec, SamePool
<1>2. Finish(c, y, f, "Skipped", "error")
  BY DEF Fail
<1> HIDE DEF y
<1>3. Becomes(c, y, f, None)
  BY <1>1, <1>2, FinishBecomes
<1>4. QED  BY <1>1, <1>3 DEF Becomes, SamePool

LEMMA GotoBecomes ==
  ASSUME IInv, NEW c \in live, NEW x, NEW f, NEW next,
         call.at = "idle" \/ call.ctx = c, next.ctx = c, Goto(c, x, f, next)
  PROVE  Becomes(c, x, f, IF next.at \in {"wait", "attach"} /\ ~next.bad
                          THEN next.cap ELSE None)
<1>1. ctx \in [Contexts -> ContextRec] /\ live \subseteq Contexts /\ c \in Contexts
  BY DEF IInv, TypeOK
<1>2. live' = live /\ call' = next /\ surf' = f /\ ctx'[c] = x
      /\ \A d \in live \ {c} : ctx'[d] = ctx[d]
  BY <1>1 DEF Goto
<1>3. /\ FlightSlot(c)' = IF next.at \in {"wait", "attach"} /\ ~next.bad
                          THEN next.cap ELSE None
      /\ \A d \in live \ {c} : FlightSlot(d) = None /\ FlightSlot(d)' = None
  BY <1>2 DEF FlightSlot
<1>4. QED  BY <1>2, <1>3 DEF Becomes, SamePool, SameSlots

LEMMA TablesLocal ==
  ASSUME IInv, NEW c
  PROVE  /\ surf \in SurfTable /\ LocalTo(surf, c)
         /\ c \in live => /\ Unheld(surf, ctx[c].targets) \in SurfTable
                          /\ LocalTo(Unheld(surf, ctx[c].targets), c)
                          /\ PoolOK(c, ctx[c], surf, FlightSlot(c)) =>
                               \A s \in Surfaces : ~InPool(Unheld(surf, ctx[c].targets), s, c)
<1>1. surf \in SurfTable
  BY DEF IInv, TypeOK, SurfTable
<1>2. LocalTo(surf, c)
  BY DEF LocalTo
<1>3. ASSUME c \in live
      PROVE  LET f == Unheld(surf, ctx[c].targets)
             IN  /\ f \in SurfTable /\ LocalTo(f, c)
                 /\ PoolOK(c, ctx[c], surf, FlightSlot(c)) =>
                      \A s \in Surfaces : ~InPool(f, s, c)
  <2> DEFINE f == Unheld(surf, ctx[c].targets)
  <2>1. f \in SurfTable
    BY <1>1, UnheldType
  <2>2. \A s \in Surfaces :
          \/ f[s] = surf[s] /\ (s \notin ctx[c].targets \/ surf[s].index = None)
          \/ f[s].index = None /\ s \in ctx[c].targets
    <3>1. \A s \in Surfaces : s \notin ctx[c].targets => f[s] = surf[s]
      BY DEF Unheld
    <3>2. QED  BY <3>1, UnheldSlots
  <2> HIDE DEF f
  <2>3. LocalTo(f, c)
    BY <1>3, <2>2 DEF LocalTo
  <2>4. PoolOK(c, ctx[c], surf, FlightSlot(c)) => \A s \in Surfaces : ~InPool(f, s, c)
    BY <2>2 DEF PoolOK, HoldersOK, InPool
  <2>5. QED  BY <2>1, <2>3, <2>4 DEF f
<1>4. QED  BY <1>1, <1>2, <1>3

(* One context's record and its render targets change, the new record      *)
(* accounts for its slots, and its claims move as the abstract pool's do.  *)
OneContextSteps ==
  \E c \in Contexts, x \in ContextRec : \E f, p :
    /\ Becomes(c, x, f, p) /\ LocalTo(f, c)
    /\ c \in live' => AccountOK(c, x, f, p) /\ (c \in live => Moves(c, x, f, p))
    /\ c \in live' /\ c \notin live => Pool!Rebuild(ClaimsOf(c, x, f, p))

LEMMA ContextFacts ==
  ASSUME SInv, NEW c \in live
  PROVE  /\ c \in Contexts /\ ctx[c] \in ContextRec
         /\ PoolOK(c, ctx[c], surf, FlightSlot(c))
         /\ Excluded(c, ctx[c], surf, FlightSlot(c))
         /\ AccountOK(c, ctx[c], surf, FlightSlot(c))
BY PoolExcluded DEF SInv, IInv, TypeOK, SlotInv, PoolsOK, AccountsOK

(* Nothing moves.                                                          *)
LEMMA KeepStep ==
  ASSUME SInv, NEW c \in live, NEW x \in ContextRec, SamePool(x, ctx[c]),
         NEW p, p = FlightSlot(c), Becomes(c, x, surf, p)
  PROVE  OneContextSteps
<1>1. c \in Contexts /\ ctx[c] \in ContextRec /\ AccountOK(c, ctx[c], surf, p)
  BY ContextFacts
<1>2. AccountOK(c, x, surf, p)
  <2>1. /\ ctx[c].owner \in [Slots -> Surfaces \cup {NoSurface}]
        /\ ctx[c].slotBuf \in [Refs -> Slots \cup {None}]
        /\ ctx[c].current # NoSurface => surf[ctx[c].current].index = None
    BY <1>1 DEF ContextRec, AccountOK, TargetEmpty
  <2>2. QED  BY <1>1, <2>1, SameAccount
<1>3. Moves(c, x, surf, p)
  <2>1. \A k \in Slots : Claim(c, x, surf, p, k) = Claim(c, ctx[c], surf, p, k)
    BY DEF Claim, SamePool
  <2>2. QED  BY <2>1, MovesIf
<1>4. LocalTo(surf, c)
  BY TablesLocal DEF SInv
<1>5. QED  BY <1>1, <1>2, <1>3, <1>4 DEF OneContextSteps

(* The queue is allocated anew.                                            *)
LEMMA RebuiltPool ==
  ASSUME NEW c, NEW x, NEW f, NEW n \in Int,
         x.allocd = n, x.free = {k \in 0 .. n - 1 : k < NumCap},
         \A r \in Refs : x.slotBuf[r] = None,
         \A s \in Surfaces : ~InPool(f, s, c),
         TargetEmpty(x, f)
  PROVE  AccountOK(c, x, f, None) /\ Pool!Rebuild(ClaimsOf(c, x, f, None))
<1>1. \A k \in Slots : k # None /\ k \in Nat /\ \A j \in 0 .. k : j \in Slots
  BY SlotFacts DEF Slots
<1>2. Accounted(c, x, f, None)
  BY <1>1 DEF Accounted
<1>3. HeldAreRefs(c, x, f) /\ OwnersHold(c, x, f)
  BY DEF HeldAreRefs, OwnersHold
<1>4. \A k \in Slots : Claim(c, x, f, None, k) =
                         IF k < n /\ k < NumCap THEN Pool!Free ELSE Pool!Gone
  <2>1. \A k \in Slots : Holders(f, c, k) = {}
    BY DEF Holders
  <2>2. QED  BY <1>1, <2>1 DEF Claim, Pool!Free, Pool!Gone
<1>5. Pool!Rebuild(ClaimsOf(c, x, f, None))
  <2>1. NumCap \in Int
    BY SlotFacts
  <2>2. \A k \in Slots : \A j \in 0 .. k :
          Claim(c, x, f, None, k) = Pool!Free => Claim(c, x, f, None, j) = Pool!Free
    BY <1>1, <1>4, <2>1 DEF Pool!Free, Pool!Gone
  <2>3. QED  BY <1>1, <1>4, <2>2 DEF ClaimsOf, Pool!Rebuild
<1>6. QED  BY <1>2, <1>3, <1>5 DEF AccountOK

LEMMA StepsEndPicture ==
  ASSUME SInv, NEW c \in Contexts, EndPicture(c)
  PROVE  OneContextSteps
<1> DEFINE next == [Idle EXCEPT !.at = "prepare", !.ctx = c]
<1>1. IInv /\ c \in live /\ call.at = "idle" /\ ctx[c] \in ContextRec
  BY DEF EndPicture, LockFree, SInv, IInv, TypeOK
<1>2. FlightSlot(c) = None /\ SamePool(ctx[c], ctx[c]) /\ surf \in SurfTable
  BY <1>1 DEF FlightSlot, SamePool, IInv, TypeOK, SurfTable
<1>3. CASE \E st, ret : Finish(c, ctx[c], surf, st, ret)
  BY <1>1, <1>2, <1>3, FinishBecomes, KeepStep
<1>4. CASE Goto(c, ctx[c], surf, next)
  <2>1. next.at = "prepare" /\ next.ctx = c
    BY DEF Idle
  <2> HIDE DEF next
  <2>2. Becomes(c, ctx[c], surf, None)
    BY <1>1, <1>4, <2>1, GotoBecomes
  <2>3. QED  BY <1>1, <1>2, <2>2, KeepStep
<1>5. QED  BY <1>3, <1>4 DEF EndPicture

LEMMA StepsStart == ASSUME SInv, Start PROVE OneContextSteps
<1> DEFINE c == call.ctx
           x == [ctx[c] EXCEPT !.streamed = TRUE]
<1>1. /\ IInv /\ c \in live /\ ctx[c] \in ContextRec /\ call \in CallRec
      /\ call.at = "start" /\ FlightSlot(c) = None /\ surf \in SurfTable
  BY CallFacts DEF Start, SInv, FlightSlot, IInv, TypeOK, SurfTable
<1>2. x \in ContextRec /\ SamePool(x, ctx[c]) /\ SamePool(ctx[c], ctx[c])
  BY <1>1 DEF ContextRec, SamePool
<1>3. \/ Fail(c, ctx[c], surf) \/ Fail(c, x, surf)
      \/ \E o \in x.freeOut : Goto(c, [x EXCEPT !.freeOut = @ \ {o}], surf,
                                   [call EXCEPT !.at = "submit", !.out = o])
  BY DEF Start
<1> HIDE DEF x
<1>4. CASE Fail(c, ctx[c], surf) \/ Fail(c, x, surf)
  BY <1>1, <1>2, <1>4, FailBecomes, KeepStep
<1>5. ASSUME NEW o \in x.freeOut,
             Goto(c, [x EXCEPT !.freeOut = @ \ {o}], surf,
                  [call EXCEPT !.at = "submit", !.out = o])
      PROVE  OneContextSteps
  <2> DEFINE y == [x EXCEPT !.freeOut = @ \ {o}]
             next == [call EXCEPT !.at = "submit", !.out = o]
  <2>1. next.ctx = c /\ next.at = "submit"
    BY <1>1 DEF CallRec
  <2>2. y \in ContextRec /\ SamePool(y, x) /\ y.current = x.current
    BY <1>2 DEF ContextRec, SamePool
  <2>3. Goto(c, y, surf, next)
    BY <1>5
  <2> HIDE DEF y, next
  <2>4. SamePool(y, ctx[c])
    BY <1>2, <2>2 DEF SamePool
  <2>5. Becomes(c, y, surf, None)
    BY <1>1, <2>1, <2>3, GotoBecomes
  <2>6. QED  BY <1>1, <2>2, <2>4, <2>5, KeepStep
<1>6. QED  BY <1>3, <1>4, <1>5

LEMMA StepsPrepare == ASSUME SteadyPools, SInv, Prepare PROVE OneContextSteps
<1> DEFINE c == call.ctx
<1>1. /\ IInv /\ c \in live /\ c \in Contexts /\ ctx[c] \in ContextRec /\ call \in CallRec
      /\ call.at = "prepare" /\ FlightSlot(c) = None /\ surf \in SurfTable
      /\ PoolOK(c, ctx[c], surf, None) /\ AccountOK(c, ctx[c], surf, None)
  BY CallFacts, ContextFacts DEF Prepare, SInv, FlightSlot, IInv, TypeOK, SurfTable
<1>2. SamePool(ctx[c], ctx[c])
  BY DEF SamePool
<1>3. CASE Fail(c, ctx[c], surf)
  BY <1>1, <1>2, <1>3, FailBecomes, KeepStep
<1>4. ASSUME NEW h \in Headers(c, ctx[c])
      PROVE  /\ h.x \in ContextRec /\ SamePool(h.x, ctx[c])
             /\ h.x.targets = ctx[c].targets /\ h.x.current = ctx[c].current
             /\ h.x.streamed = ctx[c].streamed
  BY <1>1, <1>4 DEF Headers, ContextRec, SamePool
<1>5. ASSUME NEW h \in Headers(c, ctx[c]), Fail(c, h.x, surf) PROVE OneContextSteps
  BY <1>1, <1>4, <1>5, FailBecomes, KeepStep
<1>6. ASSUME NEW h \in Headers(c, ctx[c]),
             EnsureCapture(c, h.x, [call EXCEPT !.at = "start", !.refresh = h.refresh])
      PROVE  OneContextSteps
  <2> DEFINE x == h.x
             y == CaptureStopped(x)
             f == ReleaseCtxCaptureSurfaces(x)
             next == [call EXCEPT !.at = "start", !.refresh = h.refresh]
  <2>1. next.ctx = c /\ next.at = "start"
    BY <1>1 DEF CallRec
  <2>2. \/ Goto(c, x, surf, next)
        \/ \E z \in OutputQueues(y) :
             \/ Fail(c, CaptureQueue(z, 0), f)
             \/ \E n \in CapGrants(c) : Goto(c, CaptureQueue(z, n), f, next)
    BY <1>6 DEF EnsureCapture, SteadyPools
  <2>3. /\ f \in SurfTable /\ LocalTo(f, c) /\ \A s \in Surfaces : ~InPool(f, s, c)
        /\ \A s \in Surfaces : f[s].index \in {surf[s].index, None}
    <3>1. f = Unheld(surf, ctx[c].targets)
      BY <1>4 DEF ReleaseCtxCaptureSurfaces
    <3>2. QED  BY <1>1, <3>1, TablesLocal, UnheldIndex
  <2>4. \A r \in Refs : y.slotBuf[r] = None
    <3>1. CASE x.streamed
      BY <1>4, <3>1 DEF CaptureStopped, DpbModelReset, StreamOff, ContextRec
    <3>2. CASE ~x.streamed
      BY <1>1, <1>4, <3>2 DEF CaptureStopped, PoolOK, RefsOK, SamePool
    <3>3. QED  BY <3>1, <3>2
  <2>5. ASSUME NEW z \in OutputQueues(y), NEW n \in CapGrants(c) \cup {0}
        PROVE  LET w == CaptureQueue(z, n)
               IN  /\ w \in ContextRec /\ n \in Int /\ w.allocd = n
                   /\ w.free = {k \in 0 .. n - 1 : k < NumCap}
                   /\ \A r \in Refs : w.slotBuf[r] = None
                   /\ w.current = ctx[c].current
    <3> DEFINE w == CaptureQueue(z, n)
    <3>1. y \in ContextRec /\ z \in ContextRec
      BY <1>4, ResetTypes
    <3>2. z.slotBuf = y.slotBuf
      BY <3>1 DEF OutputQueues, ContextRec
    <3>3. n \in 0 .. NumCapAV1
      BY <1>1, SlotFacts
    <3>4. w \in ContextRec
      BY <3>1, <3>3, ResetTypes
    <3>5. w.current = x.current
      BY <1>4, CurrentKept
    <3>6. /\ w.allocd = n /\ w.slotBuf = z.slotBuf
          /\ w.free = {k \in 0 .. n - 1 : k < NumCap}
      BY <3>1 DEF CaptureQueue, ContextRec
    <3>7. QED  BY <1>4, <2>4, <3>2, <3>3, <3>4, <3>5, <3>6
  <2> HIDE DEF next, f
  <2>6. CASE Goto(c, x, surf, next)
    <3>1. Becomes(c, x, surf, None)
      BY <1>1, <2>1, <2>6, GotoBecomes
    <3>2. QED  BY <1>1, <1>4, <3>1, KeepStep
  <2>7. ASSUME NEW z \in OutputQueues(y), NEW n \in CapGrants(c) \cup {0},
               \/ Fail(c, CaptureQueue(z, n), f)
               \/ Goto(c, CaptureQueue(z, n), f, next)
        PROVE  OneContextSteps
    <3> DEFINE w == CaptureQueue(z, n)
    <3>1. /\ w \in ContextRec /\ n \in Int /\ w.allocd = n
          /\ w.free = {k \in 0 .. n - 1 : k < NumCap}
          /\ \A r \in Refs : w.slotBuf[r] = None
          /\ w.current = ctx[c].current
      BY <2>5
    <3>2. Fail(c, w, f) \/ Goto(c, w, f, next)
      BY <2>7
    <3> HIDE DEF w
    <3>3. Becomes(c, w, f, None)
      BY <1>1, <2>1, <2>3, <3>1, <3>2, FailBecomes, GotoBecomes
    <3>4. TargetEmpty(w, f)
      BY <1>1, <2>3, <3>1 DEF AccountOK, TargetEmpty, ContextRec
    <3>5. AccountOK(c, w, f, None) /\ Pool!Rebuild(ClaimsOf(c, w, f, None))
      BY <2>3, <3>1, <3>4, RebuiltPool
    <3>6. QED  BY <1>1, <2>3, <3>1, <3>3, <3>5 DEF OneContextSteps, Moves
  <2>8. QED  BY <2>2, <2>6, <2>7
<1>7. QED  BY <1>3, <1>5, <1>6 DEF Prepare

(* The decoder takes a free slot.                                          *)
LEMMA TakeStep ==
  ASSUME SInv, IInv', NEW c \in live, NEW x \in ContextRec, NEW k \in ctx[c].free,
         FlightSlot(c) = None,
         x.free = ctx[c].free \ {k}, x.allocd = ctx[c].allocd,
         x.slotBuf = ctx[c].slotBuf, x.owner = ctx[c].owner,
         x.pixels = ctx[c].pixels, x.current = ctx[c].current,
         Becomes(c, x, surf, k), live' = live
  PROVE  OneContextSteps
<1>1. /\ c \in Contexts /\ ctx[c] \in ContextRec /\ k \in Slots
      /\ Excluded(c, ctx[c], surf, None) /\ AccountOK(c, ctx[c], surf, None)
  BY ContextFacts DEF ContextRec
<1>2. Excluded(c, x, surf, k)
  BY BecomesExcluded
<1>3. AccountOK(c, x, surf, k)
  <2>1. Accounted(c, x, surf, k)
    BY <1>1, SlotFacts DEF AccountOK, Accounted
  <2>2. HeldAreRefs(c, x, surf) /\ OwnersHold(c, x, surf) /\ TargetEmpty(x, surf)
    BY <1>1 DEF AccountOK, HeldAreRefs, OwnersHold, TargetEmpty
  <2>3. QED  BY <2>1, <2>2 DEF AccountOK
<1>4. ASSUME NEW j \in Slots
      PROVE  LET old == Claim(c, ctx[c], surf, None, j)
                 new == Claim(c, x, surf, k, j)
             IN  new = old \/ Pool!Handover(old, new)
  <2>1. CASE j = k
    BY <1>1, <1>2, <2>1, ClaimCases DEF Pool!Handover
  <2>2. CASE j # k
    <3>1. j # None
      BY SlotFacts
    <3>2. QED  BY <2>2, <3>1 DEF Claim
  <2>3. QED  BY <2>1, <2>2
<1>5. Moves(c, x, surf, k)
  BY <1>4, MovesIf
<1>6. LocalTo(surf, c)
  BY TablesLocal DEF SInv
<1>7. QED  BY <1>1, <1>3, <1>5, <1>6 DEF OneContextSteps

(* The slot in flight comes back to the pool.                              *)
LEMMA BackStep ==
  ASSUME SInv, IInv', NEW c \in live, NEW x \in ContextRec, NEW k \in Slots,
         FlightSlot(c) = k,
         x.free = ctx[c].free \cup {k}, x.allocd = ctx[c].allocd,
         x.slotBuf = ctx[c].slotBuf, x.owner = ctx[c].owner,
         \A j \in Slots \ {k} : x.pixels[j] = ctx[c].pixels[j],
         x.current = ctx[c].current,
         Becomes(c, x, surf, None), live' = live
  PROVE  OneContextSteps
<1>1. /\ c \in Contexts /\ ctx[c] \in ContextRec
      /\ Excluded(c, ctx[c], surf, k) /\ AccountOK(c, ctx[c], surf, k)
  BY ContextFacts
<1>2. Excluded(c, x, surf, None)
  BY BecomesExcluded
<1>3. AccountOK(c, x, surf, None)
  <2>1. Accounted(c, x, surf, None)
    BY <1>1 DEF AccountOK, Accounted
  <2>2. \A s \in Surfaces : InPool(surf, s, c) => surf[s].index \in Slots \ {k}
    BY <1>1 DEF Excluded, InPool, SInv, IInv, TypeOK, SurfaceRec
  <2>3. HeldAreRefs(c, x, surf)
    BY <1>1, <2>2 DEF AccountOK, HeldAreRefs
  <2>4. OwnersHold(c, x, surf) /\ TargetEmpty(x, surf)
    BY <1>1 DEF AccountOK, OwnersHold, TargetEmpty
  <2>5. QED  BY <2>1, <2>3, <2>4 DEF AccountOK
<1>4. ASSUME NEW j \in Slots
      PROVE  LET old == Claim(c, ctx[c], surf, k, j)
                 new == Claim(c, x, surf, None, j)
             IN  new = old \/ Pool!Handover(old, new)
  <2>1. CASE j = k
    BY <1>1, <1>2, <2>1, ClaimCases DEF Pool!Handover
  <2>2. CASE j # k
    <3>1. j # None
      BY SlotFacts
    <3>2. QED  BY <2>2, <3>1 DEF Claim
  <2>3. QED  BY <2>1, <2>2
<1>5. Moves(c, x, surf, None)
  BY <1>4, MovesIf
<1>6. LocalTo(surf, c)
  BY TablesLocal DEF SInv
<1>7. QED  BY <1>1, <1>3, <1>5, <1>6 DEF OneContextSteps

LEMMA StepsSubmit == ASSUME SteadyPools, SInv, IInv', Submit PROVE OneContextSteps
<1> DEFINE c == call.ctx
           o == call.out
           x == ctx[c]
<1>1. /\ IInv /\ c \in live /\ c \in Contexts /\ x \in ContextRec /\ call \in CallRec
      /\ call.at = "submit" /\ o \in OutSlots /\ FlightSlot(c) = None
      /\ surf \in SurfTable /\ x.free \subseteq Slots /\ ~ExpbufWanted
  BY CallFacts DEF Submit, SInv, FlightSlot, IInv, TypeOK, SurfTable, ContextRec,
                   SteadyPools, GbmMode
<1>2. \/ \E y \in ContextRec : SamePool(y, x) /\ Fail(c, y, surf)
      \/ \E k \in x.free : Goto(c, [x EXCEPT !.free = @ \ {k}], surf,
                                [call EXCEPT !.at = "wait", !.cap = k])
  <2>2. \A d \in x.done : d \in OutSlots
    BY <1>1 DEF ContextRec
  <2>3. CASE Fail(c, OutPoolPush(x, o), surf)
    <3>1. OutPoolPush(x, o) \in ContextRec /\ SamePool(OutPoolPush(x, o), x)
      BY <1>1 DEF OutPoolPush, SamePool, ContextRec
    <3>2. QED  BY <2>3, <3>1
  <2>4. ASSUME NEW k \in x.free, NEW y, y = [x EXCEPT !.free = @ \ {k}],
               \/ Fail(c, CapPoolPush(OutPoolPush(y, o), k), surf)
               \/ Fail(c, CapPoolPush(y, k), surf)
               \/ \E d \in CapPoolPush(y, k).done :
                    Fail(c, OutPoolPush([CapPoolPush(y, k) EXCEPT !.done = @ \ {d}], d), surf)
        PROVE  \E z \in ContextRec : SamePool(z, x) /\ Fail(c, z, surf)
    <3>1. /\ y \in ContextRec /\ y.free = x.free \ {k} /\ y.allocd = x.allocd
          /\ y.slotBuf = x.slotBuf /\ y.owner = x.owner /\ y.pixels = x.pixels
          /\ y.current = x.current /\ y.done = x.done /\ k \in Slots
      BY <1>1, <2>4 DEF ContextRec
    <3>2. /\ CapPoolPush(OutPoolPush(y, o), k) \in ContextRec
          /\ SamePool(CapPoolPush(OutPoolPush(y, o), k), x)
      <4> DEFINE v == OutPoolPush(y, o)
      <4>1. /\ v \in ContextRec /\ v.free = y.free /\ v.allocd = x.allocd
            /\ v.slotBuf = x.slotBuf /\ v.owner = x.owner /\ v.pixels = x.pixels
            /\ v.current = x.current
        BY <1>1, <3>1 DEF OutPoolPush, ContextRec
      <4> HIDE DEF v
      <4>2. CapPoolPush(v, k) \in ContextRec /\ SamePool(CapPoolPush(v, k), x)
        BY <3>1, <4>1 DEF CapPoolPush, SamePool, ContextRec
      <4>3. QED  BY <4>2 DEF v
    <3> DEFINE w == CapPoolPush(y, k)
    <3>3. w \in ContextRec /\ SamePool(w, x) /\ w.done = x.done /\ w.current = x.current
      BY <3>1 DEF CapPoolPush, SamePool, ContextRec
    <3> HIDE DEF w
    <3>4. ASSUME NEW d \in w.done
          PROVE  LET z == OutPoolPush([w EXCEPT !.done = @ \ {d}], d)
                 IN  z \in ContextRec /\ SamePool(z, x)
      BY <2>2, <3>3 DEF OutPoolPush, SamePool, ContextRec
    <3>5. QED  BY <2>4, <3>2, <3>3, <3>4 DEF w
  <2>5. ASSUME NEW k \in x.free, NEW y, y = [x EXCEPT !.free = @ \ {k}],
               Goto(c, y, surf, [call EXCEPT !.at = "wait", !.cap = k])
        PROVE  Goto(c, [x EXCEPT !.free = @ \ {k}], surf,
                    [call EXCEPT !.at = "wait", !.cap = k])
    BY <2>5
  <2>6. QED  BY <1>1, <2>3, <2>4, <2>5, SubmitCases
<1>3. ASSUME NEW y \in ContextRec, SamePool(y, x), Fail(c, y, surf) PROVE OneContextSteps
  BY <1>1, <1>3, FailBecomes, KeepStep
<1>4. ASSUME NEW k \in x.free, Goto(c, [x EXCEPT !.free = @ \ {k}], surf,
                                    [call EXCEPT !.at = "wait", !.cap = k])
      PROVE  OneContextSteps
  <2> DEFINE y == [x EXCEPT !.free = @ \ {k}]
             next == [call EXCEPT !.at = "wait", !.cap = k]
  <2>1. /\ next.ctx = c /\ next.at = "wait" /\ next.cap = k /\ ~next.bad
    BY <1>1 DEF CallRec, IInv, SlotInv, CallOK
  <2>2. /\ y \in ContextRec /\ y.free = x.free \ {k} /\ y.allocd = x.allocd
        /\ y.slotBuf = x.slotBuf /\ y.owner = x.owner /\ y.pixels = x.pixels
        /\ y.current = x.current
    BY <1>1 DEF ContextRec
  <2>3. Goto(c, y, surf, next)
    BY <1>4
  <2> HIDE DEF y, next
  <2>4. Becomes(c, y, surf, k) /\ live' = live
    BY <1>1, <2>1, <2>3, GotoBecomes DEF Goto
  <2>5. QED  BY <1>1, <2>2, <2>4, TakeStep
<1>5. QED  BY <1>2, <1>3, <1>4

(* The decoder fills its slot, which no surface holds.                     *)
LEMMA FillStep ==
  ASSUME SInv, NEW c \in live, NEW x \in ContextRec, NEW k \in Slots,
         FlightSlot(c) = k,
         x.free = ctx[c].free, x.allocd = ctx[c].allocd,
         x.slotBuf = ctx[c].slotBuf, x.owner = ctx[c].owner,
         x.current = ctx[c].current, x.current # NoSurface,
         x.pixels = [j \in Slots |-> IF j = k THEN x.current
                       ELSE IF ctx[c].pixels[j] = x.current THEN NoSurface
                       ELSE ctx[c].pixels[j]],
         Becomes(c, x, surf, k), live' = live
  PROVE  OneContextSteps
<1>1. /\ c \in Contexts /\ ctx[c] \in ContextRec
      /\ Excluded(c, ctx[c], surf, k) /\ AccountOK(c, ctx[c], surf, k)
  BY ContextFacts
<1>2. AccountOK(c, x, surf, k)
  <2>1. Accounted(c, x, surf, k)
    BY <1>1 DEF AccountOK, Accounted
  <2>2. \A s \in Surfaces : InPool(surf, s, c) => surf[s].index \in Slots \ {k} /\ s # x.current
    BY <1>1 DEF Excluded, InPool, AccountOK, TargetEmpty, SInv, IInv, TypeOK, SurfaceRec
  <2>3. HeldAreRefs(c, x, surf)
    BY <1>1, <2>2 DEF AccountOK, HeldAreRefs
  <2>4. OwnersHold(c, x, surf) /\ TargetEmpty(x, surf)
    BY <1>1 DEF AccountOK, OwnersHold, TargetEmpty
  <2>5. QED  BY <2>1, <2>3, <2>4 DEF AccountOK
<1>3. Moves(c, x, surf, k)
  <2>1. \A j \in Slots : Claim(c, x, surf, k, j) = Claim(c, ctx[c], surf, k, j)
    BY DEF Claim
  <2>2. QED  BY <2>1, MovesIf
<1>4. LocalTo(surf, c)
  BY TablesLocal DEF SInv
<1>5. QED  BY <1>1, <1>2, <1>3, <1>4 DEF OneContextSteps

(* A reset gives everything back that no render target holds, in a context *)
(* without a reference model.                                              *)
LEMMA ResetStep ==
  ASSUME SteadyPools, SInv, IInv', NEW c \in live, Codec[c] # "AV1",
         NEW x \in ContextRec, NEW k \in Slots, FlightSlot(c) = k,
         x.free = {j \in 0 .. ctx[c].allocd - 1 :
                     \A s \in ctx[c].targets : surf[s].alive => surf[s].index # j},
         x.allocd = ctx[c].allocd, x.slotBuf = [r \in Refs |-> None],
         x.current = ctx[c].current,
         Becomes(c, x, surf, None), live' = live
  PROVE  OneContextSteps
<1>1. /\ c \in Contexts /\ ctx[c] \in ContextRec /\ Decoder(c)
      /\ PoolOK(c, ctx[c], surf, k)
      /\ Excluded(c, ctx[c], surf, k) /\ AccountOK(c, ctx[c], surf, k)
  BY ContextFacts DEF SteadyPools
<1>2. Excluded(c, x, surf, None)
  BY BecomesExcluded
<1>3. /\ k < ctx[c].allocd /\ ctx[c].allocd <= NumCap
      /\ \A j \in ctx[c].free : j < ctx[c].allocd
      /\ \A r \in Refs : ctx[c].slotBuf[r] = None
  <2>1. BoundsOK(c, ctx[c])
    BY DEF SInv, RInv, RecordsOK, RecordOK
  <2>2. ctx[c].free \subseteq Slots
    BY <1>1 DEF ContextRec
  <2>3. QED  BY <1>1, <2>1, <2>2, SlotFacts DEF BoundsOK, PoolOK, FlightOK, RefsOK
<1>4. ASSUME NEW j \in Slots
      PROVE  /\ \A s \in Surfaces : InPool(surf, s, c) /\ surf[s].index = j => j < ctx[c].allocd
             /\ Holders(surf, c, j) = {} => (j \in x.free <=> j < ctx[c].allocd)
  <2>1. \A s \in Surfaces :
          InPool(surf, s, c) => s \in ctx[c].targets /\ surf[s].index < ctx[c].allocd
    BY <1>1 DEF PoolOK, HoldersOK
  <2>2. ASSUME NEW s \in ctx[c].targets, surf[s].alive, surf[s].index = j
        PROVE  s \in Holders(surf, c, j)
    <3>1. s \in Surfaces /\ surf[s].index # None
      BY <1>1, <2>2, SlotFacts DEF ContextRec
    <3>2. surf[s].from \in live /\ surf[s].from \in Contexts
      BY <3>1 DEF SInv, IInv, TypeOK, SlotInv, SurfacesOK
    <3>3. InPool(surf, s, surf[s].from)
      BY <3>1 DEF InPool
    <3>4. s \in ctx[surf[s].from].targets /\ Decoder(surf[s].from)
      BY <3>1, <3>2, <3>3, ContextFacts DEF PoolOK, HoldersOK, SteadyPools
    <3>5. surf[s].from = c
      BY <1>1, <2>2, <3>2, <3>4 DEF SInv, IInv, SlotInv, TargetsDisjoint
    <3>6. QED  BY <2>2, <3>1, <3>3, <3>5 DEF Holders
  <2>3. j \in Nat /\ ctx[c].allocd \in Nat
    BY <1>1, SlotFacts DEF Slots, ContextRec
  <2>4. Holders(surf, c, j) = {} => (j \in x.free <=> j < ctx[c].allocd)
    BY <2>2, <2>3
  <2>5. QED  BY <2>1, <2>4
<1>5. AccountOK(c, x, surf, None)
  <2>1. Accounted(c, x, surf, None)
    BY <1>4 DEF Accounted, Holders
  <2>2. HeldAreRefs(c, x, surf) /\ OwnersHold(c, x, surf)
    BY DEF HeldAreRefs, OwnersHold
  <2>3. TargetEmpty(x, surf)
    BY <1>1 DEF AccountOK, TargetEmpty
  <2>4. QED  BY <2>1, <2>2, <2>3 DEF AccountOK
<1>6. ASSUME NEW j \in Slots
      PROVE  LET old == Claim(c, ctx[c], surf, k, j)
                 new == Claim(c, x, surf, None, j)
             IN  new = old \/ Pool!Handover(old, new)
  <2>1. CASE Holders(surf, c, j) # {}
    <3>1. PICK s \in Surfaces : InPool(surf, s, c) /\ surf[s].index = j
      BY <2>1 DEF Holders
    <3>2. /\ Claim(c, ctx[c], surf, k, j) = {s}
          /\ Claim(c, x, surf, None, j) = {s}
      BY <1>1, <1>2, <3>1, ClaimCases
    <3>3. QED  BY <3>2
  <2>2. CASE Holders(surf, c, j) = {} /\ j < ctx[c].allocd
    <3>1. Claim(c, x, surf, None, j) = Pool!Free
      BY <1>2, <1>4, <2>2, ClaimCases
    <3>2. j < NumCap
      BY <1>1, <1>3, <2>2, SlotFacts DEF ContextRec, Slots
    <3>3. j \in ctx[c].free \/ j = k
      BY <1>1, <1>3, <2>2, <3>2, SlotFacts DEF AccountOK, Accounted, Holders
    <3>4. Claim(c, ctx[c], surf, k, j) \in {Pool!Free, Pool!Flight}
      BY <1>1, <3>3, ClaimCases
    <3>5. QED  BY <3>1, <3>4 DEF Pool!Handover
  <2>3. CASE Holders(surf, c, j) = {} /\ ~(j < ctx[c].allocd)
    <3>1. j \notin ctx[c].free /\ j # k /\ j \notin x.free /\ j # None
      BY <1>3, <1>4, <2>3, SlotFacts
    <3>2. QED  BY <1>3, <2>3, <3>1 DEF Claim
  <2>4. QED  BY <2>1, <2>2, <2>3
<1>7. Moves(c, x, surf, None)
  BY <1>6, MovesIf
<1>8. LocalTo(surf, c)
  BY TablesLocal DEF SInv
<1>9. QED  BY <1>1, <1>5, <1>7, <1>8 DEF OneContextSteps

LEMMA ResetFields ==
  ASSUME NEW x \in ContextRec
  PROVE  LET y == DecodeReset(x)
         IN  /\ y.free = {j \in 0 .. x.allocd - 1 :
                            \A s \in x.targets : surf[s].alive => surf[s].index # j}
             /\ y.allocd = x.allocd /\ y.slotBuf = [r \in Refs |-> None]
             /\ y.current = x.current
<1> DEFINE v == [DpbModelReset(StreamOff(x)) EXCEPT !.request = "none"]
<1>1. /\ v \in ContextRec
      /\ v.allocd = x.allocd /\ v.slotBuf = [r \in Refs |-> None]
      /\ v.current = x.current /\ v.targets = x.targets
  BY DEF DpbModelReset, StreamOff, ContextRec
<1> HIDE DEF v
<1>2. LET y == RebuildFreePools(v)
      IN  /\ y.free = {j \in 0 .. v.allocd - 1 :
                         \A s \in v.targets : surf[s].alive => surf[s].index # j}
          /\ y.allocd = v.allocd /\ y.slotBuf = v.slotBuf /\ y.current = v.current
  BY <1>1 DEF RebuildFreePools, ContextRec
<1>3. DecodeReset(x) = RebuildFreePools(v)
  BY DEF DecodeReset, v
<1>4. QED  BY <1>1, <1>2, <1>3

LEMMA DequeuedFields ==
  ASSUME NEW x \in ContextRec, NEW o, NEW z \in Dequeued(x, o)
  PROVE  /\ z.free = x.free /\ z.allocd = x.allocd /\ z.slotBuf = x.slotBuf
         /\ z.owner = x.owner /\ z.pixels = x.pixels /\ z.current = x.current
<1>1. (\E F, D : z = [x EXCEPT !.freeOut = F, !.done = D]) \/ \E D : z = [x EXCEPT !.done = D]
  BY DEF Dequeued
<1>2. QED  BY <1>1 DEF ContextRec

LEMMA StepsWait ==
  ASSUME SteadyPools, SInv, IInv', Wait
  PROVE  OneContextSteps /\ PixelsOK'
<1> DEFINE c == call.ctx
           k == call.cap
           o == call.out
           x == ctx[c]
           R == call.refresh
<1>1. /\ IInv /\ c \in live /\ c \in Contexts /\ x \in ContextRec /\ call \in CallRec
      /\ call.at = "wait" /\ ~call.bad /\ o \in OutSlots /\ k \in Slots
      /\ FlightSlot(c) = k /\ surf \in SurfTable
      /\ x.current \in Surfaces /\ x.current # NoSurface
  <2>1. call.at = "wait" /\ ~call.bad /\ IInv
    BY DEF Wait, SInv, IInv, SlotInv, CallOK
  <2>2. FlightSlot(c) = k
    BY <2>1 DEF FlightSlot
  <2>3. QED  BY <2>1, <2>2, CallFacts, ConstantAssumption DEF IInv, TypeOK, SurfTable
<1>2. ASSUME "timeout" \in Events, Fail(c, DecodeReset(Spoiled(x, k)), surf)
      PROVE  OneContextSteps /\ PixelsOK'
  <2> DEFINE u == Spoiled(x, k)
             y == DecodeReset(u)
  <2>1. Codec[c] # "AV1"
    BY <1>1, <1>2 DEF SteadyPools, Av1Quiet
  <2>2. u \in ContextRec /\ y \in ContextRec
    BY <1>1, ResetTypes
  <2>3. u.allocd = x.allocd /\ u.targets = x.targets /\ u.current = x.current
    BY <1>1 DEF Spoiled, ContextRec
  <2>4. Fail(c, y, surf)
    BY <1>2
  <2> HIDE DEF u
  <2>5. /\ y.free = {j \in 0 .. u.allocd - 1 :
                       \A s \in u.targets : surf[s].alive => surf[s].index # j}
        /\ y.allocd = u.allocd /\ y.slotBuf = [r \in Refs |-> None]
        /\ y.current = u.current
    BY <2>2, ResetFields
  <2> HIDE DEF y
  <2>6. Becomes(c, y, surf, None) /\ live' = live /\ call'.at = "idle"
    BY <1>1, <2>2, <2>4, FailBecomes DEF Fail, Finish, Idle
  <2>7. OneContextSteps
    BY <1>1, <2>1, <2>2, <2>3, <2>5, <2>6, ResetStep
  <2>8. QED  BY <2>6, <2>7 DEF PixelsOK
<1>3. ASSUME NEW bad \in BOOLEAN, NEW req \in {"ready", "none", "stuck"},
             NEW z \in Dequeued(IF bad THEN CapPoolPush(Spoiled(x, k), k)
                                ELSE Decoded(x, k, R), o),
             Goto(c, [z EXCEPT !.request = req], surf,
                  [call EXCEPT !.at = "attach", !.bad = bad])
      PROVE  OneContextSteps /\ PixelsOK'
  <2> DEFINE y == IF bad THEN CapPoolPush(Spoiled(x, k), k) ELSE Decoded(x, k, R)
             w == [z EXCEPT !.request = req]
             next == [call EXCEPT !.at = "attach", !.bad = bad]
  <2>1. /\ next.ctx = c /\ next.at = "attach" /\ next.bad = bad /\ next.cap = k
    BY <1>1 DEF CallRec
  <2>2. Goto(c, w, surf, next)
    BY <1>3
  <2>3. y \in ContextRec /\ z \in Dequeued(y, o)
    <3>1. R \in SUBSET Refs
      BY <1>1 DEF CallRec
    <3>2. Decoded(x, k, R) \in ContextRec /\ Spoiled(x, k) \in ContextRec
      BY <1>1, <3>1, ResetTypes
    <3>3. CapPoolPush(Spoiled(x, k), k) \in ContextRec
      BY <1>1, <3>2, PushTypes
    <3>4. QED  BY <1>3, <3>2, <3>3
  <2>4. /\ y.allocd = x.allocd /\ y.slotBuf = x.slotBuf /\ y.owner = x.owner
        /\ y.current = x.current
        /\ bad => /\ y.free = x.free \cup {k}
                  /\ \A j \in Slots \ {k} : y.pixels[j] = x.pixels[j]
        /\ ~bad => /\ y.free = x.free
                   /\ y.pixels = [j \in Slots |-> IF j = k THEN x.current
                                    ELSE IF x.pixels[j] = x.current THEN NoSurface
                                    ELSE x.pixels[j]]
    <3>1. CASE bad
      BY <1>1, <3>1 DEF CapPoolPush, Spoiled, ContextRec
    <3>2. CASE ~bad
      BY <1>1, <3>2 DEF Decoded, ContextRec
    <3>3. QED  BY <3>1, <3>2
  <2> HIDE DEF y, next
  <2>5. z \in ContextRec
    BY <1>1, <2>3, ResetTypes
  <2>6. /\ w \in ContextRec /\ w.free = y.free /\ w.allocd = y.allocd
        /\ w.slotBuf = y.slotBuf /\ w.owner = y.owner /\ w.pixels = y.pixels
        /\ w.current = y.current
    <3>1. /\ z.free = y.free /\ z.allocd = y.allocd
          /\ z.slotBuf = y.slotBuf /\ z.owner = y.owner /\ z.pixels = y.pixels
          /\ z.current = y.current
      BY <2>3, DequeuedFields
    <3>2. QED  BY <2>5, <3>1 DEF ContextRec
  <2> HIDE DEF w
  <2>7. /\ Becomes(c, w, surf, IF bad THEN None ELSE k)
        /\ live' = live /\ call' = next /\ ctx'[c] = w
    <3>1. ctx' = [ctx EXCEPT ![c] = w] /\ live' = live /\ call' = next
      BY <2>2 DEF Goto
    <3>2. ctx'[c] = w
      BY <1>1, <3>1 DEF IInv, TypeOK
    <3>3. QED  BY <1>1, <2>1, <2>2, <3>1, <3>2, GotoBecomes
  <2>8. OneContextSteps
    <3>1. CASE bad
      BY <1>1, <2>4, <2>6, <2>7, <3>1, BackStep
    <3>2. CASE ~bad
      BY <1>1, <2>4, <2>6, <2>7, <3>2, FillStep
    <3>3. QED  BY <3>1, <3>2
  <2>9. PixelsOK'
    BY <1>1, <2>1, <2>4, <2>6, <2>7 DEF PixelsOK
  <2>10. QED  BY <2>8, <2>9
<1>4. QED  BY <1>1, <1>2, <1>3 DEF Wait

(* An exit leaves the context without a current surface.                   *)
LEMMA FinishClosed ==
  ASSUME IInv, NEW c \in live, NEW x \in ContextRec, NEW f \in SurfTable, NEW st, NEW ret,
         call.at = "idle" \/ call.ctx = c, Finish(c, x, f, st, ret)
  PROVE  Becomes(c, [x EXCEPT !.current = NoSurface], f, None) /\ live' = live
<1>1. Becomes(c, x, f, None) /\ live' = live
  BY FinishBecomes DEF Finish
<1>2. ctx'[c] = [x EXCEPT !.current = NoSurface]
  BY DEF Finish, IInv, TypeOK
<1>3. QED  BY <1>1, <1>2 DEF Becomes, SamePool

(* The current surface shows the slot: no reference model is in force.     *)
LEMMA ShowStep ==
  ASSUME SInv, IInv', NEW c \in live, Codec[c] # "AV1", NEW k \in Slots,
         FlightSlot(c) = k, NEW s \in Surfaces, s = ctx[c].current, s \in ctx[c].targets,
         s # NoSurface, NEW x \in ContextRec,
         x.free = ctx[c].free, x.allocd = ctx[c].allocd, x.slotBuf = ctx[c].slotBuf,
         x.current = NoSurface,
         NEW f, f[s].index = k, f[s].from = c,
         \A t \in Surfaces \ {s} : f[t] = surf[t],
         Becomes(c, x, f, None), live' = live
  PROVE  OneContextSteps
<1>1. /\ c \in Contexts /\ ctx[c] \in ContextRec
      /\ PoolOK(c, ctx[c], surf, k)
      /\ Excluded(c, ctx[c], surf, k) /\ AccountOK(c, ctx[c], surf, k)
  BY ContextFacts
<1>2. Excluded(c, x, f, None)
  BY BecomesExcluded
<1>3. surf[s].index = None /\ k # None /\ InPool(f, s, c)
  BY <1>1, SlotFacts DEF AccountOK, TargetEmpty, InPool
<1>4. \A j \in Slots \ {k} : Holders(f, c, j) = Holders(surf, c, j)
  BY <1>3, SlotFacts DEF Holders, InPool
<1>5. AccountOK(c, x, f, None)
  <2>1. Accounted(c, x, f, None)
    <3> SUFFICES ASSUME NEW j \in Slots, j < x.allocd, j < NumCap
                 PROVE  \/ j \in x.free
                        \/ \E t \in Surfaces : InPool(f, t, c) /\ f[t].index = j
                        \/ \E r \in Refs : x.slotBuf[r] = j
      BY DEF Accounted
    <3>1. CASE j = k
      BY <1>3, <3>1
    <3>2. CASE j # k
      BY <1>1, <1>4, <3>2 DEF AccountOK, Accounted, Holders
    <3>3. QED  BY <3>1, <3>2
  <2>2. \A r \in Refs : x.slotBuf[r] = None
    BY <1>1 DEF PoolOK, RefsOK
  <2>3. HeldAreRefs(c, x, f) /\ OwnersHold(c, x, f) /\ TargetEmpty(x, f)
    BY <2>2 DEF HeldAreRefs, OwnersHold, TargetEmpty
  <2>4. QED  BY <2>1, <2>3 DEF AccountOK
<1>6. ASSUME NEW j \in Slots
      PROVE  LET old == Claim(c, ctx[c], surf, k, j)
                 new == Claim(c, x, f, None, j)
             IN  new = old \/ Pool!Handover(old, new)
  <2>1. CASE j = k
    <3>1. Claim(c, ctx[c], surf, k, j) = Pool!Flight /\ Claim(c, x, f, None, j) = {s}
      BY <1>1, <1>2, <1>3, <2>1, ClaimCases
    <3>2. QED  BY <3>1 DEF Pool!Handover, Pool!Held
  <2>2. CASE j # k
    <3>1. j # None
      BY SlotFacts
    <3>2. QED  BY <1>4, <2>2, <3>1, ClaimKept
  <2>3. QED  BY <2>1, <2>2
<1>7. Moves(c, x, f, None)
  BY <1>6, MovesIf
<1>8. LocalTo(f, c)
  BY DEF LocalTo
<1>9. QED  BY <1>1, <1>5, <1>7, <1>8 DEF OneContextSteps

Released(w, k, R, f, h, x) ==
  /\ h = Unheld(f, {t \in Surfaces : \E j \in DOMAIN ReleaseUnrefd(w, k, R).loses :
                      ReleaseUnrefd(w, k, R).loses[j] = t /\ f[t].index = j})
  /\ x = [ReleaseUnrefd(w, k, R).x EXCEPT !.current = NoSurface]

(* av1_release_unrefd: the slots that fall out of the table go back, with  *)
(* the claims of the surfaces that held them.                              *)
LEMMA ReleaseStep ==
  ASSUME SInv, IInv', NEW c \in live, NEW k \in Slots, FlightSlot(c) = k,
         NEW w \in ContextRec, w = ctx[c],
         NEW s \in Surfaces, s = w.current, s \in w.targets, s # NoSurface,
         w.pixels[k] = s, NEW R \in SUBSET Refs,
         NEW f \in SurfTable, f[s].index = k, f[s].from = c, f[s].alive,
         \A t \in Surfaces \ {s} : f[t] = surf[t],
         NEW h, NEW x \in ContextRec, Becomes(c, x, h, None), live' = live
  PROVE  Released(w, k, R, f, h, x) => OneContextSteps
<1> DEFINE slotBuf == [r \in Refs |-> IF r \in R THEN k ELSE w.slotBuf[r]]
           old == IF R = {} THEN {k}
                  ELSE {w.slotBuf[r] : r \in R} \ ({None, k} \cup {slotBuf[r] : r \in Refs})
           owner == [w.owner EXCEPT ![k] = w.current]
<1>0. SUFFICES ASSUME
        h = Unheld(f, {t \in Surfaces : \E j \in DOMAIN ReleaseUnrefd(w, k, R).loses :
                         ReleaseUnrefd(w, k, R).loses[j] = t /\ f[t].index = j}),
        x = [ReleaseUnrefd(w, k, R).x EXCEPT !.current = NoSurface]
      PROVE OneContextSteps
  BY DEF Released
<1>1. /\ c \in Contexts /\ w \in ContextRec
      /\ PoolOK(c, w, surf, k)
      /\ Excluded(c, w, surf, k) /\ AccountOK(c, w, surf, k)
  BY ContextFacts
<1>2. Excluded(c, x, h, None)
  BY BecomesExcluded
<1>3. surf[s].index = None /\ k # None /\ InPool(f, s, c)
  BY <1>1, SlotFacts DEF AccountOK, TargetEmpty, InPool
<1>4. /\ x.slotBuf = slotBuf /\ x.free = w.free \cup old /\ x.allocd = w.allocd
      /\ x.owner = [j \in Slots |-> IF j \in old THEN NoSurface ELSE owner[j]]
      /\ x.pixels = w.pixels /\ x.current = NoSurface
  <2>1. LET y == ReleaseUnrefd(w, k, R).x
        IN  /\ y.slotBuf = slotBuf /\ y.free = w.free \cup old /\ y.allocd = w.allocd
            /\ y.owner = [j \in Slots |-> IF j \in old THEN NoSurface ELSE owner[j]]
            /\ y.pixels = w.pixels
    <3> DEFINE F == w.free \cup old
               O == [j \in Slots |-> IF j \in old THEN NoSurface ELSE owner[j]]
               y == [w EXCEPT !.slotBuf = slotBuf, !.free = F, !.owner = O]
    <3>1. ReleaseUnrefd(w, k, R).x = y
      BY DEF ReleaseUnrefd
    <3> HIDE DEF F, O, slotBuf
    <3>2. /\ y.slotBuf = slotBuf /\ y.free = F /\ y.allocd = w.allocd
          /\ y.owner = O /\ y.pixels = w.pixels
      BY DEF ContextRec
    <3>3. QED  BY <3>1, <3>2 DEF F, O
  <2>2. ReleaseUnrefd(w, k, R).x \in ContextRec
    BY <1>1, ReleaseTypes
  <2> DEFINE y == ReleaseUnrefd(w, k, R).x
  <2> HIDE DEF y
  <2>3. /\ [y EXCEPT !.current = NoSurface].slotBuf = y.slotBuf
        /\ [y EXCEPT !.current = NoSurface].free = y.free
        /\ [y EXCEPT !.current = NoSurface].allocd = y.allocd
        /\ [y EXCEPT !.current = NoSurface].owner = y.owner
        /\ [y EXCEPT !.current = NoSurface].pixels = y.pixels
        /\ [y EXCEPT !.current = NoSurface].current = NoSurface
    BY <2>2 DEF ContextRec, y
  <2>4. QED  BY <1>0, <2>1, <2>3 DEF y
<1>5. h = Unheld(f, {t \in Surfaces : \E j \in old : owner[j] = t /\ f[t].index = j})
  <2>1. ReleaseUnrefd(w, k, R).loses = [j \in old |-> owner[j]]
    BY DEF ReleaseUnrefd
  <2> HIDE DEF old, owner
  <2>2. QED  BY <1>0, <2>1
<1>6. /\ w.owner \in [Slots -> Surfaces \cup {NoSurface}]
      /\ w.slotBuf \in [Refs -> Slots \cup {None}]
      /\ old \subseteq Slots
      /\ owner[k] = s /\ \A j \in Slots \ {k} : owner[j] = w.owner[j]
  BY <1>1 DEF ContextRec
<1>7. \A j \in old : j = k \/ \E r \in Refs : w.slotBuf[r] = j
  OBVIOUS
<1>8. \A r \in Refs : w.slotBuf[r] # None /\ w.slotBuf[r] \notin old =>
        \E q \in Refs : slotBuf[q] = w.slotBuf[r]
  OBVIOUS
<1>9. \A r \in Refs : slotBuf[r] # k => r \notin R /\ w.slotBuf[r] = slotBuf[r]
  OBVIOUS
<1>10. k \in old <=> R = {}
  OBVIOUS
<1>11. R # {} => \E r \in Refs : slotBuf[r] = k
  OBVIOUS
<1>12. \A r \in Refs : slotBuf[r] # None /\ R # {} => slotBuf[r] \notin old
  OBVIOUS
<1> HIDE DEF slotBuf, old, owner
<1>13. \A t \in Surfaces \ {s} : f[t].index # k \/ f[t].from # c
  BY <1>1, <1>3 DEF Excluded, InPool
<1>14. \A t \in Surfaces : InPool(f, t, c) /\ f[t].index \in old => owner[f[t].index] = t
  <2> SUFFICES ASSUME NEW t \in Surfaces, InPool(f, t, c), f[t].index \in old
               PROVE  owner[f[t].index] = t
    OBVIOUS
  <2>1. CASE t = s
    BY <1>6, <2>1
  <2>2. CASE t # s
    <3>1. InPool(surf, t, c) /\ f[t].index = surf[t].index /\ f[t].index # k
      BY <1>13, <2>2 DEF InPool
    <3>2. PICK r \in Refs : w.slotBuf[r] = f[t].index
      BY <1>7, <3>1
    <3>3. w.slotBuf[r] # None
      BY <3>2 DEF InPool
    <3>4. w.owner[f[t].index] = t
      BY <1>1, <3>1, <3>2, <3>3 DEF PoolOK, RefsOK
    <3>5. QED  BY <1>6, <3>1, <3>4
  <2>3. QED  BY <2>1, <2>2
<1>15. \A t \in Surfaces : f[t].index # None => f[t].alive
  BY DEF SInv, IInv, SlotInv, SurfacesOK
<1>16. \A t \in Surfaces :
         \/ h[t] = f[t] /\ ~(\E j \in old : owner[j] = t /\ f[t].index = j)
         \/ h[t].index = None /\ (\E j \in old : owner[j] = t /\ f[t].index = j)
  <2>1. None \notin old
    BY <1>6, SlotFacts
  <2>2. \A t \in Surfaces : (\E j \in old : owner[j] = t /\ f[t].index = j) =>
                              f[t].alive /\ f[t].index # None
    BY <1>15, <2>1
  <2>3. \A t \in Surfaces : [f[t] EXCEPT !.index = None, !.from = NoContext].index = None
    BY DEF SurfTable, SurfaceRec
  <2> DEFINE lost == {t \in Surfaces : \E j \in old : owner[j] = t /\ f[t].index = j}
  <2>4. \A t \in Surfaces : t \in lost <=> \E j \in old : owner[j] = t /\ f[t].index = j
    OBVIOUS
  <2> HIDE DEF lost
  <2> SUFFICES ASSUME NEW t \in Surfaces
               PROVE  \/ h[t] = f[t] /\ t \notin lost
                      \/ h[t].index = None /\ t \in lost
    BY <2>4
  <2>5. CASE t \in lost
    <3>1. f[t].alive
      BY <2>2, <2>4, <2>5
    <3>2. h[t] = [f[t] EXCEPT !.index = None, !.from = NoContext]
      BY <1>5, <2>5, <3>1 DEF Unheld, lost
    <3>3. QED  BY <2>3, <2>5, <3>2
  <2>6. CASE t \notin lost
    <3>1. h[t] = f[t]
      BY <1>5, <2>6 DEF Unheld, lost
    <3>2. QED  BY <2>6, <3>1
  <2>7. QED  BY <2>5, <2>6
<1>17. \A t \in Surfaces : /\ InPool(h, t, c) <=> InPool(f, t, c) /\ f[t].index \notin old
                           /\ InPool(h, t, c) => h[t].index = f[t].index
  BY <1>14, <1>16 DEF InPool
<1>18. \A t \in Surfaces \ {s} : /\ InPool(f, t, c) <=> InPool(surf, t, c)
                                 /\ f[t].index = surf[t].index
  BY DEF InPool
<1>19. LocalTo(h, c)
  <2> SUFFICES ASSUME NEW t \in Surfaces
               PROVE  \/ /\ h[t].index = surf[t].index
                         /\ h[t].index = None \/ h[t].from = surf[t].from
                      \/ /\ t \in w.targets
                         /\ h[t].index = None \/ h[t].from = c
    BY DEF LocalTo
  <2>1. CASE t = s
    BY <1>16, <2>1
  <2>2. CASE t # s /\ h[t] = f[t]
    BY <2>2
  <2>3. ASSUME t # s, NEW j \in old, owner[j] = t, f[t].index = j PROVE t \in w.targets
    <3>1. j # k
      BY <1>6, <2>3
    <3>2. PICK r \in Refs : w.slotBuf[r] = j
      BY <1>7, <3>1
    <3>3. w.owner[j] = t /\ t # NoSurface /\ j # None
      BY <1>6, <2>3, <3>1, SlotFacts, ConstantAssumption
    <3>4. InPool(surf, t, c)
      BY <1>1, <3>2, <3>3 DEF AccountOK, OwnersHold
    <3>5. QED  BY <1>1, <3>4 DEF PoolOK, HoldersOK
  <2>4. QED  BY <1>16, <2>1, <2>2, <2>3
<1>20. AccountOK(c, x, h, None)
  <2>1. Accounted(c, x, h, None)
    <3> SUFFICES ASSUME NEW j \in Slots, j < w.allocd, j < NumCap, j \notin w.free, j \notin old
                 PROVE  \/ \E t \in Surfaces : InPool(h, t, c) /\ h[t].index = j
                        \/ \E r \in Refs : slotBuf[r] = j
      BY <1>4 DEF Accounted
    <3>1. CASE j = k
      BY <1>10, <1>11, <3>1
    <3>2. ASSUME NEW t \in Surfaces, InPool(surf, t, c), surf[t].index = j
          PROVE  InPool(h, t, c) /\ h[t].index = j
      BY <1>3, <1>17, <1>18, <3>2 DEF InPool
    <3>3. ASSUME NEW r \in Refs, w.slotBuf[r] = j PROVE \E q \in Refs : slotBuf[q] = j
      BY <1>8, <3>3, SlotFacts
    <3>4. QED  BY <1>1, <3>1, <3>2, <3>3 DEF AccountOK, Accounted
  <2>2. HeldAreRefs(c, x, h)
    <3> SUFFICES ASSUME Codec[c] = "AV1", NEW t \in Surfaces, InPool(h, t, c)
                 PROVE  /\ \E r \in Refs : slotBuf[r] = h[t].index
                        /\ w.pixels[h[t].index] = t
      BY <1>4 DEF HeldAreRefs
    <3>1. InPool(f, t, c) /\ h[t].index = f[t].index /\ f[t].index \notin old /\ f[t].index # None
      BY <1>17 DEF InPool
    <3>2. CASE t = s
      BY <1>10, <1>11, <3>1, <3>2
    <3>3. CASE t # s
      <4>1. InPool(surf, t, c) /\ f[t].index = surf[t].index
        BY <1>18, <3>1, <3>3
      <4>2. (\E r \in Refs : w.slotBuf[r] = f[t].index) /\ w.pixels[f[t].index] = t
        BY <1>1, <4>1 DEF AccountOK, HeldAreRefs
      <4>3. QED  BY <1>8, <3>1, <4>2
    <3>4. QED  BY <3>2, <3>3
  <2>3. OwnersHold(c, x, h)
    <3> SUFFICES ASSUME NEW r \in Refs, slotBuf[r] # None, x.owner[slotBuf[r]] # NoSurface
                 PROVE  /\ InPool(h, x.owner[slotBuf[r]], c)
                        /\ h[x.owner[slotBuf[r]]].index = slotBuf[r]
      BY <1>4 DEF OwnersHold
    <3> DEFINE j == slotBuf[r]
               t == x.owner[j]
    <3>1. j \in Slots
      BY <1>4 DEF ContextRec
    <3>2. j \notin old /\ t = owner[j]
      BY <1>4, <3>1
    <3>3. CASE j = k
      BY <1>3, <1>6, <1>17, <3>2, <3>3
    <3>4. CASE j # k
      <4>1. w.slotBuf[r] = j /\ w.owner[j] = t
        BY <1>6, <1>9, <3>1, <3>2, <3>4
      <4>2. InPool(surf, t, c) /\ surf[t].index = j /\ t \in Surfaces
        BY <1>1, <1>6, <3>1, <4>1 DEF AccountOK, OwnersHold
      <4>3. t # s
        BY <1>3, <4>2 DEF InPool
      <4>4. QED  BY <1>17, <1>18, <3>2, <4>2, <4>3
    <3>5. QED  BY <3>3, <3>4
  <2>4. TargetEmpty(x, h)
    BY <1>4 DEF TargetEmpty
  <2>5. QED  BY <2>1, <2>2, <2>3, <2>4 DEF AccountOK
<1>21. ASSUME NEW j \in Slots
       PROVE  LET before == Claim(c, w, surf, k, j)
                  after == Claim(c, x, h, None, j)
              IN  after = before \/ Pool!Handover(before, after)
  <2>1. CASE j \in old
    <3>1. Claim(c, x, h, None, j) = Pool!Free
      BY <1>2, <1>4, <2>1, ClaimCases
    <3>2. CASE j = k
      <4>1. Claim(c, w, surf, k, j) = Pool!Flight
        BY <1>1, <3>2, ClaimCases
      <4>2. QED  BY <3>1, <4>1 DEF Pool!Handover
    <3>3. CASE j # k
      <4>1. \E r \in Refs : w.slotBuf[r] = j
        BY <1>7, <2>1, <3>3
      <4>2. CASE Holders(surf, c, j) = {}
        <5>1. Claim(c, w, surf, k, j) = Pool!Kept
          BY <1>1, <4>1, <4>2, ClaimCases
        <5>2. QED  BY <3>1, <5>1 DEF Pool!Handover
      <4>3. CASE Holders(surf, c, j) # {}
        <5>1. PICK t \in Surfaces : InPool(surf, t, c) /\ surf[t].index = j
          BY <4>3 DEF Holders
        <5>2. Claim(c, w, surf, k, j) = {t}
          BY <1>1, <5>1, ClaimCases
        <5>3. QED  BY <3>1, <5>2 DEF Pool!Handover, Pool!Held
      <4>4. QED  BY <4>2, <4>3
    <3>4. QED  BY <3>2, <3>3
  <2>2. CASE j \notin old /\ j = k
    <3>1. InPool(h, s, c) /\ h[s].index = j
      BY <1>3, <1>17, <2>2
    <3>2. Claim(c, w, surf, k, j) = Pool!Flight /\ Claim(c, x, h, None, j) = {s}
      BY <1>1, <1>2, <2>2, <3>1, ClaimCases
    <3>3. QED  BY <3>2 DEF Pool!Handover, Pool!Held
  <2>3. CASE j \notin old /\ j # k
    <3>1. j # None
      BY SlotFacts
    <3>2. Holders(h, c, j) = Holders(surf, c, j)
      <4>1. ASSUME NEW t \in Surfaces
            PROVE  (InPool(h, t, c) /\ h[t].index = j) <=> (InPool(surf, t, c) /\ surf[t].index = j)
        <5>1. CASE t = s
          BY <1>3, <1>17, <2>3, <5>1 DEF InPool
        <5>2. CASE t # s
          BY <1>17, <1>18, <2>3, <5>2
        <5>3. QED  BY <5>1, <5>2
      <4>2. QED  BY <4>1 DEF Holders
    <3>3. (\E r \in Refs : x.slotBuf[r] = j) <=> (\E r \in Refs : w.slotBuf[r] = j)
      BY <1>4, <1>8, <1>9, <2>3, <3>1
    <3>4. j \in x.free <=> j \in w.free
      BY <1>4, <2>3
    <3>5. QED  BY <2>3, <3>1, <3>2, <3>3, <3>4, ClaimKept
  <2>4. QED  BY <2>1, <2>2, <2>3
<1>22. Moves(c, x, h, None)
  BY <1>21, MovesIf
<1>23. QED  BY <1>1, <1>19, <1>20, <1>22 DEF OneContextSteps

LEMMA StepsAttach ==
  ASSUME SteadyPools, SInv, IInv', Attach
  PROVE  OneContextSteps /\ PixelsOK'
<1> DEFINE c == call.ctx
           k == call.cap
           x == ctx[c]
           R == call.refresh
           s == x.current
           f == PullCapture(s, c, k)
           rel == ReleaseUnrefd(x, k, R)
           h == Unheld(f, {t \in Surfaces : \E j \in DOMAIN rel.loses :
                             rel.loses[j] = t /\ f[t].index = j})
           Closed(y) == [y EXCEPT !.current = NoSurface]
<1>1. /\ IInv /\ c \in live /\ c \in Contexts /\ x \in ContextRec /\ call \in CallRec
      /\ call.at = "attach" /\ k \in Slots /\ R \in SUBSET Refs
      /\ surf \in SurfTable /\ s \in Surfaces /\ s \in x.targets /\ s # NoSurface
      /\ surf[s].alive
      /\ FlightSlot(c) = IF call.bad THEN None ELSE k
  <2>1. call.at = "attach" /\ FlightSlot(c) = IF call.bad THEN None ELSE k
    BY DEF Attach, FlightSlot
  <2>2. QED  BY <2>1, CallFacts, ConstantAssumption DEF SInv, IInv, TypeOK, CallRec, SurfTable
<1>2. \/ call.bad /\ (Fail(c, x, surf) \/ Succeed(c, x, surf))
      \/ ~call.bad /\ Succeed(c, CapPoolPush(x, k), surf)
      \/ ~call.bad /\ Av1ModelActive(c) /\ Succeed(c, rel.x, h)
      \/ ~call.bad /\ ~Av1ModelActive(c) /\ Succeed(c, x, f)
  BY DEF Attach
<1>3. PixelsOK'
  BY <1>2 DEF Succeed, Fail, Finish, Idle, PixelsOK
<1>4. /\ f \in SurfTable /\ f[s].index = k /\ f[s].from = c /\ f[s].alive
      /\ \A t \in Surfaces \ {s} : f[t] = surf[t]
  BY <1>1, PulledSlot
<1>5. \A y \in ContextRec : /\ Closed(y) \in ContextRec
                            /\ Closed(y).free = y.free /\ Closed(y).allocd = y.allocd
                            /\ Closed(y).slotBuf = y.slotBuf
                            /\ Closed(y).current = NoSurface
  BY DEF ContextRec
<1>6. h \in SurfTable
  BY <1>4, UnheldType
<1>7. CASE call.bad /\ (Fail(c, x, surf) \/ Succeed(c, x, surf))
  <2>1. Becomes(c, x, surf, None)
    BY <1>1, <1>7, FailBecomes, FinishBecomes DEF Succeed
  <2>2. SamePool(x, ctx[c])
    BY DEF SamePool
  <2>3. OneContextSteps
    BY <1>1, <1>7, <2>1, <2>2, KeepStep
  <2>4. QED  BY <1>3, <2>3
<1>8. CASE ~call.bad /\ Succeed(c, CapPoolPush(x, k), surf)
  <2> DEFINE y == CapPoolPush(x, k)
  <2>1. /\ y \in ContextRec /\ y.free = x.free \cup {k} /\ y.allocd = x.allocd
        /\ y.slotBuf = x.slotBuf /\ y.owner = x.owner /\ y.pixels = x.pixels
        /\ y.current = x.current
    BY <1>1 DEF CapPoolPush, ContextRec
  <2>2. Finish(c, y, surf, "Rendering", "success")
    BY <1>8 DEF Succeed
  <2> HIDE DEF y
  <2>3. Becomes(c, y, surf, None) /\ live' = live
    BY <1>1, <2>1, <2>2, FinishBecomes DEF Finish
  <2>4. OneContextSteps
    BY <1>1, <1>8, <2>1, <2>3, BackStep
  <2>5. QED  BY <1>3, <2>4
<1>9. CASE ~call.bad /\ Av1ModelActive(c) /\ Succeed(c, rel.x, h)
  <2>1. rel.x \in ContextRec
    BY <1>1, ReleaseTypes
  <2>2. Finish(c, rel.x, h, "Rendering", "success")
    BY <1>9 DEF Succeed
  <2>3. Becomes(c, Closed(rel.x), h, None) /\ live' = live
    <3> HIDE DEF rel, h
    <3>1. QED  BY <1>1, <1>6, <2>1, <2>2, FinishClosed
  <2>4. x.pixels[k] = s
    BY <1>1, <1>9 DEF SInv, PixelsOK
  <2>5. Closed(rel.x) \in ContextRec
    BY <1>5, <2>1
  <2> DEFINE z == Closed(rel.x)
  <2>6. Released(x, k, R, f, h, z)
    BY DEF Released
  <2>7. Becomes(c, z, h, None) /\ z \in ContextRec /\ FlightSlot(c) = k
    BY <1>1, <1>9, <2>3, <2>5
  <2>8. /\ c \in live /\ k \in Slots /\ x \in ContextRec /\ x = ctx[c]
        /\ s \in Surfaces /\ s = x.current /\ s \in x.targets /\ s # NoSurface
        /\ R \in SUBSET Refs /\ live' = live
    BY <1>1, <2>3
  <2> HIDE DEF c, k, x, R, s, f, h, z
  <2>10. OneContextSteps
    BY <1>4, <2>4, <2>6, <2>7, <2>8, ReleaseStep, Zenon
  <2>9. QED  BY <1>3, <2>10
<1>10. CASE ~call.bad /\ ~Av1ModelActive(c) /\ Succeed(c, x, f)
  <2>1. Codec[c] # "AV1"
    BY <1>1, <1>10 DEF SInv, RInv, PictureOK, SteadyPools, Av1ModelActive
  <2> DEFINE y == Closed(x)
  <2>2. Becomes(c, y, f, None) /\ live' = live
    BY <1>1, <1>4, <1>10, FinishClosed DEF Succeed
  <2>3. /\ y \in ContextRec /\ y.free = x.free /\ y.allocd = x.allocd
        /\ y.slotBuf = x.slotBuf /\ y.current = NoSurface
    BY <1>1, <1>5
  <2> HIDE DEF y, f
  <2>4. OneContextSteps
    BY <1>1, <1>4, <1>10, <2>1, <2>2, <2>3, ShowStep
  <2>5. QED  BY <1>3, <2>4
<1>11. QED  BY <1>2, <1>7, <1>8, <1>9, <1>10

-----------------------------------------------------------------------------
(* Between pictures.                                                       *)

LEMMA IdleBecomes ==
  ASSUME LockFree, call' = call, NEW c, live' \ {c} = live \ {c},
         NEW x, SamePool(ctx'[c], x), NEW f, SameSlots(surf', f),
         \A d \in live \ {c} : SamePool(ctx'[d], ctx[d])
  PROVE  Becomes(c, x, f, None)
<1>1. \A d : FlightSlot(d) = None /\ FlightSlot(d)' = None
  BY DEF LockFree, FlightSlot
<1>2. QED  BY <1>1 DEF Becomes

(* A step that moves no slot at all.                                       *)
LEMMA QuietStep ==
  ASSUME SInv, LockFree, call' = call, live' = live,
         \A c \in live : SamePool(ctx'[c], ctx[c]), SameSlots(surf', surf)
  PROVE  live = {} \/ OneContextSteps
<1> SUFFICES ASSUME NEW c \in live PROVE OneContextSteps
  OBVIOUS
<1>1. /\ ctx[c] \in ContextRec /\ FlightSlot(c) = None
      /\ SamePool(ctx[c], ctx[c])
  BY ContextFacts DEF FlightSlot, LockFree, SamePool
<1>2. Becomes(c, ctx[c], surf, None)
  BY IdleBecomes
<1>3. QED  BY <1>1, <1>2, KeepStep

(* A decoder's render targets, and no other surfaces, hold its slots; the  *)
(* surfaces that a new context may list hold none.                         *)
LEMMA ListableHoldNothing ==
  ASSUME SteadyPools, SInv, LockFree, NEW c \in Contexts, NEW T \in Listable(c)
  PROVE  SameSlots(Unheld(surf, T), surf)
<1> SUFFICES ASSUME NEW s \in Surfaces
             PROVE  /\ Unheld(surf, T)[s].index = surf[s].index
                    /\ surf[s].index = None \/ Unheld(surf, T)[s].from = surf[s].from
  BY DEF SameSlots
<1>1. \/ Unheld(surf, T)[s] = surf[s]
      \/ s \in T /\ Unheld(surf, T)[s].index = None
  BY UnheldSlots DEF Unheld, SInv
<1>2. ASSUME surf[s].index # None, s \in T PROVE FALSE
  <2> DEFINE d == surf[s].from
  <2>1. d \in live /\ InPool(surf, s, d)
    BY <1>2 DEF SInv, IInv, SlotInv, SurfacesOK, InPool
  <2>2. s \in ctx[d].targets
    BY <2>1 DEF SInv, IInv, SlotInv, PoolsOK, PoolOK, HoldersOK
  <2>3. d \in Contexts /\ Decoder(d) /\ Decoder(c)
    BY <2>1 DEF SteadyPools, SInv, IInv, TypeOK
  <2>4. QED  BY <1>2, <2>1, <2>2, <2>3 DEF Listable, SteadyPools, GbmMode, Decoder
<1>3. QED  BY <1>1, <1>2

LEMMA StepsSurfaces ==
  ASSUME SteadyPools, SInv,
         \/ \E s \in Surfaces : CreateSurface(s) \/ SyncSurface(s)
         \/ \E c \in Contexts : CreateContextFails(c)
  PROVE  /\ live' = live /\ call' = call
         /\ live = {} \/ OneContextSteps
<1>1. /\ surf \in SurfTable
      /\ \A s \in Surfaces : surf[s].index # None => surf[s].alive
      /\ \A c : SamePool(ctx[c], ctx[c])
  BY DEF SInv, IInv, TypeOK, SurfTable, SlotInv, SurfacesOK, SamePool
<1>2. ASSUME NEW s \in Surfaces, CreateSurface(s)
      PROVE  SameSlots(surf', surf) /\ LockFree /\ UNCHANGED <<ctx, live, call>>
  BY <1>1, <1>2 DEF CreateSurface, NewSurface, SameSlots, SurfTable
<1>3. ASSUME NEW s \in Surfaces, SyncSurface(s)
      PROVE  SameSlots(surf', surf) /\ LockFree /\ UNCHANGED <<ctx, live, call>>
  BY <1>1, <1>3 DEF SyncSurface, SameSlots, SurfTable, SurfaceRec
<1>4. ASSUME NEW c \in Contexts, CreateContextFails(c)
      PROVE  SameSlots(surf', surf) /\ LockFree /\ UNCHANGED <<ctx, live, call>>
  BY <1>4, ListableHoldNothing DEF CreateContextFails
<1>5. SameSlots(surf', surf) /\ LockFree /\ UNCHANGED <<ctx, live, call>>
  BY <1>2, <1>3, <1>4
<1>6. QED  BY <1>1, <1>5, QuietStep

LEMMA StepsDestroyContext ==
  ASSUME SInv, NEW c \in Contexts, DestroyContext(c)
  PROVE  OneContextSteps
<1>1. /\ IInv /\ LockFree /\ c \in live /\ live' = live \ {c} /\ call' = call
      /\ surf' = Unheld(surf, ctx[c].targets)
      /\ ctx'[c] = ClosedContext /\ \A d \in live \ {c} : ctx'[d] = ctx[d]
  BY DEF DestroyContext, ReleaseCtxCaptureSurfaces, SInv, IInv, TypeOK
<1>2. ClosedContext \in ContextRec
  BY ConstantRecordTypes
<1>3. \A x : SamePool(x, x)
  BY DEF SamePool
<1>4. SameSlots(surf', Unheld(surf, ctx[c].targets))
  BY <1>1 DEF SameSlots
<1>5. Becomes(c, ClosedContext, Unheld(surf, ctx[c].targets), None)
  BY <1>1, <1>3, <1>4, IdleBecomes
<1>6. LocalTo(Unheld(surf, ctx[c].targets), c)
  BY <1>1, TablesLocal
<1>7. QED  BY <1>1, <1>2, <1>5, <1>6 DEF OneContextSteps

LEMMA StepsCreateContext ==
  ASSUME SteadyPools, SInv, IInv', NEW c \in Contexts, CreateContext(c)
  PROVE  OneContextSteps
<1>1. /\ IInv /\ LockFree /\ c \notin live /\ live' = live \cup {c} /\ call' = call
      /\ ctx \in [Contexts -> ContextRec] /\ live \subseteq Contexts
      /\ Codec[c] \notin M2MCodecs
  BY DEF CreateContext, SInv, IInv, TypeOK, SteadyPools, Decoder
<1>2. PICK T \in Listable(c), n \in CapGrants(c), on \in {TRUE, "streamon" \notin Events} :
        /\ ctx' = [ctx EXCEPT ![c] = NewContext(c, T, n, on)]
        /\ surf' = surf \/ surf' = Unheld(surf, T)
  BY DEF CreateContext
<1> DEFINE x == NewContext(c, T, n, on)
<1>3. ctx'[c] = x /\ x \in ContextRec /\ \A d \in live \ {c} : ctx'[d] = ctx[d]
  BY <1>1, <1>2 DEF IInv, TypeOK
<1>4. /\ x.current = NoSurface /\ \A r \in Refs : x.slotBuf[r] = None
      /\ \/ x.allocd = 0 /\ x.free = {}
         \/ x.allocd = n /\ x.free = {k \in 0 .. n - 1 : k < NumCap}
  BY <1>1 DEF NewContext, ClosedContext, CaptureQueue
<1> HIDE DEF x
<1>5. SameSlots(surf', surf)
  BY <1>1, <1>2, ListableHoldNothing DEF SameSlots
<1>6. Becomes(c, x, surf, None)
  BY <1>1, <1>3, <1>5, IdleBecomes DEF SamePool
<1>7. \A s \in Surfaces : ~InPool(surf, s, c)
  BY <1>1 DEF IInv, SlotInv, SurfacesOK, InPool
<1>8. TargetEmpty(x, surf)
  BY <1>4 DEF TargetEmpty
<1>9. n \in Int
  BY ConstantAssumption DEF CapGrants
<1>10. AccountOK(c, x, surf, None) /\ Pool!Rebuild(ClaimsOf(c, x, surf, None))
  <2>1. CASE x.allocd = n /\ x.free = {k \in 0 .. n - 1 : k < NumCap}
    BY <1>4, <1>7, <1>8, <1>9, <2>1, RebuiltPool
  <2>2. CASE x.allocd = 0 /\ x.free = {}
    <3>1. x.free = {k \in 0 .. 0 - 1 : k < NumCap}
      BY <2>2
    <3>2. QED  BY <1>4, <1>7, <1>8, <2>2, <3>1, RebuiltPool
  <2>3. QED  BY <1>4, <2>1, <2>2
<1>11. LocalTo(surf, c)
  BY <1>1, TablesLocal
<1>12. QED  BY <1>1, <1>3, <1>6, <1>10, <1>11 DEF OneContextSteps

(* A surface gives its slot back to the pool.                              *)
LEMMA GiveBackStep ==
  ASSUME SInv, IInv', LockFree, NEW c \in live, Codec[c] # "AV1",
         NEW s \in Surfaces, InPool(surf, s, c), NEW k \in Slots, surf[s].index = k,
         NEW x \in ContextRec, x.free = ctx[c].free \cup {k},
         x.allocd = ctx[c].allocd, x.slotBuf = ctx[c].slotBuf,
         NEW f, f[s].index = None, \A t \in Surfaces \ {s} : f[t] = surf[t],
         TargetEmpty(x, f), Becomes(c, x, f, None), live' = live
  PROVE  OneContextSteps
<1>1. /\ FlightSlot(c) = None /\ c \in Contexts /\ ctx[c] \in ContextRec
      /\ PoolOK(c, ctx[c], surf, None)
      /\ Excluded(c, ctx[c], surf, None) /\ AccountOK(c, ctx[c], surf, None)
  BY ContextFacts DEF FlightSlot, LockFree
<1>2. Excluded(c, x, f, None)
  BY BecomesExcluded
<1>3. \A j \in Slots \ {k} : Holders(f, c, j) = Holders(surf, c, j)
  BY SlotFacts DEF Holders, InPool
<1>4. AccountOK(c, x, f, None)
  <2>1. Accounted(c, x, f, None)
    BY <1>1, <1>3 DEF AccountOK, Accounted, Holders
  <2>2. \A r \in Refs : x.slotBuf[r] = None
    BY <1>1 DEF PoolOK, RefsOK
  <2>3. HeldAreRefs(c, x, f) /\ OwnersHold(c, x, f)
    BY <2>2 DEF HeldAreRefs, OwnersHold
  <2>4. QED  BY <2>1, <2>3 DEF AccountOK
<1>5. ASSUME NEW j \in Slots
      PROVE  LET old == Claim(c, ctx[c], surf, None, j)
                 new == Claim(c, x, f, None, j)
             IN  new = old \/ Pool!Handover(old, new)
  <2>1. CASE j = k
    <3>1. Claim(c, ctx[c], surf, None, j) = {s} /\ Claim(c, x, f, None, j) = Pool!Free
      BY <1>1, <1>2, <2>1, ClaimCases
    <3>2. QED  BY <3>1 DEF Pool!Handover, Pool!Held
  <2>2. CASE j # k
    <3>1. j # None
      BY SlotFacts
    <3>2. QED  BY <1>3, <2>2, <3>1, ClaimKept
  <2>3. QED  BY <2>1, <2>2
<1>6. Moves(c, x, f, None)
  BY <1>1, <1>5, MovesIf
<1>7. LocalTo(f, c)
  <2>1. s \in ctx[c].targets
    BY <1>1 DEF PoolOK, HoldersOK
  <2>2. QED  BY <2>1 DEF LocalTo
<1>8. QED  BY <1>1, <1>4, <1>6, <1>7 DEF OneContextSteps

(* A surface leaves its slot to the AV1 reference model.                   *)
LEMMA LeaveStep ==
  ASSUME SInv, IInv', LockFree, NEW c \in live, Codec[c] = "AV1",
         NEW s \in Surfaces, InPool(surf, s, c), NEW k \in Slots, surf[s].index = k,
         NEW x \in ContextRec, x.free = ctx[c].free,
         x.allocd = ctx[c].allocd, x.slotBuf = ctx[c].slotBuf, x.pixels = ctx[c].pixels,
         x.owner = [ctx[c].owner EXCEPT ![k] = NoSurface],
         NEW f, f[s].index = None, \A t \in Surfaces \ {s} : f[t] = surf[t],
         TargetEmpty(x, f), Becomes(c, x, f, None), live' = live
  PROVE  OneContextSteps
<1>1. /\ FlightSlot(c) = None /\ c \in Contexts /\ ctx[c] \in ContextRec
      /\ PoolOK(c, ctx[c], surf, None)
      /\ Excluded(c, ctx[c], surf, None) /\ AccountOK(c, ctx[c], surf, None)
  BY ContextFacts DEF FlightSlot, LockFree
<1>2. Excluded(c, x, f, None)
  BY BecomesExcluded
<1>3. \A j \in Slots \ {k} : Holders(f, c, j) = Holders(surf, c, j)
  BY SlotFacts DEF Holders, InPool
<1>4. PICK q \in Refs : ctx[c].slotBuf[q] = k
  BY <1>1 DEF AccountOK, HeldAreRefs
<1>5. \A t \in Surfaces : InPool(f, t, c) =>
        t # s /\ InPool(surf, t, c) /\ f[t].index = surf[t].index /\ f[t].index # k
  BY <1>1 DEF InPool, Excluded, DistinctOK
<1>6. AccountOK(c, x, f, None)
  <2>1. Accounted(c, x, f, None)
    BY <1>1, <1>3, <1>4 DEF AccountOK, Accounted, Holders
  <2>2. HeldAreRefs(c, x, f)
    BY <1>1, <1>5 DEF AccountOK, HeldAreRefs
  <2>3. OwnersHold(c, x, f)
    <3> SUFFICES ASSUME NEW r \in Refs, x.slotBuf[r] # None,
                        x.owner[x.slotBuf[r]] # NoSurface
                 PROVE  /\ InPool(f, x.owner[x.slotBuf[r]], c)
                        /\ f[x.owner[x.slotBuf[r]]].index = x.slotBuf[r]
      BY DEF OwnersHold
    <3>1. /\ x.slotBuf[r] \in Slots /\ x.slotBuf[r] # k
          /\ x.owner[x.slotBuf[r]] = ctx[c].owner[x.slotBuf[r]]
          /\ x.owner[x.slotBuf[r]] \in Surfaces
      BY <1>1 DEF ContextRec
    <3>2. /\ InPool(surf, x.owner[x.slotBuf[r]], c)
          /\ surf[x.owner[x.slotBuf[r]]].index = x.slotBuf[r]
      BY SMTT(60), <1>1, <3>1 DEF AccountOK, OwnersHold
    <3>3. x.owner[x.slotBuf[r]] # s
      BY <3>1, <3>2
    <3>4. QED  BY <3>1, <3>2, <3>3 DEF InPool
  <2>4. QED  BY <2>1, <2>2, <2>3 DEF AccountOK
<1>7. ASSUME NEW j \in Slots
      PROVE  LET old == Claim(c, ctx[c], surf, None, j)
                 new == Claim(c, x, f, None, j)
             IN  new = old \/ Pool!Handover(old, new)
  <2>1. CASE j = k
    <3>1. Holders(f, c, j) = {}
      BY <1>5, <2>1 DEF Holders
    <3>2. \E r \in Refs : x.slotBuf[r] = j
      BY <1>4, <2>1
    <3>3. Claim(c, ctx[c], surf, None, j) = {s}
      BY <1>1, <2>1, ClaimCases
    <3>4. Claim(c, x, f, None, j) = Pool!Kept
      BY <1>2, <3>1, <3>2, ClaimCases
    <3>5. QED  BY <3>3, <3>4 DEF Pool!Handover, Pool!Held
  <2>2. CASE j # k
    <3>1. j # None
      BY SlotFacts
    <3>2. QED  BY <1>3, <2>2, <3>1, ClaimKept
  <2>3. QED  BY <2>1, <2>2
<1>8. Moves(c, x, f, None)
  BY <1>1, <1>7, MovesIf
<1>9. LocalTo(f, c)
  <2>1. s \in ctx[c].targets
    BY <1>1 DEF PoolOK, HoldersOK
  <2>2. QED  BY <2>1 DEF LocalTo
<1>10. QED  BY <1>1, <1>6, <1>8, <1>9 DEF OneContextSteps

LEMMA DetachPixels ==
  ASSUME NEW c, ctx[c] \in ContextRec, NEW s
  PROVE  DetachSurface(c, s).pixels = ctx[c].pixels
<1> DEFINE x == ctx[c]
           k == surf[s].index
           held == s \in x.targets /\ k # None /\ k < x.allocd
           F == IF held /\ ~Av1ModelActive(c) THEN x.free \cup {k} ELSE x.free
           O == IF held /\ Av1ModelActive(c)
                THEN [x.owner EXCEPT ![k] = NoSurface] ELSE x.owner
           w == IF x.current = s THEN NoSurface ELSE x.current
<1>1. DetachSurface(c, s) =
        [x EXCEPT !.targets = x.targets \ {s}, !.free = F, !.owner = O, !.current = w]
  BY Zenon DEF DetachSurface
<1> HIDE DEF F, O, w
<1>2. QED  BY <1>1 DEF ContextRec

LEMMA StepsDestroySurfaces ==
  ASSUME SteadyPools, SInv, IInv', NEW s \in Surfaces, DestroySurfaces(s)
  PROVE  live = {} \/ OneContextSteps
<1> DEFINE k == surf[s].index
           c == surf[s].from
           x == DetachSurface(c, s)
           f == [surf EXCEPT ![s] = NoSurfaceRec]
           held(d) == s \in ctx[d].targets /\ k # None /\ k < ctx[d].allocd
<1>1. /\ IInv /\ LockFree /\ live' = live /\ call' = call /\ live \subseteq Contexts
      /\ surf \in SurfTable /\ surf' = f /\ surf[s] \in SurfaceRec
      /\ \A d \in live : ctx[d] \in ContextRec /\ ctx'[d] = DetachSurface(d, s)
  BY DEF DestroySurfaces, SInv, IInv, TypeOK, SurfTable
<1>2. f[s].index = None /\ \A t \in Surfaces \ {s} : f[t] = surf[t]
  BY <1>1 DEF NoSurfaceRec, NewSurface, SurfTable
<1>3. ASSUME NEW d \in live
      PROVE  /\ ctx'[d].allocd = ctx[d].allocd /\ ctx'[d].slotBuf = ctx[d].slotBuf
             /\ ctx'[d].pixels = ctx[d].pixels
             /\ ctx'[d].current = IF ctx[d].current = s THEN NoSurface ELSE ctx[d].current
             /\ ctx'[d].free = IF held(d) /\ ~Av1ModelActive(d)
                               THEN ctx[d].free \cup {k} ELSE ctx[d].free
             /\ ctx'[d].owner = IF held(d) /\ Av1ModelActive(d)
                                THEN [ctx[d].owner EXCEPT ![k] = NoSurface]
                                ELSE ctx[d].owner
  <2>1. DetachSurface(d, s).pixels = ctx[d].pixels
    BY <1>1, DetachPixels
  <2>2. ctx[d] \in ContextRec /\ ctx'[d] = DetachSurface(d, s)
    BY <1>1
  <2>3. QED  BY SMTT(60), <2>1, <2>2, DetachFields
<1>4. \A d \in live : ~held(d) => SamePool(ctx'[d], ctx[d])
  BY <1>3 DEF SamePool
<1>5. CASE k = None
  <2>1. SameSlots(surf', surf)
    BY <1>1, <1>2, <1>5 DEF SameSlots
  <2>2. \A d \in live : SamePool(ctx'[d], ctx[d])
    BY <1>4, <1>5
  <2>3. QED  BY <1>1, <2>1, <2>2, QuietStep
<1>6. CASE k # None
  <2>1. c \in live /\ InPool(surf, s, c) /\ k \in Slots
    BY <1>1, <1>6 DEF SInv, IInv, SlotInv, SurfacesOK, InPool, SurfaceRec
  <2>2. PoolOK(c, ctx[c], surf, None) /\ AccountOK(c, ctx[c], surf, FlightSlot(c))
    BY <1>1, <2>1, IdlePools, ContextFacts
  <2>3. held(c)
    BY <2>1, <2>2, <1>6 DEF PoolOK, HoldersOK
  <2>4. \A d \in live \ {c} : s \notin ctx[d].targets
    BY <1>1, <2>1, <2>3 DEF SteadyPools, IInv, SlotInv, TargetsDisjoint
  <2>5. x \in ContextRec
    <3>1. ctx' \in [Contexts -> ContextRec]
      BY DEF IInv, TypeOK
    <3>2. ctx'[c] = x /\ c \in Contexts
      BY <1>1, <2>1
    <3>3. QED  BY <3>1, <3>2
  <2>6. Becomes(c, x, f, None)
    <3>1. \A d \in live \ {c} : SamePool(ctx'[d], ctx[d])
      BY <1>4, <2>4
    <3>2. SamePool(ctx'[c], x) /\ SameSlots(surf', f)
      BY <1>1, <2>1 DEF SamePool, SameSlots
    <3> HIDE DEF x, f
    <3>3. QED  BY <1>1, <3>1, <3>2, IdleBecomes
  <2>7. TargetEmpty(x, f)
    <3>1. x.current = IF ctx[c].current = s THEN NoSurface ELSE ctx[c].current
      BY <1>1, <1>3, <2>1
    <3>2. ctx[c].current \in Surfaces \cup {NoSurface} /\ TargetEmpty(ctx[c], surf)
      BY <1>1, <2>1, <2>2 DEF ContextRec, AccountOK
    <3>3. QED  BY <1>2, <3>1, <3>2 DEF TargetEmpty
  <2>8. /\ x.allocd = ctx[c].allocd /\ x.slotBuf = ctx[c].slotBuf
        /\ x.pixels = ctx[c].pixels
        /\ x.free = IF Av1ModelActive(c) THEN ctx[c].free ELSE ctx[c].free \cup {k}
        /\ x.owner = IF Av1ModelActive(c)
                     THEN [ctx[c].owner EXCEPT ![k] = NoSurface] ELSE ctx[c].owner
    BY <1>1, <1>3, <2>1, <2>3
  <2>9. Codec[c] = "AV1" => Av1ModelActive(c)
    BY <2>1, <2>2, SlotFacts
       DEF Av1ModelActive, AccountOK, HeldAreRefs, PoolOK, RefsOK, InPool
  <2>10. surf[s].index = k
    OBVIOUS
  <2> HIDE DEF x, f, k, c
  <2>11. CASE Codec[c] = "AV1"
    BY <1>1, <1>2, <2>1, <2>5, <2>6, <2>7, <2>8, <2>9, <2>10, <2>11, LeaveStep
  <2>12. CASE Codec[c] # "AV1"
    <3>1. ~Av1ModelActive(c)
      BY <2>12 DEF Av1ModelActive
    <3>2. QED
      BY <1>1, <1>2, <2>1, <2>5, <2>6, <2>7, <2>8, <2>10, <2>12, <3>1, GiveBackStep
  <2>13. QED  BY <2>11, <2>12
<1>7. QED  BY <1>5, <1>6

LEMMA StepsBeginPicture ==
  ASSUME SteadyPools, SInv, IInv', NEW c \in Contexts, NEW s \in Surfaces,
         BeginPicture(c, s)
  PROVE  OneContextSteps
<1> DEFINE k == surf[s].index
<1>1. /\ IInv /\ LockFree /\ live' = live /\ call' = call /\ c \in live
      /\ ctx \in [Contexts -> ContextRec] /\ surf \in SurfTable
      /\ s \in ctx[c].targets /\ ~Referenced(c, s) /\ surf[s].alive
      /\ ~ExpbufWanted /\ Decoder(c) /\ live \subseteq Contexts
  BY DEF BeginPicture, SInv, IInv, TypeOK, SurfTable, SteadyPools, GbmMode, Decoder
<1>2. PICK req \in {"ready", "none"} :
        LET x == [ctx[c] EXCEPT !.current = s,
                    !.request = IF @ = "none" /\ Codec[c] \notin M2MCodecs
                                THEN req ELSE @]
        IN  /\ ctx' = [ctx EXCEPT ![c] =
                         IF (k # None /\ ~ExpbufWanted) /\ ~Av1ModelActive(c) /\ k < x.allocd
                         THEN CapPoolPush(x, k) ELSE x]
            /\ surf' = IF k # None /\ ~ExpbufWanted THEN Unheld(surf, {s}) ELSE surf
  BY DEF BeginPicture
<1> DEFINE x == [ctx[c] EXCEPT !.current = s,
                   !.request = IF @ = "none" /\ Codec[c] \notin M2MCodecs
                               THEN req ELSE @]
<1>3. /\ x \in ContextRec /\ x.current = s /\ x.free = ctx[c].free
      /\ x.allocd = ctx[c].allocd /\ x.slotBuf = ctx[c].slotBuf
      /\ x.owner = ctx[c].owner /\ x.pixels = ctx[c].pixels
  <2> DEFINE q == IF ctx[c].request = "none" /\ Codec[c] \notin M2MCodecs
                  THEN req ELSE ctx[c].request
  <2>1. ctx[c] \in ContextRec /\ q \in {"none", "ready", "stuck"}
    BY <1>1 DEF ContextRec
  <2>2. x = [ctx[c] EXCEPT !.current = s, !.request = q]
    OBVIOUS
  <2> HIDE DEF q, x
  <2>3. QED  BY <2>1, <2>2 DEF ContextRec
<1>4. /\ ctx'[c] = IF k # None /\ ~Av1ModelActive(c) /\ k < x.allocd
                   THEN CapPoolPush(x, k) ELSE x
      /\ \A d \in live \ {c} : ctx'[d] = ctx[d]
      /\ surf' = IF k # None THEN Unheld(surf, {s}) ELSE surf
  BY <1>1, <1>2
<1> HIDE DEF x
<1>5. /\ PoolOK(c, ctx[c], surf, None) /\ FlightSlot(c) = None
      /\ AccountOK(c, ctx[c], surf, None)
  BY <1>1, ContextFacts DEF FlightSlot, LockFree
<1>6. \A y : SamePool(y, y)
  BY DEF SamePool
<1>7. CASE k = None
  <2>1. ctx'[c] = x /\ SameSlots(surf', surf)
    BY <1>4, <1>7 DEF SameSlots
  <2>2. Becomes(c, x, surf, None)
    BY <1>1, <1>4, <1>6, <2>1, IdleBecomes
  <2>3. AccountOK(c, x, surf, None)
    BY <1>3, <1>5, <1>7 DEF AccountOK, Accounted, HeldAreRefs, OwnersHold, TargetEmpty
  <2>4. \A j \in Slots : Claim(c, x, surf, None, j) = Claim(c, ctx[c], surf, None, j)
    BY <1>3 DEF Claim
  <2>5. Moves(c, x, surf, None)
    BY <1>5, <2>4, MovesIf
  <2>6. LocalTo(surf, c)
    BY <1>1, TablesLocal
  <2>7. QED  BY <1>1, <1>3, <2>2, <2>3, <2>5, <2>6 DEF OneContextSteps
<1>8. CASE k # None
  <2>1. InPool(surf, s, c) /\ k \in Slots
    BY <1>1, <1>8, HolderContext DEF SurfTable, SurfaceRec
  <2>2. Codec[c] # "AV1"
    <3> SUFFICES ASSUME Codec[c] = "AV1" PROVE FALSE
      OBVIOUS
    <3>1. PICK r \in Refs : ctx[c].slotBuf[r] = k /\ ctx[c].pixels[k] = s
      BY <1>5, <2>1 DEF AccountOK, HeldAreRefs
    <3>2. RecordOK(c, ctx[c], None, {}, call.cap) /\ Av1Quiet
      BY <1>1, IdleRecords DEF SInv, SteadyPools
    <3>3. ctx[c].kdpb[r] = k
      BY <3>1, <3>2 DEF RecordOK, TableOK
    <3>4. QED  BY <1>1, <1>8, <3>1, <3>3 DEF Referenced
  <2>3. ~Av1ModelActive(c) /\ k < x.allocd
    BY <1>3, <1>5, <2>1, <2>2 DEF Av1ModelActive, PoolOK, HoldersOK
  <2> DEFINE y == CapPoolPush(x, k)
             f == Unheld(surf, {s})
  <2>4. /\ y \in ContextRec /\ y.free = ctx[c].free \cup {k} /\ y.allocd = ctx[c].allocd
        /\ y.slotBuf = ctx[c].slotBuf /\ y.current = s
    BY <1>3, <2>1 DEF CapPoolPush, ContextRec
  <2>5. f[s].index = None /\ \A t \in Surfaces \ {s} : f[t] = surf[t]
    BY <1>1 DEF Unheld, SurfTable, SurfaceRec
  <2>6. ctx'[c] = y /\ surf' = f
    BY <1>4, <1>8, <2>3
  <2>7. SameSlots(surf', f)
    BY <2>6 DEF SameSlots
  <2>8. surf[s].index = k
    OBVIOUS
  <2> HIDE DEF y, f, k
  <2>9. Becomes(c, y, f, None)
    BY <1>1, <1>4, <1>6, <2>6, <2>7, IdleBecomes
  <2>10. TargetEmpty(y, f)
    BY <2>4, <2>5 DEF TargetEmpty
  <2>11. QED  BY <1>1, <2>1, <2>2, <2>4, <2>5, <2>8, <2>9, <2>10, GiveBackStep
<1>9. QED  BY <1>7, <1>8

-----------------------------------------------------------------------------
(* The whole.                                                              *)

LEMMA StepsInit == Init => SInv /\ Pool!Init
<1> SUFFICES ASSUME Init PROVE SInv /\ Pool!Init
  OBVIOUS
<1>1. live = {} /\ call.at = "idle"
  BY DEF Init, Idle
<1>2. IInv /\ RInv /\ Mappable
  BY TypesInit, InvInit, RecordsInit, SMT DEF IInv, Init, CurrentSurfaceAlive
<1>3. PixelsOK /\ AccountsOK
  BY <1>1 DEF PixelsOK, AccountsOK
<1>4. Pool!Init
  BY <1>1 DEF Pool!Init, Pool!Gone, Claimants
<1>5. QED  BY <1>2, <1>3, <1>4 DEF SInv

(* Every step is one context's, or no context exists before and after it.  *)
LEMMA StepsNext ==
  ASSUME SteadyPools, SInv, IInv', Next
  PROVE  PixelsOK' /\ (OneContextSteps \/ (live = {} /\ live' = {}))
<1>1. CASE \E c \in Contexts : EndPicture(c)
  <2>1. PICK c \in Contexts : EndPicture(c)
    BY <1>1
  <2>2. call'.at # "attach"
    BY <2>1 DEF EndPicture, Finish, Goto, Idle
  <2>3. QED  BY <2>1, <2>2, StepsEndPicture DEF PixelsOK
<1>2. CASE Prepare
  <2>1. call'.at # "attach"
    BY <1>2 DEF Prepare, EnsureCapture, Fail, Finish, Goto, Idle, SInv, IInv, TypeOK, CallRec
  <2>2. QED  BY <1>2, <2>1, StepsPrepare DEF PixelsOK
<1>3. CASE Start
  <2>1. call'.at # "attach"
    BY <1>3 DEF Start, Fail, Finish, Goto, Idle, SInv, IInv, TypeOK, CallRec
  <2>2. QED  BY <1>3, <2>1, StepsStart DEF PixelsOK
<1>4. CASE Submit
  <2>1. call'.at # "attach"
    BY <1>4 DEF Submit, Fail, Finish, Goto, Idle, SInv, IInv, TypeOK, CallRec
  <2>2. QED  BY <1>4, <2>1, StepsSubmit DEF PixelsOK
<1>5. CASE Wait
  BY <1>5, StepsWait
<1>6. CASE Attach
  BY <1>6, StepsAttach
<1>7. CASE \/ \E s \in Surfaces : CreateSurface(s) \/ SyncSurface(s)
           \/ \E c \in Contexts : CreateContextFails(c)
  <2>1. LockFree
    BY <1>7 DEF CreateSurface, SyncSurface, CreateContextFails
  <2>2. live' = live /\ call' = call /\ (live = {} \/ OneContextSteps)
    BY <1>7, StepsSurfaces
  <2>3. QED  BY <2>1, <2>2 DEF LockFree, PixelsOK
<1>8. CASE \E c \in Contexts : CreateContext(c) \/ DestroyContext(c)
  <2>1. LockFree /\ call' = call
    BY <1>8 DEF CreateContext, DestroyContext
  <2>2. QED  BY <1>8, <2>1, StepsCreateContext, StepsDestroyContext DEF LockFree, PixelsOK
<1>9. CASE \E s \in Surfaces : DestroySurfaces(s)
  <2>1. LockFree /\ call' = call /\ live' = live
    BY <1>9 DEF DestroySurfaces
  <2>2. QED  BY <1>9, <2>1, StepsDestroySurfaces DEF LockFree, PixelsOK
<1>10. CASE \E c \in Contexts, s \in Surfaces : BeginPicture(c, s)
  <2>1. LockFree /\ call' = call
    BY <1>10 DEF BeginPicture
  <2>2. QED  BY <1>10, <2>1, StepsBeginPicture DEF LockFree, PixelsOK
<1>11. CASE \E s \in Surfaces : ExportSurface(s)
  BY <1>11 DEF ExportSurface, SteadyPools, GbmMode
<1>12. QED
  BY <1>1, <1>2, <1>3, <1>4, <1>5, <1>6, <1>7, <1>8, <1>9, <1>10, <1>11 DEF Next

(* The claims the abstract pool sees.                                      *)
PoolClaims == [c \in Contexts |-> [k \in Slots |-> Claimants(c, k)]]

LEMMA PoolStep ==
  ASSUME SteadyPools, SInv, IInv', [Next]_vars
  PROVE  PixelsOK' /\ AccountsOK' /\ [Pool!Next]_PoolClaims
<1>1. CASE UNCHANGED vars
  BY SMTT(60), <1>1 DEF vars, SInv, PixelsOK, AccountsOK, AccountOK, Accounted, HeldAreRefs,
              OwnersHold, TargetEmpty, FlightSlot, InPool, PoolClaims, Claimants,
              Holds, InFlight
<1>2. CASE Next
  <2>1. PixelsOK' /\ (OneContextSteps \/ (live = {} /\ live' = {}))
    BY <1>2, StepsNext
  <2>2. CASE live = {} /\ live' = {}
    <3>1. AccountsOK'
      BY <2>2 DEF AccountsOK
    <3>2. PoolClaims' = PoolClaims
      BY <2>2 DEF PoolClaims, Claimants
    <3>3. QED  BY <2>1, <3>1, <3>2
  <2>3. CASE OneContextSteps
    <3>1. PICK c \in Contexts, x \in ContextRec : \E f, p :
            /\ Becomes(c, x, f, p) /\ LocalTo(f, c)
            /\ c \in live' => AccountOK(c, x, f, p) /\ (c \in live => Moves(c, x, f, p))
            /\ c \in live' /\ c \notin live => Pool!Rebuild(ClaimsOf(c, x, f, p))
      BY <2>3 DEF OneContextSteps
    <3>2. PICK f, p :
            /\ Becomes(c, x, f, p) /\ LocalTo(f, c)
            /\ c \in live' => AccountOK(c, x, f, p) /\ (c \in live => Moves(c, x, f, p))
            /\ c \in live' /\ c \notin live => Pool!Rebuild(ClaimsOf(c, x, f, p))
      BY <3>1
    <3>3. IInv /\ AccountsOK /\ \A d \in Contexts : Decoder(d)
      BY DEF SInv, SteadyPools
    <3>4. AccountsOK' /\ [Pool!Next]_([d \in Contexts |-> [k \in Slots |-> Claimants(d, k)]])
      BY <3>2, <3>3, StepOfPool
    <3>5. QED  BY <2>1, <3>4 DEF PoolClaims
  <2>4. QED  BY <2>1, <2>2, <2>3
<1>3. QED  BY <1>1, <1>2

(* The invariant of the steady pools is inductive, and every step of it is *)
(* one of the abstract pool or moves no slot.                              *)
LEMMA SteadyInductive ==
  ASSUME SteadyPools
  PROVE  SInv /\ [Next]_vars => SInv' /\ [Pool!Next]_PoolClaims
<1>1. SInv /\ [Next]_vars => IInv' /\ RInv' /\ Mappable'
  BY TypesNext, CurrentNext, InvNext, RecordsNext, MappableNext
     DEF SInv, IInv, SteadyPools, GbmMode
<1>2. QED  BY <1>1, PoolStep DEF SInv

(* "Destroying surfaced frames mid-session must not drain the pool"        *)
(* (v4l2sl_destroy_surfaces), for every set of decoders, surfaces and slot *)
(* counts: whatever fails but REQBUFS(0), every listed CAPTURE slot is on  *)
(* the free list, held by a surface, being decoded or an AV1 reference.    *)
THEOREM NoSlotLost ==
  ASSUME SteadyPools
  PROVE  Spec => []SlotsAccounted
<1>1. Init => SInv
  BY StepsInit
<1>2. QED  BY <1>1, SteadyInductive, InvImpliesAccounted, PTL DEF Spec

(* DecodeSlots implements SlotPool under the same hypotheses: a slot goes  *)
(* from one claimant to another only over the free list and a decode, one  *)
(* at a time, in entry points that themselves run through many steps.      *)
THEOREM PoolImplemented ==
  ASSUME SteadyPools
  PROVE  Spec => ImplementsPool
<1>1. Init => SInv /\ Pool!Init
  BY StepsInit
<1>2. Spec => Pool!Init /\ [][Pool!Next]_PoolClaims
  BY <1>1, SteadyInductive, PTL DEF Spec
<1>3. QED  BY <1>2, PTL DEF ImplementsPool, Pool!Spec, PoolClaims

-----------------------------------------------------------------------------
(* What a step may never do to a slot that a surface holds.                *)

Overwritten ==
  \E c \in Contexts, k \in Slots, s \in Surfaces :
    /\ ctx[c].pixels[k] = s /\ Holds(s, c, k)
    /\ ctx'[c].pixels[k] # s
    /\ ctx[c].current # s /\ surf'[s].index # None

(* A step of context d leaves the other records alone, and either writes   *)
(* no slot but the one in flight (which takes the picture of the current   *)
(* surface from where it was), or takes the slots of d from all of its     *)
(* render targets.                                                         *)
OnlyOf(d) == \A c \in Contexts \ {d} : ctx'[c] = ctx[c]

Draws(d) ==
  \A j \in Slots : \/ j = FlightSlot(d) \/ ctx'[d].pixels[j] = ctx[d].pixels[j]
                   \/ ctx[d].pixels[j] = ctx[d].current

Drops(d) == \A s \in ctx[d].targets : surf'[s].index = None

LEMMA HeldSlot ==
  ASSUME IInv, NEW c \in Contexts, NEW k \in Slots, NEW s \in Surfaces, Holds(s, c, k)
  PROVE  c \in live /\ s \in ctx[c].targets /\ k # FlightSlot(c)
<1>1. InPool(surf, s, c) /\ c \in live
  BY SlotFacts DEF Holds, InPool, IInv, SlotInv, SurfacesOK
<1>2. PoolOK(c, ctx[c], surf, FlightSlot(c))
  BY <1>1 DEF IInv, SlotInv, PoolsOK
<1>3. QED  BY <1>1, <1>2 DEF PoolOK, HoldersOK, Holds

LEMMA OverwriteStep ==
  ASSUME IInv, NEW d, OnlyOf(d), Draws(d) \/ Drops(d)
  PROVE  ~Overwritten
BY HeldSlot DEF Overwritten, OnlyOf, Draws, Drops

LEMMA FinishPixels ==
  ASSUME IInv, NEW d \in Contexts, NEW x \in ContextRec, x.pixels = ctx[d].pixels,
         NEW f, NEW st, NEW ret, Finish(d, x, f, st, ret)
  PROVE  OnlyOf(d) /\ Draws(d)
<1>1. ctx'[d] = [x EXCEPT !.current = NoSurface] /\ OnlyOf(d)
  BY DEF Finish, IInv, TypeOK, OnlyOf
<1>2. QED  BY <1>1 DEF Draws, ContextRec

LEMMA FailPixels ==
  ASSUME IInv, NEW d \in Contexts, NEW x \in ContextRec,
         \A j \in Slots : j = FlightSlot(d) \/ x.pixels[j] = ctx[d].pixels[j],
         NEW f, Fail(d, x, f)
  PROVE  OnlyOf(d) /\ Draws(d)
<1>1. ctx'[d] = [[x EXCEPT !.request = "none"] EXCEPT !.current = NoSurface] /\ OnlyOf(d)
  BY DEF Fail, Finish, IInv, TypeOK, OnlyOf
<1>2. ctx'[d].pixels = x.pixels
  BY <1>1 DEF ContextRec
<1>3. QED  BY <1>1, <1>2 DEF Draws

LEMMA GotoPixels ==
  ASSUME IInv, NEW d \in Contexts, NEW x,
         \A j \in Slots : \/ j = FlightSlot(d) \/ x.pixels[j] = ctx[d].pixels[j]
                          \/ ctx[d].pixels[j] = ctx[d].current,
         NEW f, NEW next, Goto(d, x, f, next)
  PROVE  OnlyOf(d) /\ Draws(d)
BY DEF Goto, IInv, TypeOK, OnlyOf, Draws

LEMMA PrepareDraws ==
  ASSUME IInv, Prepare
  PROVE  OnlyOf(call.ctx) /\ (Draws(call.ctx) \/ Drops(call.ctx))
<1> DEFINE c == call.ctx
<1>1. /\ c \in Contexts /\ ctx[c] \in ContextRec /\ surf \in SurfTable
      /\ ctx \in [Contexts -> ContextRec]
  BY CallFacts DEF Prepare, IInv, TypeOK, SurfTable
<1>2. CASE Fail(c, ctx[c], surf)
  BY <1>1, <1>2, FailPixels
<1>3. ASSUME NEW h \in Headers(c, ctx[c]),
             \/ Fail(c, h.x, surf)
             \/ EnsureCapture(c, h.x, [call EXCEPT !.at = "start", !.refresh = h.refresh])
      PROVE  OnlyOf(c) /\ (Draws(c) \/ Drops(c))
  <2> DEFINE x == h.x
             f == Unheld(surf, x.targets)
             next == [call EXCEPT !.at = "start", !.refresh = h.refresh]
  <2>1. /\ x \in ContextRec /\ x.pixels = ctx[c].pixels /\ x.targets = ctx[c].targets
    <3>1. x = ctx[c] \/ \E b : x = [ctx[c] EXCEPT !.active = @ \/ b]
      BY <1>3 DEF Headers
    <3>2. x \in ContextRec
      BY <1>1, <1>3, HeadersTypes
    <3>3. QED  BY <1>1, <3>1, <3>2 DEF ContextRec
  <2> HIDE DEF x
  <2>2. CASE Fail(c, x, surf)
    BY <1>1, <2>1, <2>2, FailPixels
  <2>3. CASE Goto(c, x, surf, next)
    BY <1>1, <2>1, <2>3, GotoPixels
  <2>4. ASSUME NEW y, Fail(c, y, f) \/ Goto(c, y, f, next)
        PROVE  OnlyOf(c) /\ Drops(c)
    <3>1. f \in SurfTable
      BY <1>1, UnheldType
    <3>2. \A s \in ctx[c].targets : f[s].index = None
      <4>1. \A s \in Surfaces : ~surf[s].alive => surf[s].index = None
        BY DEF IInv, SlotInv, SurfacesOK
      <4>2. \A s \in Surfaces : [surf[s] EXCEPT !.index = None, !.from = NoContext].index = None
        BY <1>1 DEF SurfTable, SurfaceRec
      <4>3. ctx[c].targets \subseteq Surfaces
        BY <1>1 DEF ContextRec
      <4>4. QED  BY <2>1, <4>1, <4>2, <4>3 DEF Unheld
    <3> HIDE DEF f, next
    <3>3. \A s \in Surfaces : surf'[s].index = f[s].index
      BY <2>4, <3>1, FailIndex DEF Goto
    <3>4. OnlyOf(c)
      BY <1>1, <2>4 DEF OnlyOf, Fail, Finish, Goto
    <3>5. ctx[c].targets \subseteq Surfaces
      BY <1>1 DEF ContextRec
    <3>6. QED  BY <3>2, <3>3, <3>4, <3>5 DEF Drops
  <2>5. \/ Fail(c, x, surf) \/ Goto(c, x, surf, next)
        \/ \E y : Fail(c, y, f) \/ Goto(c, y, f, next)
    BY <1>3 DEF EnsureCapture, ReleaseCtxCaptureSurfaces, x
  <2>6. QED  BY <2>2, <2>3, <2>4, <2>5
<1>4. QED  BY <1>2, <1>3 DEF Prepare

LEMMA SubmitDraws ==
  ASSUME IInv, ~ExpbufWanted, Submit
  PROVE  OnlyOf(call.ctx) /\ Draws(call.ctx)
<1> DEFINE c == call.ctx
           o == call.out
           x == ctx[c]
<1>1. /\ c \in Contexts /\ x \in ContextRec /\ o \in OutSlots /\ x.free \subseteq Slots
      /\ x.done \subseteq OutSlots
  BY CallFacts DEF Submit, IInv, TypeOK, ContextRec
<1>2. \A y \in ContextRec : /\ OutPoolPush(y, o) \in ContextRec
                            /\ OutPoolPush(y, o).pixels = y.pixels
  BY <1>1 DEF OutPoolPush, ContextRec
<1>3. \A y \in ContextRec : \A k \in Slots : /\ CapPoolPush(y, k) \in ContextRec
                                            /\ CapPoolPush(y, k).pixels = y.pixels
  BY DEF CapPoolPush, ContextRec
<1>4. CASE Fail(c, OutPoolPush(x, o), surf)
  <2> DEFINE y == OutPoolPush(x, o)
  <2>1. y \in ContextRec /\ y.pixels = x.pixels
    BY <1>1, <1>2
  <2> HIDE DEF y
  <2>2. QED  BY <1>1, <1>4, <2>1, FailPixels DEF y
<1>5. ASSUME NEW k \in x.free, NEW y, y = [x EXCEPT !.free = @ \ {k}],
             \/ Fail(c, CapPoolPush(OutPoolPush(y, o), k), surf)
             \/ /\ "qbuf_cap" \in Events \/ k >= x.allocd
                /\ LET w == CapPoolPush(y, k) IN
                   \/ Fail(c, w, surf)
                   \/ \E d \in w.done :
                        Fail(c, OutPoolPush([w EXCEPT !.done = @ \ {d}], d), surf)
             \/ Goto(c, y, surf, [call EXCEPT !.at = "wait", !.cap = k])
      PROVE  OnlyOf(c) /\ Draws(c)
  <2>1. y \in ContextRec /\ y.pixels = x.pixels /\ k \in Slots
    BY <1>1, <1>5 DEF ContextRec
  <2>2. ASSUME NEW w \in ContextRec, w.pixels = x.pixels, Fail(c, w, surf)
        PROVE  OnlyOf(c) /\ Draws(c)
    BY <1>1, <2>2, FailPixels
  <2>3. CASE Fail(c, CapPoolPush(OutPoolPush(y, o), k), surf)
    BY <1>2, <1>3, <2>1, <2>2, <2>3
  <2>4. CASE Fail(c, CapPoolPush(y, k), surf)
    BY <1>3, <2>1, <2>2, <2>4
  <2>5. ASSUME NEW w \in ContextRec, w.pixels = x.pixels, NEW d \in w.done,
               Fail(c, OutPoolPush([w EXCEPT !.done = @ \ {d}], d), surf)
        PROVE  OnlyOf(c) /\ Draws(c)
    <3>1. /\ OutPoolPush([w EXCEPT !.done = @ \ {d}], d) \in ContextRec
          /\ OutPoolPush([w EXCEPT !.done = @ \ {d}], d).pixels = x.pixels
      <4> DEFINE v == [w EXCEPT !.done = @ \ {d}]
      <4>1. v \in ContextRec /\ v.pixels = w.pixels
        BY DEF ContextRec
      <4>2. d \in OutSlots
        BY DEF ContextRec
      <4> HIDE DEF v
      <4>3. OutPoolPush(v, d) \in ContextRec /\ OutPoolPush(v, d).pixels = v.pixels
        BY <4>1, <4>2 DEF OutPoolPush, ContextRec
      <4>4. QED  BY <2>5, <4>1, <4>3 DEF v
    <3>2. QED  BY <2>2, <2>5, <3>1
  <2>6. CASE Goto(c, y, surf, [call EXCEPT !.at = "wait", !.cap = k])
    BY <1>1, <2>1, <2>6, GotoPixels
  <2>7. CapPoolPush(y, k) \in ContextRec /\ CapPoolPush(y, k).pixels = x.pixels
    BY <1>3, <2>1
  <2>8. QED  BY <1>5, <2>3, <2>4, <2>5, <2>6, <2>7
<1>6. QED  BY <1>1, <1>4, <1>5, SubmitCases

LEMMA WaitDraws ==
  ASSUME IInv, Wait
  PROVE  OnlyOf(call.ctx) /\ Draws(call.ctx)
<1> DEFINE c == call.ctx
           k == call.cap
           x == ctx[c]
<1>1. /\ c \in Contexts /\ x \in ContextRec /\ k \in Slots /\ FlightSlot(c) = k
  BY CallFacts DEF Wait, IInv, TypeOK, SlotInv, CallOK, FlightSlot
<1>2. /\ Spoiled(x, k) \in ContextRec
      /\ \A j \in Slots \ {k} : Spoiled(x, k).pixels[j] = x.pixels[j]
  BY <1>1, ConstantAssumption DEF Spoiled, ContextRec
<1>3. CASE Fail(c, DecodeReset(Spoiled(x, k)), surf)
  <2>1. \A y \in ContextRec : /\ DecodeReset(y) \in ContextRec
                              /\ DecodeReset(y).pixels = y.pixels
    <3>1. \A y \in ContextRec : DecodeReset(y).pixels = y.pixels
      BY DEF DecodeReset, RebuildFreePools, DpbModelReset, StreamOff, ContextRec
    <3>2. QED  BY <3>1, ResetTypes
  <2>2. QED  BY <1>1, <1>2, <1>3, <2>1, FailPixels
<1>4. ASSUME NEW bad \in BOOLEAN, NEW req,
             NEW z \in Dequeued(IF bad THEN CapPoolPush(Spoiled(x, k), k)
                                ELSE Decoded(x, k, call.refresh), call.out),
             Goto(c, [z EXCEPT !.request = req], surf,
                  [call EXCEPT !.at = "attach", !.bad = bad])
      PROVE  OnlyOf(c) /\ Draws(c)
  <2> DEFINE y == IF bad THEN CapPoolPush(Spoiled(x, k), k) ELSE Decoded(x, k, call.refresh)
  <2>1. y \in ContextRec
    <3>1. call.refresh \in SUBSET Refs
      BY DEF IInv, TypeOK, CallRec
    <3>2. Decoded(x, k, call.refresh) \in ContextRec
      BY <1>1, <3>1 DEF Decoded, ContextRec
    <3>3. CapPoolPush(Spoiled(x, k), k) \in ContextRec
      BY <1>1, <1>2, PushTypes
    <3>4. QED  BY <3>2, <3>3
  <2>2. \A j \in Slots \ {k} : y.pixels[j] = x.pixels[j] \/ x.pixels[j] = x.current
    <3>1. CapPoolPush(Spoiled(x, k), k).pixels = Spoiled(x, k).pixels
      BY <1>2 DEF CapPoolPush, ContextRec
    <3>2. \A j \in Slots \ {k} : \/ Decoded(x, k, call.refresh).pixels[j] = x.pixels[j]
                                 \/ x.pixels[j] = x.current
      BY <1>1 DEF Decoded, ContextRec
    <3>3. QED  BY <1>2, <3>1, <3>2
  <2> HIDE DEF y
  <2>3. z.pixels = y.pixels /\ [z EXCEPT !.request = req].pixels = z.pixels
    <3>1. z \in Dequeued(y, call.out)
      BY <1>4 DEF y
    <3>2. z.pixels = y.pixels
      BY <2>1, <3>1, DequeuedFields
    <3>3. (\E F, D : z = [y EXCEPT !.freeOut = F, !.done = D]) \/ \E D : z = [y EXCEPT !.done = D]
      BY <3>1 DEF Dequeued
    <3>4. [z EXCEPT !.request = req].pixels = z.pixels
      BY <2>1, <3>3 DEF ContextRec
    <3>5. QED  BY <3>2, <3>4
  <2>4. QED  BY <1>1, <1>4, <2>2, <2>3, GotoPixels
<1>5. QED  BY <1>3, <1>4 DEF Wait

LEMMA AttachDraws ==
  ASSUME IInv, Attach
  PROVE  OnlyOf(call.ctx) /\ Draws(call.ctx)
<1> DEFINE c == call.ctx
           k == call.cap
           x == ctx[c]
<1>1. /\ c \in Contexts /\ x \in ContextRec /\ k \in Slots /\ call.refresh \in SUBSET Refs
  BY CallFacts DEF Attach, IInv, TypeOK, CallRec
<1>2. \/ \E f : Fail(c, x, f) \/ Succeed(c, x, f)
      \/ \E f : Succeed(c, CapPoolPush(x, k), f)
      \/ \E f : Succeed(c, ReleaseUnrefd(x, k, call.refresh).x, f)
  BY DEF Attach
<1>3. /\ CapPoolPush(x, k) \in ContextRec /\ CapPoolPush(x, k).pixels = x.pixels
  BY <1>1 DEF CapPoolPush, ContextRec
<1>4. /\ ReleaseUnrefd(x, k, call.refresh).x \in ContextRec
      /\ ReleaseUnrefd(x, k, call.refresh).x.pixels = x.pixels
  <2>1. ReleaseUnrefd(x, k, call.refresh).x \in ContextRec
    BY <1>1, ReleaseTypes
  <2>2. ReleaseUnrefd(x, k, call.refresh).x.pixels = x.pixels
    BY <1>1 DEF ReleaseUnrefd, ContextRec
  <2>3. QED  BY <2>1, <2>2
<1>5. ASSUME NEW w \in ContextRec, w.pixels = x.pixels, NEW f, Fail(c, w, f) \/ Succeed(c, w, f)
      PROVE  OnlyOf(c) /\ Draws(c)
  BY <1>1, <1>5, FailPixels, FinishPixels DEF Succeed
<1>6. QED  BY <1>1, <1>2, <1>3, <1>4, <1>5

LEMMA OverwriteNext ==
  ASSUME GbmMode, IInv, [Next]_vars
  PROVE  ~Overwritten
<1>1. ctx \in [Contexts -> ContextRec] /\ ~ExpbufWanted /\ live \subseteq Contexts
  BY DEF IInv, TypeOK, GbmMode
<1>2. CASE /\ \A c \in Contexts : ctx'[c].pixels = ctx[c].pixels
  BY <1>2 DEF Overwritten
<1>3. CASE \E c \in Contexts : EndPicture(c)
  <2>1. PICK c \in Contexts : EndPicture(c)
    BY <1>3
  <2>2. \/ \E st, ret : Finish(c, ctx[c], surf, st, ret)
        \/ \E next : Goto(c, ctx[c], surf, next)
    BY <2>1 DEF EndPicture
  <2>3. OnlyOf(c) /\ Draws(c)
    BY <1>1, <2>2, FinishPixels, GotoPixels
  <2>4. QED  BY <2>3, OverwriteStep
<1>4. CASE Prepare
  BY <1>4, PrepareDraws, OverwriteStep
<1>5. CASE Start
  <2> DEFINE c == call.ctx
             x == [ctx[c] EXCEPT !.streamed = TRUE]
  <2>1. c \in Contexts /\ ctx[c] \in ContextRec
    BY <1>1, <1>5, CallFacts DEF Start
  <2>2. x \in ContextRec /\ x.pixels = ctx[c].pixels
    BY <2>1 DEF ContextRec
  <2>3. \/ Fail(c, ctx[c], surf) \/ Fail(c, x, surf)
        \/ \E o, next : Goto(c, [x EXCEPT !.freeOut = @ \ {o}], surf, next)
    BY <1>5 DEF Start
  <2> HIDE DEF x
  <2>4. \A o : [x EXCEPT !.freeOut = @ \ {o}].pixels = x.pixels
    BY <2>2 DEF ContextRec
  <2>5. OnlyOf(c) /\ Draws(c)
    BY <2>1, <2>2, <2>3, <2>4, FailPixels, GotoPixels
  <2>6. QED  BY <2>5, OverwriteStep
<1>6. CASE Submit
  BY <1>1, <1>6, SubmitDraws, OverwriteStep
<1>7. CASE Wait
  BY <1>7, WaitDraws, OverwriteStep
<1>8. CASE Attach
  BY <1>8, AttachDraws, OverwriteStep
<1>9. CASE \E s \in Surfaces : DestroySurfaces(s)
  <2>1. PICK s \in Surfaces : DestroySurfaces(s)
    BY <1>9
  <2>2. ASSUME NEW c \in Contexts PROVE ctx'[c].pixels = ctx[c].pixels
    BY <1>1, <2>1, DetachPixels DEF DestroySurfaces
  <2>3. QED  BY <1>2, <2>2
<1>10. CASE \E c \in Contexts : CreateContext(c)
  <2>1. \A c \in live : ctx'[c] = ctx[c]
    BY <1>1, <1>10 DEF CreateContext
  <2>2. QED  BY <2>1, HeldSlot DEF Overwritten
<1>11. CASE \E c \in Contexts : DestroyContext(c)
  <2>1. PICK c \in Contexts : DestroyContext(c)
    BY <1>11
  <2>2. /\ c \in live /\ OnlyOf(c) /\ surf' = Unheld(surf, ctx[c].targets)
        /\ ctx[c].targets \subseteq Surfaces
    BY <1>1, <2>1 DEF DestroyContext, ReleaseCtxCaptureSurfaces, OnlyOf, ContextRec
  <2>3. Drops(c)
    BY <2>2, UnheldSlots DEF Drops
  <2>4. QED  BY <2>2, <2>3, OverwriteStep
<1>12. CASE \E c \in Contexts, s \in Surfaces : BeginPicture(c, s)
  <2>1. PICK c \in Contexts, s \in Surfaces : BeginPicture(c, s)
    BY <1>12
  <2>2. PICK x : /\ \E q : x = [ctx[c] EXCEPT !.current = s, !.request = q]
                 /\ \E k : \/ ctx' = [ctx EXCEPT ![c] = CapPoolPush(x, k)]
                           \/ ctx' = [ctx EXCEPT ![c] = x]
    BY <2>1 DEF BeginPicture
  <2>3. OnlyOf(c) /\ ctx'[c].pixels = ctx[c].pixels
    <3>1. x.pixels = ctx[c].pixels /\ \A k : CapPoolPush(x, k).pixels = x.pixels
      BY <1>1, <2>2 DEF CapPoolPush, ContextRec
    <3>2. QED  BY <1>1, <2>2, <3>1 DEF OnlyOf
  <2>4. Draws(c)
    BY <2>3 DEF Draws
  <2>5. QED  BY <2>3, <2>4, OverwriteStep
<1>13. CASE \/ \E s \in Surfaces : CreateSurface(s) \/ SyncSurface(s)
            \/ \E c \in Contexts : CreateContextFails(c)
            \/ UNCHANGED vars
  BY <1>2, <1>13 DEF CreateSurface, SyncSurface, CreateContextFails, vars
<1>14. CASE \E s \in Surfaces : ExportSurface(s)
  BY <1>1, <1>14 DEF ExportSurface
<1>15. QED
  BY <1>3, <1>4, <1>5, <1>6, <1>7, <1>8, <1>9, <1>10, <1>11, <1>12, <1>13, <1>14 DEF Next

(* In the GBM-copy mode no decode overwrites the picture of a surface that *)
(* still holds its slot, and no reset or rebuild makes a held slot's       *)
(* memory anything else: decode_submit's choice of slot, with whatever     *)
(* fails and whatever codecs share the surfaces.                           *)
THEOREM HeldPicturesStay ==
  ASSUME GbmMode
  PROVE  Spec => NoForeignOverwrite
<1>1. IInv /\ [Next]_vars => ~Overwritten
  BY OverwriteNext
<1>2. ~Overwritten =>
        \A c \in Contexts, k \in Slots, s \in Surfaces :
          /\ ctx[c].pixels[k] = s /\ Holds(s, c, k)
          /\ ctx'[c].pixels[k] # s
          => \/ ctx[c].current = s
             \/ surf'[s].index = None
  BY DEF Overwritten
<1>3. QED  BY <1>1, <1>2, RecordsInductive, PTL DEF Spec, NoForeignOverwrite

(* vaBeginPicture alone makes a surface the target of a decode, and it     *)
(* returns the slot to the pool it came from.                              *)
LEMMA RetargetStep ==
  ASSUME GbmMode, \A c \in Contexts : Decoder(c), IInv, Next,
         NEW c \in live, NEW k \in Slots, NEW s \in Surfaces, Holds(s, c, k),
         NEW d \in live, ctx[d].current # s, ctx'[d].current = s
  PROVE  k \in ctx'[c].free \/ Av1ModelActive(c)
<1>1. /\ ctx \in [Contexts -> ContextRec] /\ ~ExpbufWanted /\ live \subseteq Contexts
      /\ TypeOK /\ CurrentSurfaceAlive /\ s # NoSurface
      /\ s \in ctx[c].targets /\ k # None /\ surf[s].index = k
  BY HeldSlot, SlotFacts, ConstantAssumption DEF IInv, TypeOK, GbmMode, Holds
<1>2. CASE \E a \in Contexts, t \in Surfaces : BeginPicture(a, t)
  <2>1. PICK a \in Contexts, t \in Surfaces : BeginPicture(a, t)
    BY <1>2
  <2>2. a \in live /\ LockFree /\ t \in ctx[a].targets
    BY <2>1 DEF BeginPicture, GbmMode, Decoder
  <2>3. PICK x : /\ \E q : x = [ctx[a] EXCEPT !.current = t, !.request = q]
                 /\ ctx' = [ctx EXCEPT ![a] =
                      IF (surf[t].index # None /\ ~ExpbufWanted) /\ ~Av1ModelActive(a)
                           /\ surf[t].index < x.allocd
                      THEN CapPoolPush(x, surf[t].index) ELSE x]
    BY <2>1 DEF BeginPicture
  <2>4. /\ x.current = t /\ x.allocd = ctx[a].allocd
        /\ \A j : /\ CapPoolPush(x, j).current = t
                  /\ j \in CapPoolPush(x, j).free
    BY <1>1, <2>3 DEF CapPoolPush, ContextRec
  <2>5. d = a /\ t = s
    BY <1>1, <2>3, <2>4
  <2>6. c = a
    BY <1>1, <2>2, <2>5 DEF IInv, SlotInv, TargetsDisjoint
  <2>7. k < ctx[a].allocd
    <3>1. InPool(surf, s, c)
      BY <1>1 DEF Holds, InPool
    <3>2. QED  BY <1>1, <2>2, <2>6, <3>1, IdlePools DEF PoolOK, HoldersOK
  <2>8. QED  BY <1>1, <2>3, <2>4, <2>5, <2>6, <2>7
<1>3. CASE KeepsCurrent
  <2>1. d \notin live'
    BY <1>1, <1>3 DEF KeepsCurrent
  <2>2. \E a \in Contexts : DestroyContext(a)
    BY <1>1, <2>1 DEF Next, CreateSurface, DestroySurfaces, SyncSurface, ExportSurface,
       CreateContext, CreateContextFails, EndPicture, BeginPicture, Prepare, Start, Submit,
       Wait, Attach, EnsureCapture, Succeed, Fail, Finish, Goto
  <2>3. ctx'[d].current = NoSurface
    BY <1>1, <2>1, <2>2 DEF DestroyContext, ClosedContext
  <2>4. QED  BY <1>1, <2>3
<1>4. CASE \E t \in Surfaces : CreateSurface(t) \/ SyncSurface(t) \/ DestroySurfaces(t)
  <2>1. CASE \E t \in Surfaces : CreateSurface(t) \/ SyncSurface(t)
    BY <2>1 DEF CreateSurface, SyncSurface
  <2>2. ASSUME NEW t \in Surfaces, DestroySurfaces(t)
        PROVE  ctx'[d].current \in {ctx[d].current, NoSurface}
    <3>1. ctx[d] \in ContextRec /\ ctx'[d] = DetachSurface(d, t)
      BY <1>1, <2>2 DEF DestroySurfaces
    <3>2. QED  BY <3>1 DEF DetachSurface, CapPoolPush, ContextRec
  <2>3. QED  BY <1>1, <1>4, <2>1, <2>2
<1>5. CASE \E t \in Surfaces : ExportSurface(t)
  BY <1>1, <1>5 DEF ExportSurface
<1>6. CASE \/ \E a \in Contexts : EndPicture(a) \/ CreateContext(a)
                                   \/ CreateContextFails(a) \/ DestroyContext(a)
           \/ Prepare \/ Start \/ Submit \/ Wait \/ Attach
  <2>1. KeepsCurrent
    BY <1>1, <1>6, CurrentEndPicture, CurrentContexts, CurrentPrepare, CurrentStart,
       CurrentSubmit, CurrentWait, CurrentAttach DEF EndPicture
  <2>2. QED  BY <1>3, <2>1
<1>7. QED  BY <1>2, <1>4, <1>5, <1>6 DEF Next

(* "If this surface still holds a decoded capture buffer, return it to the *)
(* free pool" (v4l2sl_begin_picture): with decoders only, a surface that   *)
(* becomes a target gives its slot back to the pool it came from, unless   *)
(* the AV1 model will.                                                     *)
THEOREM RetargetedSlotsReturn ==
  ASSUME GbmMode, \A c \in Contexts : Decoder(c)
  PROVE  Spec => RetargetedSlotReturned
<1>1. IInv /\ [Next]_vars =>
        \A c \in live, k \in Slots, s \in Surfaces :
          /\ Holds(s, c, k)
          /\ \E d \in live : ctx[d].current # s /\ ctx'[d].current = s
          => \/ surf'[s].index = k
             \/ k \in ctx'[c].free
             \/ Av1ModelActive(c)
  <2> SUFFICES ASSUME IInv, [Next]_vars, NEW c \in live, NEW k \in Slots,
                      NEW s \in Surfaces, Holds(s, c, k), NEW d \in live,
                      ctx[d].current # s, ctx'[d].current = s
               PROVE  k \in ctx'[c].free \/ Av1ModelActive(c)
    OBVIOUS
  <2>1. Next
    BY DEF vars
  <2>2. QED  BY <2>1, RetargetStep
<1>2. QED  BY <1>1, RecordsInductive, PTL DEF Spec, RetargetedSlotReturned

(* A slot the driver cannot map (of AV1's 40 all but 24, for whatever two  *)
(* numbers the build sets) is in nobody's hands: no list, surface, frame   *)
(* or reference names it.  A timeout of an AV1 picture lists it            *)
(* (README.md, section 5), and Av1Quiet leaves that out.                   *)
THEOREM SlotsStayMappable ==
  ASSUME GbmMode, Av1Quiet
  PROVE  Spec => []SlotsMappable
<1>1. IInv /\ RInv /\ Mappable => SlotsMappable
  <2> SUFFICES ASSUME IInv, RInv, Mappable, NEW c \in live, NEW k \in Slots,
                      \/ k \in ctx[c].free
                      \/ \E s \in Surfaces : Holds(s, c, k)
                      \/ InFlight(c, k)
                      \/ \E r \in Refs : ctx[c].slotBuf[r] = k
               PROVE  k < NumCap /\ k < ctx[c].allocd
    BY DEF SlotsMappable
  <2>1. /\ PoolOK(c, ctx[c], surf, FlightSlot(c)) /\ BoundsOK(c, ctx[c])
        /\ k # None
    BY SlotFacts DEF IInv, SlotInv, PoolsOK, RInv, RecordsOK, RecordOK
  <2>2. CASE k \in ctx[c].free \/ \E r \in Refs : ctx[c].slotBuf[r] = k
    BY <2>1, <2>2 DEF BoundsOK
  <2>3. CASE InFlight(c, k)
    <3>1. FlightSlot(c) = k /\ k < NumCap
      BY <2>3 DEF InFlight, FlightSlot, RInv, PictureOK
    <3>2. QED  BY <2>1, <3>1 DEF PoolOK, FlightOK
  <2>4. CASE \E s \in Surfaces : Holds(s, c, k)
    <3>1. PICK s \in Surfaces : Holds(s, c, k)
      BY <2>4
    <3>2. InPool(surf, s, c) /\ surf[s].index = k
      BY <2>1, <3>1 DEF Holds, InPool
    <3>3. QED  BY <2>1, <3>2 DEF PoolOK, HoldersOK, Mappable
  <2>5. QED  BY <2>2, <2>3, <2>4
<1>2. QED  BY <1>1, RecordsInductive, PTL

=============================================================================
