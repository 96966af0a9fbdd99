---------------------------- MODULE DecodeSlots ----------------------------
(***************************************************************************)
(* Who owns which V4L2 buffer.  The driver keeps, per decode context, a    *)
(* pool of CAPTURE slots (decoded frames) and a pool of OUTPUT slots       *)
(* (bitstream), and per surface the index of the CAPTURE slot it holds.    *)
(* Nothing but these three records says whether a slot may be reused, so a *)
(* slot that is free and held, or neither, is a wrong picture or a pool    *)
(* that drains.                                                            *)
(*                                                                         *)
(* g_v4l2sl_lock is held for a whole entry point.  vaEndPicture is the one *)
(* entry point with many exits; it is split into the steps Prepare, Start, *)
(* Submit, Wait and Attach, chained by "call", and no other entry point    *)
(* runs while call.at is not "idle".                                       *)
(*                                                                         *)
(* A free list is a LIFO array that refuses duplicates and indices out of  *)
(* range; it is modelled by the set of its members, and a pop takes any of *)
(* them.                                                                   *)
(***************************************************************************)
EXTENDS Integers, FiniteSets

CONSTANTS
  Surfaces,      \* surface IDs
  Contexts,      \* context IDs
  Codec,         \* Codec[c]: what the context's config decodes
  NumCap,        \* V4L2SL_NUM_CAPTURE_BUFS: slots listed free and mappable
  NumCapAV1,     \* V4L2SL_NUM_CAPTURE_BUFS_AV1: slots requested for AV1
  SmallCap,      \* what a REQBUFS under memory pressure still grants
  NumOut,        \* V4L2SL_NUM_OUTPUT_BUFS
  Refs,          \* AV1 reference slots (V4L2_AV1_TOTAL_REFS_PER_FRAME)
  ExpbufWanted,  \* V4L2SL_EXPBUF_EXPORT is not "0"
  ListedOnly,    \* clients decode only onto the decode context's own
                 \* render_targets; no two decode contexts share one
  Events,        \* what the kernel and the stream may do in this instance
  NoSurface, NoContext

RequestCodecs == {"H264", "HEVC", "AV1", "VP8", "MPEG2"}
M2MCodecs == {"JPEG", "VPP"}

(* No CAPTURE queue before the first picture: rkvdec refuses an SPS that   *)
(* changes the picture format while CAPTURE buffers exist.                 *)
CaptureDeferred == {"H264"}

(* Queues stream from creation on; the others wait for the first picture.  *)
StreamsAtCreate == {"VP8"}

(* The translators that test "done_cap < 0" before "done_cap == -2": a     *)
(* corrupt frame is an error there, and "skipped" for the others.          *)
CorruptFails == {"H264", "HEVC"}

AllEvents ==
  { "resize",        \* the stream outgrows the CAPTURE buffers
    "reqbufs_zero",  \* REQBUFS(0) on CAPTURE fails
    "out_rebuild",   \* rebuilding the OUTPUT queue fails
    "reqalloc",      \* MEDIA_IOC_REQUEST_ALLOC fails
    "streamon",      \* STREAMON fails
    "reject",        \* bad parameters, a refused control, too much data
    "qbuf_out", "qbuf_cap",
    "timeout",       \* request not queued, no completion in 3 s, DQBUF fails
    "corrupt",       \* V4L2_BUF_FLAG_ERROR on the CAPTURE buffer
    "late_out",      \* the OUTPUT buffer is not done when the frame is
    "reinit",        \* MEDIA_REQUEST_IOC_REINIT fails
    "pull",          \* mapping or snapshotting the CAPTURE slot fails
    "expbuf",        \* VIDIOC_EXPBUF fails
    "obu", "no_obu" } \* AV1: frame header found, or not, in the slice data

ASSUME ConstantAssumption ==
  /\ NoSurface \notin Surfaces
  /\ NoContext \notin Contexts
  /\ Codec \in [Contexts -> RequestCodecs \cup M2MCodecs]
  /\ NumCap \in Nat \ {0} /\ NumCapAV1 \in Nat \ {0} /\ SmallCap \in Nat \ {0}
  /\ NumCap <= NumCapAV1 /\ SmallCap <= NumCap
  /\ NumOut \in Nat \ {0}
  /\ ExpbufWanted \in BOOLEAN /\ ListedOnly \in BOOLEAN
  /\ Events \subseteq AllEvents

VARIABLES
  surf,   \* surf[s]: struct v4l2sl_surface, the fields about its CAPTURE slot
  ctx,    \* ctx[c]:  struct v4l2sl_context, pools, queues and AV1 model
  live,   \* the contexts on driver_data->contexts
  call    \* the vaEndPicture in progress: where it is and what it holds;
          \* when idle, what the last one returned

vars == <<surf, ctx, live, call>>

Slots == 0 .. NumCapAV1 - 1
OutSlots == 0 .. NumOut - 1
None == -1

(***************************************************************************)
(* surf[s].from is not in the code: the context whose pool index came from *)
(* (a bare index says nothing of it).                                      *)
(***************************************************************************)
SurfaceRec ==
  [alive: BOOLEAN, index: Slots \cup {None}, from: Contexts \cup {NoContext},
   status: {"Ready", "Rendering", "Skipped"},
   expbuf: (Contexts \X Slots) \cup {<<>>}]

(***************************************************************************)
(* ctx[c].kdpb and ctx[c].pixels are not in the code: the slots the kernel *)
(* AV1 driver still predicts from, and whose picture a slot's memory       *)
(* holds.  done holds the OUTPUT slots the kernel has finished with and    *)
(* nobody has dequeued.                                                    *)
(***************************************************************************)
ContextRec ==
  [targets: SUBSET Surfaces, current: Surfaces \cup {NoSurface},
   allocd: 0 .. NumCapAV1, free: SUBSET Slots,
   outAllocd: 0 .. NumOut, freeOut: SUBSET OutSlots, done: SUBSET OutSlots,
   streamed: BOOLEAN, request: {"none", "ready", "stuck"},
   active: BOOLEAN, slotBuf: [Refs -> Slots \cup {None}],
   owner: [Slots -> Surfaces \cup {NoSurface}],
   kdpb: [Refs -> Slots \cup {None}],
   pixels: [Slots -> Surfaces \cup {NoSurface}]]

CallRec ==
  [at: {"idle", "prepare", "start", "submit", "wait", "attach"},
   ctx: Contexts \cup {NoContext}, out: OutSlots \cup {None},
   cap: Slots \cup {None}, refresh: SUBSET Refs, bad: BOOLEAN,
   ret: {"success", "error"}]

Idle == [at |-> "idle", ctx |-> NoContext, out |-> None, cap |-> None,
         refresh |-> {}, bad |-> FALSE, ret |-> "success"]

NewSurface == [alive |-> TRUE, index |-> None, from |-> NoContext,
               status |-> "Ready", expbuf |-> <<>>]

NoSurfaceRec == [NewSurface EXCEPT !.alive = FALSE]

ClosedContext ==
  [targets |-> {}, current |-> NoSurface, allocd |-> 0, free |-> {},
   outAllocd |-> 0, freeOut |-> {}, done |-> {}, streamed |-> FALSE,
   request |-> "none", active |-> FALSE, slotBuf |-> [r \in Refs |-> None],
   owner |-> [k \in Slots |-> NoSurface], kdpb |-> [r \in Refs |-> None],
   pixels |-> [k \in Slots |-> NoSurface]]

Init ==
  /\ surf = [s \in Surfaces |-> NoSurfaceRec]
  /\ ctx = [c \in Contexts |-> ClosedContext]
  /\ live = {}
  /\ call = Idle

-----------------------------------------------------------------------------
(* Helpers on a context record x and on the surface table f.               *)

(* Mutant: the capacity test of the push is off by one.                    *)
CapPoolPushFull(x, k) ==
  IF Cardinality(x.free) >= NumCap - 1 THEN x ELSE [x EXCEPT !.free = @ \cup {k}]

CapPoolPush(x, k) == [x EXCEPT !.free = @ \cup {k}]
OutPoolPush(x, o) == [x EXCEPT !.freeOut = @ \cup {o}]

Unheld(f, S) ==
  [s \in Surfaces |-> IF s \in S /\ f[s].alive
                      THEN [f[s] EXCEPT !.index = None, !.from = NoContext]
                      ELSE f[s]]

ReleaseCtxCaptureSurfaces(x) == Unheld(surf, x.targets)

Av1ModelActive(c) == Codec[c] = "AV1" /\ ctx[c].active

DpbModelReset(x) ==
  [x EXCEPT !.active = FALSE, !.slotBuf = [r \in Refs |-> None],
            !.owner = [k \in Slots |-> NoSurface]]

(* STREAMOFF on both queues: the kernel gives every buffer back and drops  *)
(* its references.                                                         *)
StreamOff(x) ==
  [x EXCEPT !.streamed = FALSE, !.done = {}, !.kdpb = [r \in Refs |-> None]]

(* Mutant: the claims of the render targets are not looked at.             *)
RebuildAllFree(x) ==
  [x EXCEPT !.freeOut = 0 .. x.outAllocd - 1, !.free = 0 .. x.allocd - 1]

RebuildFreePools(x) ==
  [x EXCEPT !.freeOut = 0 .. x.outAllocd - 1,
            !.free = {k \in 0 .. x.allocd - 1 :
                        \A s \in x.targets : surf[s].alive => surf[s].index # k}]

DecodeReset(x) ==
  RebuildFreePools([DpbModelReset(StreamOff(x)) EXCEPT !.request = "none"])

(* The slots a capture REQBUFS may grant.                                  *)
CapGrants(c) ==
  {IF Codec[c] = "AV1" THEN NumCapAV1 ELSE NumCap, SmallCap}

(* ensure_capture up to REQBUFS(0): stop the queues, forget what the       *)
(* render targets hold.                                                    *)
CaptureStopped(x) == IF x.streamed THEN DpbModelReset(StreamOff(x)) ELSE x

(* Mutants: the loop runs one slot too far, or over all slots granted.     *)
CaptureQueueAll(x, n) ==
  [x EXCEPT !.allocd = n, !.free = 0 .. n - 1, !.pixels = [k \in Slots |-> NoSurface]]

CaptureQueueLong(x, n) ==
  [x EXCEPT !.allocd = n, !.free = 0 .. n, !.pixels = [k \in Slots |-> NoSurface]]

(* ... and the new queue of n slots, of which NumCap at most are listed.   *)
CaptureQueue(x, n) ==
  [x EXCEPT !.allocd = n, !.free = {k \in 0 .. n - 1 : k < NumCap},
            !.pixels = [k \in Slots |-> NoSurface]]

(* The OUTPUT queue is rebuilt when its format is smaller than the stream. *)
OutputQueues(x) ==
  {x} \cup (IF x.outAllocd = 0 THEN {}
            ELSE {[x EXCEPT !.freeOut = OutSlots, !.outAllocd = NumOut]}
                 \cup IF "out_rebuild" \in Events
                      THEN {[x EXCEPT !.freeOut = {}, !.outAllocd = 0]}
                      ELSE {})

-----------------------------------------------------------------------------
(* Surfaces and contexts.                                                  *)

LockFree == call.at = "idle"

CreateSurface(s) ==
  /\ LockFree
  /\ ~surf[s].alive
  /\ surf' = [surf EXCEPT ![s] = NewSurface]
  /\ UNCHANGED <<ctx, live, call>>

(* Mutants: the slot is not handed back; it is handed to every context;    *)
(* current_surface is left dangling.                                       *)
DetachKeepsSlot(c, s) ==
  [ctx[c] EXCEPT !.targets = @ \ {s},
                 !.current = IF @ = s THEN NoSurface ELSE @]

DetachUnlisted(c, s) ==
  [ctx[c] EXCEPT !.targets = @ \ {s},
                 !.free = IF surf[s].index \in 0 .. ctx[c].allocd - 1
                          THEN @ \cup {surf[s].index} ELSE @,
                 !.current = IF @ = s THEN NoSurface ELSE @]

DetachDangling(c, s) == [ctx[c] EXCEPT !.targets = @ \ {s}]

(* What vaDestroySurfaces does to one context: take the surface off its    *)
(* render targets and give a slot it holds back - unless the AV1 model     *)
(* owns the release, which only forgets the owner.                         *)
DetachSurface(c, s) ==
  LET x == ctx[c]
      k == surf[s].index
      held == s \in x.targets /\ k # None /\ k < x.allocd
  IN  [x EXCEPT !.targets = @ \ {s},
                !.free = IF held /\ ~Av1ModelActive(c) THEN @ \cup {k} ELSE @,
                !.owner = IF held /\ Av1ModelActive(c)
                          THEN [@ EXCEPT ![k] = NoSurface] ELSE @,
                !.current = IF @ = s THEN NoSurface ELSE @]

DestroySurfaces(s) ==
  /\ LockFree
  /\ surf[s].alive
  /\ ctx' = [c \in Contexts |-> IF c \in live THEN DetachSurface(c, s) ELSE ctx[c]]
  /\ surf' = [surf EXCEPT ![s] = NoSurfaceRec]
  /\ UNCHANGED <<live, call>>

(* H.264 allocates no CAPTURE queue before its first picture; VP8 alone    *)
(* streams on at once; JPEG and VPP contexts have no decode queues.        *)
NewContext(c, T, n, on) ==
  LET x == [ClosedContext EXCEPT !.targets = T]
      y == [x EXCEPT !.outAllocd = NumOut, !.freeOut = OutSlots]
  IN  IF Codec[c] \in M2MCodecs THEN x
      ELSE IF Codec[c] \in CaptureDeferred THEN y
      ELSE [CaptureQueue(y, n) EXCEPT !.streamed = Codec[c] \in StreamsAtCreate /\ on]

(* The render targets a client may list: surfaces of no other decoder.     *)
Listable(c) ==
  {T \in SUBSET {s \in Surfaces : surf[s].alive} :
     ListedOnly /\ Codec[c] \notin M2MCodecs =>
       \A d \in live : Codec[d] \notin M2MCodecs => T \cap ctx[d].targets = {}}

CreateContext(c) ==
  /\ LockFree
  /\ c \notin live
  /\ \E T \in Listable(c) :
       /\ \E n \in CapGrants(c), on \in {TRUE, "streamon" \notin Events} :
            ctx' = [ctx EXCEPT ![c] = NewContext(c, T, n, on)]
       /\ surf' = IF Codec[c] \in M2MCodecs \cup CaptureDeferred THEN surf
                  ELSE Unheld(surf, T)
  /\ live' = live \cup {c}
  /\ UNCHANGED call

(* A creation that fails after the device was opened releases the device,  *)
(* and with it whatever the listed surfaces hold.                          *)
CreateContextFails(c) ==
  /\ LockFree
  /\ c \notin live
  /\ \E T \in Listable(c) : surf' = Unheld(surf, T)
  /\ UNCHANGED <<ctx, live, call>>

DestroyContext(c) ==
  /\ LockFree
  /\ c \in live
  /\ surf' = ReleaseCtxCaptureSurfaces(ctx[c])
  /\ ctx' = [ctx EXCEPT ![c] = ClosedContext]
  /\ live' = live \ {c}
  /\ UNCHANGED call

-----------------------------------------------------------------------------
(* One picture.                                                            *)

(* The VA-API contract: a client does not decode onto a surface it still   *)
(* predicts from.                                                          *)
Referenced(c, s) ==
  \E r \in Refs : LET k == ctx[c].kdpb[r]
                 IN  k # None /\ ctx[c].pixels[k] = s

BeginPicture(c, s) ==
  /\ LockFree
  /\ c \in live /\ surf[s].alive
  /\ ListedOnly /\ Codec[c] \notin M2MCodecs => s \in ctx[c].targets
  /\ ~Referenced(c, s)
  /\ \E req \in {"ready"} \cup (IF "reqalloc" \in Events THEN {"none"} ELSE {}) :
       LET k == surf[s].index
           x == [ctx[c] EXCEPT !.current = s,
                   !.request = IF @ = "none" /\ Codec[c] \notin M2MCodecs
                               THEN req ELSE @]
           recycle == k # None /\ ~ExpbufWanted
       IN  /\ ctx' = [ctx EXCEPT ![c] =
                        IF recycle /\ ~Av1ModelActive(c) /\ k < x.allocd
                        THEN CapPoolPush(x, k) ELSE x]
           /\ surf' = IF recycle THEN Unheld(surf, {s}) ELSE surf
  /\ UNCHANGED <<live, call>>

(* Every exit of vaEndPicture: the surface's status, no current surface.   *)
Finish(c, x, f, st, ret) ==
  /\ ctx' = [ctx EXCEPT ![c] = [x EXCEPT !.current = NoSurface]]
  /\ surf' = [f EXCEPT ![x.current].status = st]
  /\ call' = [Idle EXCEPT !.ret = ret]
  /\ UNCHANGED live

(* A failed translation also closes the request.                           *)
Fail(c, x, f) ==
  Finish(c, [x EXCEPT !.request = "none"], f, "Skipped", "error")

(* A successful one ends with status Rendering, whatever the translator    *)
(* had set.                                                                *)
Succeed(c, x, f) == Finish(c, x, f, "Rendering", "success")

Goto(c, x, f, next) ==
  /\ ctx' = [ctx EXCEPT ![c] = x]
  /\ surf' = f
  /\ call' = next
  /\ UNCHANGED live

EndPicture(c) ==
  /\ LockFree
  /\ c \in live /\ ctx[c].current # NoSurface
  /\ LET x == ctx[c] IN
     \/ /\ Codec[c] \in M2MCodecs
        /\ \/ Finish(c, x, surf, "Ready", "success")
           \/ Finish(c, x, surf, "Skipped", "error")
     \/ /\ Codec[c] \notin M2MCodecs
        /\ x.request = "none"
        /\ Finish(c, x, surf, "Ready", "success")
     \/ /\ Codec[c] \notin M2MCodecs
        /\ x.request # "none"
        /\ Goto(c, x, surf, [Idle EXCEPT !.at = "prepare", !.ctx = c])

(* AV1 submits refresh_frame_flags, taken from the frame header when one   *)
(* is in the slice data; only then does the slot model take over.          *)
Headers(c, x) ==
  IF Codec[c] # "AV1" THEN {[x |-> x, refresh |-> {}]}
  ELSE {[x |-> [x EXCEPT !.active = @ \/ obu], refresh |-> f] :
          obu \in {b \in BOOLEAN : (IF b THEN "obu" ELSE "no_obu") \in Events},
          f \in SUBSET Refs}

(* ensure_capture: nothing to do when the queue fits; otherwise stop, drop *)
(* the queue and allocate another.  A REQBUFS(0) that fails leaves the old *)
(* queue, and a new one that fails leaves none.                            *)
EnsureCapture(c, x, next) ==
  \/ x.allocd > 0 /\ Goto(c, x, surf, next)
  \/ /\ "resize" \in Events \/ x.allocd = 0
     /\ LET y == CaptureStopped(x)
            f == ReleaseCtxCaptureSurfaces(x)
        IN  \/ /\ "reqbufs_zero" \in Events /\ y.allocd > 0
               /\ Fail(c, y, f)
            \/ \E z \in OutputQueues(y) :
                 \/ Fail(c, CaptureQueue(z, 0), f)
                 \/ \E n \in CapGrants(c) : Goto(c, CaptureQueue(z, n), f, next)

(* A translator up to ensure_capture: the buffers are collected, the       *)
(* headers parsed, the sequence control set.                               *)
Prepare ==
  /\ call.at = "prepare"
  /\ LET c == call.ctx IN
     \/ "reject" \in Events /\ Fail(c, ctx[c], surf)
     \/ \E h \in Headers(c, ctx[c]) :
          \/ "reject" \in Events /\ Fail(c, h.x, surf)
          \/ EnsureCapture(c, h.x, [call EXCEPT !.at = "start", !.refresh = h.refresh])

(* ... and up to decode_submit: STREAMON, the picture's controls, a slot   *)
(* for the bitstream.                                                      *)
Start ==
  /\ call.at = "start"
  /\ LET c == call.ctx
         x == [ctx[c] EXCEPT !.streamed = TRUE]
     IN
     \/ /\ "streamon" \in Events /\ ~ctx[c].streamed
        /\ Fail(c, ctx[c], surf)
     \/ /\ "reject" \in Events \/ x.request = "stuck" \/ x.freeOut = {}
        /\ Fail(c, x, surf)
     \/ /\ x.request # "stuck"
        /\ \E o \in x.freeOut :
             Goto(c, [x EXCEPT !.freeOut = @ \ {o}], surf,
                  [call EXCEPT !.at = "submit", !.out = o])

(* Mutant: always a new slot, as in the GBM mode.                          *)
CaptureChoicesFresh(x) == x.free

(* decode_submit reuses the slot an exported surface holds, and pops one   *)
(* otherwise.                                                              *)
CaptureChoices(x) ==
  LET own == surf[x.current].index
  IN  IF ExpbufWanted /\ own # None THEN {own} ELSE x.free

Submit ==
  /\ call.at = "submit"
  /\ LET c == call.ctx
         o == call.out
     IN
     \/ /\ CaptureChoices(ctx[c]) = {}
        /\ Fail(c, OutPoolPush(ctx[c], o), surf)
     \/ \E k \in CaptureChoices(ctx[c]) :
          LET x == IF surf[ctx[c].current].index = k /\ ExpbufWanted THEN ctx[c]
                   ELSE [ctx[c] EXCEPT !.free = @ \ {k}]
          IN
          \/ /\ "qbuf_out" \in Events
             /\ Fail(c, CapPoolPush(OutPoolPush(x, o), k), surf)
          \/ /\ "qbuf_cap" \in Events \/ k >= x.allocd
             /\ LET y == CapPoolPush(x, k) IN
                \/ y.done = {} /\ Fail(c, y, surf)
                \/ \E d \in y.done :
                     Fail(c, OutPoolPush([y EXCEPT !.done = @ \ {d}], d), surf)
          \/ /\ k < x.allocd
             /\ Goto(c, x, surf, [call EXCEPT !.at = "wait", !.cap = k])

(* Mutant: the dequeued bitstream slot is not pushed back.                 *)
DequeuedDropped(x, o) ==
  LET D == x.done \cup {o}
  IN  {[x EXCEPT !.done = D \ {d}] : d \in D}

(* The bitstream slots DQBUF can return: the oldest unclaimed one first.   *)
Dequeued(x, o) ==
  LET D == x.done \cup {o}
      one == IF x.done = {} THEN {o} ELSE x.done
  IN  {[x EXCEPT !.freeOut = @ \cup {d}, !.done = D \ {d}] : d \in one}
      \cup IF x.done = {} /\ "late_out" \in Events
           THEN {[x EXCEPT !.done = D]} ELSE {}

(* The decoder writes the slot; the kernel AV1 driver enters the frame in  *)
(* its reference table.                                                    *)
Decoded(x, k, refresh) ==
  [x EXCEPT !.pixels = [j \in Slots |->
                          IF j = k THEN x.current
                          ELSE IF @[j] = x.current THEN NoSurface ELSE @[j]],
            !.kdpb = [r \in Refs |-> IF r \in refresh THEN k ELSE @[r]]]

Spoiled(x, k) == [x EXCEPT !.pixels = [@ EXCEPT ![k] = NoSurface]]

Wait ==
  /\ call.at = "wait"
  /\ LET c == call.ctx
         k == call.cap
     IN
     \/ /\ "timeout" \in Events
        /\ Fail(c, DecodeReset(Spoiled(ctx[c], k)), surf)
     \/ \E bad \in {b \in BOOLEAN : b => "corrupt" \in Events},
          req \in {"ready"} \cup
                  (IF "reinit" \in Events THEN {"none", "stuck"} ELSE {}) :
        \E x \in Dequeued(IF bad THEN CapPoolPush(Spoiled(ctx[c], k), k)
                          ELSE Decoded(ctx[c], k, call.refresh), call.out) :
          Goto(c, [x EXCEPT !.request = req], surf,
               [call EXCEPT !.at = "attach", !.bad = bad])

(* Mutants: no "still referenced" test; the slot is not pushed; the old    *)
(* owner keeps its index.                                                  *)
ReleaseEager(x, k, refresh) ==
  LET old == IF refresh = {} THEN {k}
             ELSE {x.slotBuf[r] : r \in refresh} \ {None, k}
  IN  [x     |-> [x EXCEPT !.slotBuf = [r \in Refs |-> IF r \in refresh THEN k ELSE @[r]],
                           !.free = @ \cup old, !.owner = [@ EXCEPT ![k] = x.current]],
       loses |-> [j \in old |-> IF j = k THEN x.current ELSE x.owner[j]]]

ReleaseKeepsOwner(x, k, refresh) ==
  [x     |-> [x EXCEPT !.slotBuf = [r \in Refs |-> IF r \in refresh THEN k ELSE @[r]],
                       !.free = @ \cup IF refresh = {} THEN {k}
                                ELSE {x.slotBuf[r] : r \in refresh}
                                     \ ({None, k} \cup {x.slotBuf[r] : r \in Refs \ refresh})],
   loses |-> [j \in {} |-> NoSurface]]

(* av1_release_unrefd: the slots that the new frame pushes out of the      *)
(* model's reference table go back to the pool, and the surfaces that      *)
(* still name them lose them; a frame nobody will predict from goes back   *)
(* at once.                                                                *)
ReleaseUnrefd(x, k, refresh) ==
  LET slotBuf == [r \in Refs |-> IF r \in refresh THEN k ELSE x.slotBuf[r]]
      old == IF refresh = {} THEN {k}
             ELSE {x.slotBuf[r] : r \in refresh}
                  \ ({None, k} \cup {slotBuf[r] : r \in Refs})
      owner == [x.owner EXCEPT ![k] = x.current]
  IN  [x     |-> [x EXCEPT !.slotBuf = slotBuf, !.free = @ \cup old,
                           !.owner = [j \in Slots |-> IF j \in old THEN NoSurface
                                                      ELSE owner[j]]],
       loses |-> [j \in old |-> owner[j]]]

(* surface_pull_capture: the surface now holds slot k of context c.        *)
PullCapture(s, c, k) == [surf EXCEPT ![s].index = k, ![s].from = c]

Attach ==
  /\ call.at = "attach"
  /\ LET c == call.ctx
         k == call.cap
         x == ctx[c]
         f == PullCapture(x.current, c, k)
         rel == ReleaseUnrefd(x, k, call.refresh)
     IN
     \/ /\ call.bad
        /\ IF Codec[c] \in CorruptFails THEN Fail(c, x, surf)
           ELSE Succeed(c, x, surf)
     \/ /\ ~call.bad
        /\ "pull" \in Events \/ k >= NumCap
        /\ Succeed(c, CapPoolPush(x, k), surf)
     \/ /\ ~call.bad /\ k < NumCap
        /\ IF Av1ModelActive(c)
           THEN Succeed(c, rel.x,
                        Unheld(f, {s \in Surfaces : \E j \in DOMAIN rel.loses :
                                     rel.loses[j] = s /\ f[s].index = j}))
           ELSE Succeed(c, x, f)

SyncSurface(s) ==
  /\ LockFree
  /\ surf[s].alive
  /\ surf' = [surf EXCEPT ![s].status = "Ready"]
  /\ UNCHANGED <<ctx, live, call>>

-----------------------------------------------------------------------------
(* vaExportSurfaceHandle.                                                  *)

(* Surface s holds slot k of context c.                                    *)
Holds(s, c, k) == surf[s].alive /\ surf[s].index = k /\ surf[s].from = c

(* context_owning_capture: the first context that lists the surface, be it *)
(* a JPEG or VPP context; for a surface never listed, the context it       *)
(* decoded in (known by its mapping), or else the first decode context.    *)
(* Which is first on driver_data->contexts is left open.                   *)
OwningContexts(s) ==
  LET listing == {c \in live : s \in ctx[c].targets}
  IN  IF listing # {} THEN listing
      ELSE IF \E c \in live : \E k \in Slots :
                  Holds(s, c, k) /\ ctx[c].pixels[k] = s
      THEN {surf[s].from}
      ELSE {c \in live : Codec[c] \notin M2MCodecs}

(* claim_capture_for_export: a surface without a slot needs a queue, which *)
(* is allocated if no picture has done so.                                 *)
NeedsQueue(s, c) == surf[s].index = None /\ ctx[c].allocd = 0

ClaimQueues(s, c) ==
  IF NeedsQueue(s, c)
  THEN {CaptureQueue(z, n) : z \in OutputQueues(CaptureStopped(ctx[c])),
                             n \in CapGrants(c) \cup {0}}
  ELSE {ctx[c]}

(* What surf->expbuf_fd stands for after VIDIOC_EXPBUF of slot k: that     *)
(* buffer, or what it was when there is no such buffer or the ioctl fails. *)
(* On the device of a JPEG or VPP context both can be: its jobs request    *)
(* buffers of their own there.                                             *)
ExpbufFd(s, c, x, k) ==
  LET m2m == Codec[c] \in M2MCodecs
  IN  (IF m2m \/ k < x.allocd THEN {<<c, k>>} ELSE {})
      \cup (IF m2m \/ k >= x.allocd \/ "expbuf" \in Events
            THEN {surf[s].expbuf} ELSE {})

(* ... and takes one of its free slots.  A failing EXPBUF leaves the       *)
(* claim.  Without a slot, and after a failing EXPBUF, the client gets the *)
(* GBM buffer or the memfd, which touches no slot.                         *)
ClaimAndExport(s, c, x, f) ==
  \/ /\ surf[s].index = None /\ x.free = {}
     /\ ctx' = [ctx EXCEPT ![c] = x]
     /\ surf' = f
  \/ \E k \in IF surf[s].index = None THEN x.free ELSE {surf[s].index} :
     \E fd \in ExpbufFd(s, c, x, k) :
       /\ ctx' = [ctx EXCEPT ![c] =
                    IF surf[s].index = None THEN [x EXCEPT !.free = @ \ {k}] ELSE x]
       /\ surf' = [f EXCEPT ![s].index = k, ![s].expbuf = fd,
                            ![s].from = IF surf[s].index = None THEN c ELSE @]

ExportSurface(s) ==
  /\ LockFree
  /\ ExpbufWanted /\ surf[s].alive
  /\ ListedOnly => \E c \in live : s \in ctx[c].targets
  /\ \E c \in OwningContexts(s) : \E x \in ClaimQueues(s, c) :
       ClaimAndExport(s, c, x, IF NeedsQueue(s, c)
                               THEN ReleaseCtxCaptureSurfaces(ctx[c]) ELSE surf)
  /\ UNCHANGED <<live, call>>

Next ==
  \/ \E s \in Surfaces : CreateSurface(s) \/ DestroySurfaces(s)
                          \/ SyncSurface(s) \/ ExportSurface(s)
  \/ \E c \in Contexts : CreateContext(c) \/ CreateContextFails(c)
                          \/ DestroyContext(c) \/ EndPicture(c)
  \/ \E c \in Contexts, s \in Surfaces : BeginPicture(c, s)
  \/ Prepare \/ Start \/ Submit \/ Wait \/ Attach

Spec == Init /\ [][Next]_vars

-----------------------------------------------------------------------------
(* What must hold.                                                         *)

(* Every record has its shape; a vaEndPicture in progress has a context, a *)
(* current surface and, past their choice, an OUTPUT and a CAPTURE slot.   *)
TypeOK ==
  /\ surf \in [Surfaces -> SurfaceRec]
  /\ ctx \in [Contexts -> ContextRec]
  /\ live \subseteq Contexts
  /\ call \in CallRec
  /\ call.at # "idle" => call.ctx \in live /\ ctx[call.ctx].current \in Surfaces
  /\ call.at \in {"submit", "wait", "attach"} => call.out \in OutSlots
  /\ call.at \in {"wait", "attach"} => call.cap \in Slots

(* current_surface is a raw pointer that vaDestroySurfaces must clear in   *)
(* every context, between vaBeginPicture and vaEndPicture too: it never    *)
(* names a freed surface.                                                  *)
CurrentSurfaceAlive ==
  \A c \in live : ctx[c].current # NoSurface => surf[ctx[c].current].alive

InFlight(c, k) ==
  call.ctx = c /\ call.cap = k /\ call.at \in {"wait", "attach"} /\ ~call.bad

(* "The free pools in the context never lie" (v4l2sl_h264_translate): a    *)
(* CAPTURE slot is never free while a surface holds it or the decoder      *)
(* writes it, and no two surfaces hold one slot.                           *)
SlotsExclusive ==
  \A c \in live, k \in Slots :
    /\ \A s \in Surfaces : Holds(s, c, k) => k \notin ctx[c].free
    /\ \A s, t \in Surfaces : Holds(s, c, k) /\ Holds(t, c, k) => s = t
    /\ InFlight(c, k) => /\ k \notin ctx[c].free
                         /\ \A s \in Surfaces : Holds(s, c, k) => s = ctx[c].current

(* "Destroying surfaced frames mid-session must not drain the pool"        *)
(* (v4l2sl_destroy_surfaces): every listed CAPTURE slot of a context is    *)
(* free, held by a surface, being decoded into, or an AV1 reference.       *)
SlotsAccounted ==
  \A c \in live, k \in Slots :
    k < ctx[c].allocd /\ k < NumCap =>
      \/ k \in ctx[c].free
      \/ \E s \in Surfaces : Holds(s, c, k)
      \/ InFlight(c, k)
      \/ Av1ModelActive(c) /\ \E r \in Refs : ctx[c].slotBuf[r] = k

(* "If this surface still holds a decoded capture buffer, return it to the *)
(* free pool" (v4l2sl_begin_picture): a surface that becomes a context's   *)
(* target keeps its slot or gives it back to the pool the slot came from;  *)
(* the AV1 model gives it back later.                                      *)
RetargetedSlotReturned ==
  [][\A c \in live, k \in Slots, s \in Surfaces :
       /\ Holds(s, c, k)
       /\ \E d \in live : ctx[d].current # s /\ ctx'[d].current = s
       => \/ surf'[s].index = k
          \/ k \in ctx'[c].free
          \/ Av1ModelActive(c)]_vars

(* decode_submit "returns -1 with both pools fully restored" (its contract *)
(* in v4l2stateless.h): between calls every OUTPUT slot is free, or done   *)
(* in the kernel and about to be dequeued by a later picture.              *)
OutputAccounted ==
  LockFree => \A c \in live, o \in OutSlots :
                o < ctx[c].outAllocd => o \in ctx[c].freeOut \cup ctx[c].done

(* Of the slots AV1 is granted (40) the driver can map the first NumCap    *)
(* (24: capture_buf_ptr is mapped and unmapped up to there).  No other is  *)
(* ever free, held, decoded into or a reference, and none that is outlives *)
(* its queue; a picture decoded into such a slot could not be read back.   *)
SlotsMappable ==
  \A c \in live, k \in Slots :
    \/ k \in ctx[c].free
    \/ \E s \in Surfaces : Holds(s, c, k)
    \/ InFlight(c, k)
    \/ \E r \in Refs : ctx[c].slotBuf[r] = k
    => k < NumCap /\ k < ctx[c].allocd

(* A corrupt frame does not fail vaEndPicture, because Chrome caches a     *)
(* failed entry point for the whole session.  Every translator has the     *)
(* branch and the comment; H.264 and HEVC never reach it (CorruptFails;    *)
(* README.md, section 5).                                                  *)
CorruptFrameSucceeds ==
  [][call.at = "attach" /\ call.bad => call'.ret = "success"]_vars

(* ... and the surface it was meant for is reported as skipped.            *)
CorruptFrameMarked ==
  [][call.at = "attach" /\ call.bad =>
       surf'[ctx[call.ctx].current].status = "Skipped"]_vars

(* A slot the kernel AV1 driver still predicts from is never handed out    *)
(* for a new frame (the purpose of the DPB model, av1_release_unrefd).     *)
KernelRefsNotFree ==
  \A c \in live, r \in Refs :
    ctx[c].kdpb[r] # None => ctx[c].kdpb[r] \notin ctx[c].free

(* Decoding never overwrites a picture that another surface still holds    *)
(* (decode_submit's choice of slot).                                       *)
NoForeignOverwrite ==
  [][\A c \in Contexts, k \in Slots, s \in Surfaces :
       /\ ctx[c].pixels[k] = s /\ Holds(s, c, k)
       /\ ctx'[c].pixels[k] # s
       => \/ ctx[c].current = s
          \/ surf'[s].index = None]_vars

(* Invariant 9 of docs/handbook/invariants.md: while a client may show the *)
(* dma-buf exported for a surface, the surface keeps that slot, until the  *)
(* surface or the queue itself goes.                                       *)
ExportedSlotKept ==
  [][\A c \in Contexts, k \in Slots, s \in Surfaces :
       surf[s].expbuf = <<c, k>> /\ Holds(s, c, k) =>
         \/ surf'[s].index = k /\ (k \in ctx'[c].free => k \in ctx[c].free)
         \/ ~surf'[s].alive
         \/ c \notin live'
         \/ call.at = "prepare" /\ surf'[s].index = None]_vars

=============================================================================
