------------------------- MODULE DecodeSlotsProofs -------------------------
(***************************************************************************)
(* The slot pools of DecodeSlots, for every instance: type correctness,    *)
(* the current_surface that never dangles, SlotsExclusive in the GBM-copy  *)
(* mode and in the EXPBUF mode, and ExportedSlotKept.                      *)
(***************************************************************************)
EXTENDS DecodeSlots, TLAPS

SurfTable == [Surfaces -> SurfaceRec]

LEMMA SlotFacts ==
  /\ NumCapAV1 \in Nat /\ NumCap \in Nat /\ SmallCap \in Nat /\ NumOut \in Nat
  /\ None \notin Slots /\ None \notin OutSlots
  /\ \A n \in 0 .. NumCapAV1 : 0 .. n - 1 \subseteq Slots
  /\ \A n \in 0 .. NumOut : 0 .. n - 1 \subseteq OutSlots
  /\ \A c \in Contexts : CapGrants(c) \subseteq 0 .. NumCapAV1
BY ConstantAssumption DEF Slots, OutSlots, None, CapGrants

LEMMA ConstantRecordTypes ==
  /\ Idle \in CallRec
  /\ NewSurface \in SurfaceRec /\ NoSurfaceRec \in SurfaceRec
  /\ ClosedContext \in ContextRec
<1>1. Idle \in CallRec
  BY DEF Idle, CallRec
<1>2. NewSurface \in SurfaceRec
  BY DEF NewSurface, SurfaceRec
<1>3. NoSurfaceRec \in SurfaceRec
  BY DEF NewSurface, NoSurfaceRec, SurfaceRec
<1>4. ClosedContext \in ContextRec
  <2>1. 0 \in 0 .. NumCapAV1 /\ 0 \in 0 .. NumOut
    BY SlotFacts
  <2>2. /\ [r \in Refs |-> None] \in [Refs -> Slots \cup {None}]
        /\ [k \in Slots |-> NoSurface] \in [Slots -> Surfaces \cup {NoSurface}]
    OBVIOUS
  <2>3. QED  BY <2>1, <2>2 DEF ClosedContext, ContextRec
<1>5. QED  BY <1>1, <1>2, <1>3, <1>4

LEMMA PushTypes ==
  ASSUME NEW x \in ContextRec
  PROVE  /\ \A k \in Slots : CapPoolPush(x, k) \in ContextRec
         /\ \A o \in OutSlots : OutPoolPush(x, o) \in ContextRec
BY DEF CapPoolPush, OutPoolPush, ContextRec

LEMMA UnheldType ==
  ASSUME NEW f \in SurfTable, NEW S
  PROVE  Unheld(f, S) \in SurfTable
<1>1. ASSUME NEW s \in Surfaces
      PROVE  [f[s] EXCEPT !.index = None, !.from = NoContext] \in SurfaceRec
  <2>1. f[s] \in SurfaceRec
    BY DEF SurfTable
  <2> QED
    BY <2>1 DEF SurfaceRec
<1>2. ASSUME NEW s \in Surfaces
      PROVE  f[s] \in SurfaceRec
  BY DEF SurfTable
<1> QED
  BY <1>1, <1>2 DEF Unheld, SurfTable

LEMMA ResetTypes ==
  ASSUME NEW x \in ContextRec
  PROVE  /\ DpbModelReset(x) \in ContextRec
         /\ StreamOff(x) \in ContextRec
         /\ RebuildFreePools(x) \in ContextRec
         /\ CaptureStopped(x) \in ContextRec
         /\ DecodeReset(x) \in ContextRec
         /\ \A n \in 0 .. NumCapAV1 : CaptureQueue(x, n) \in ContextRec
         /\ OutputQueues(x) \subseteq ContextRec
         /\ \A k \in Slots : Spoiled(x, k) \in ContextRec
         /\ \A k \in Slots, R \in SUBSET Refs : Decoded(x, k, R) \in ContextRec
         /\ \A o \in OutSlots : Dequeued(x, o) \subseteq ContextRec
<1>1. \A y \in ContextRec : DpbModelReset(y) \in ContextRec
  BY DEF DpbModelReset, ContextRec
<1>2. \A y \in ContextRec : StreamOff(y) \in ContextRec
  BY DEF StreamOff, ContextRec
<1>3. \A y \in ContextRec : RebuildFreePools(y) \in ContextRec
  BY SlotFacts DEF RebuildFreePools, ContextRec
<1>4. CaptureStopped(x) \in ContextRec
  BY <1>1, <1>2 DEF CaptureStopped
<1>5. DecodeReset(x) \in ContextRec
  <2>1. \A y \in ContextRec : [y EXCEPT !.request = "none"] \in ContextRec
    BY DEF ContextRec
  <2>2. QED  BY <1>1, <1>2, <1>3, <2>1 DEF DecodeReset
<1>6. \A n \in 0 .. NumCapAV1 : CaptureQueue(x, n) \in ContextRec
  BY SlotFacts DEF CaptureQueue, ContextRec
<1>7. OutputQueues(x) \subseteq ContextRec
  <2>1. /\ 0 \in 0 .. NumOut /\ NumOut \in 0 .. NumOut
        /\ OutSlots \in SUBSET OutSlots /\ {} \in SUBSET OutSlots
    BY SlotFacts
  <2>2. \A S \in SUBSET OutSlots, n \in 0 .. NumOut :
          [x EXCEPT !.freeOut = S, !.outAllocd = n] \in ContextRec
    BY DEF ContextRec
  <2>3. QED  BY <2>1, <2>2 DEF OutputQueues
<1>8. \A k \in Slots : Spoiled(x, k) \in ContextRec
  BY DEF Spoiled, ContextRec
<1>9. \A k \in Slots, R \in SUBSET Refs : Decoded(x, k, R) \in ContextRec
  BY DEF Decoded, ContextRec
<1>10. \A o \in OutSlots : Dequeued(x, o) \subseteq ContextRec
  <2>1. \A S \in SUBSET OutSlots, D \in SUBSET OutSlots :
          [x EXCEPT !.freeOut = S, !.done = D] \in ContextRec
    BY DEF ContextRec
  <2>2. \A D \in SUBSET OutSlots : [x EXCEPT !.done = D] \in ContextRec
    BY DEF ContextRec
  <2>3. x.done \subseteq OutSlots /\ x.freeOut \subseteq OutSlots
    BY DEF ContextRec
  <2>4. SUFFICES ASSUME NEW o \in OutSlots PROVE Dequeued(x, o) \subseteq ContextRec
    OBVIOUS
  <2>5. \A d \in OutSlots :
          [x EXCEPT !.freeOut = x.freeOut \cup {d}, !.done = (x.done \cup {o}) \ {d}]
             \in ContextRec
    BY <2>1, <2>3
  <2>6. [x EXCEPT !.done = x.done \cup {o}] \in ContextRec
    BY <2>2, <2>3
  <2>7. QED  BY <2>3, <2>5, <2>6 DEF Dequeued
<1>11. QED
  BY <1>1, <1>2, <1>3, <1>4, <1>5, <1>6, <1>7, <1>8, <1>9, <1>10

LEMMA CurrentKept ==
  ASSUME NEW x \in ContextRec
  PROVE  /\ CaptureStopped(x).current = x.current
         /\ \A z \in OutputQueues(CaptureStopped(x)) : \A n :
              CaptureQueue(z, n).current = x.current
         /\ \A k : /\ CapPoolPush(x, k).current = x.current
                  /\ Spoiled(x, k).current = x.current
         /\ \A k, R : Decoded(x, k, R).current = x.current
         /\ \A o : \A z \in Dequeued(x, o) : z.current = x.current
<1>1. CaptureStopped(x).current = x.current
  BY DEF CaptureStopped, DpbModelReset, StreamOff, ContextRec
<1>2. \A y \in ContextRec : \A z \in OutputQueues(y) : \A n :
        CaptureQueue(z, n).current = y.current
  BY DEF OutputQueues, CaptureQueue, ContextRec
<1>3. CaptureStopped(x) \in ContextRec
  BY ResetTypes
<1>4. \A k : CapPoolPush(x, k).current = x.current /\ Spoiled(x, k).current = x.current
  BY DEF CapPoolPush, Spoiled, ContextRec
<1>5. \A k, R : Decoded(x, k, R).current = x.current
  BY DEF Decoded, ContextRec
<1>6. \A o : \A z \in Dequeued(x, o) : z.current = x.current
  <2>1. \A S, D : /\ [x EXCEPT !.freeOut = S, !.done = D].current = x.current
                  /\ [x EXCEPT !.done = D].current = x.current
    BY DEF ContextRec
  <2>2. SUFFICES ASSUME NEW o, NEW z \in Dequeued(x, o)
                 PROVE  z.current = x.current
    OBVIOUS
  <2>3. \/ \E d : z = [x EXCEPT !.freeOut = x.freeOut \cup {d},
                                !.done = (x.done \cup {o}) \ {d}]
        \/ z = [x EXCEPT !.done = x.done \cup {o}]
    BY <2>2, Zenon DEF Dequeued
  <2>4. CASE z = [x EXCEPT !.done = x.done \cup {o}]
    BY <2>1, <2>4
  <2>5. CASE \E d : z = [x EXCEPT !.freeOut = x.freeOut \cup {d},
                                 !.done = (x.done \cup {o}) \ {d}]
    <3>1. PICK d : z = [x EXCEPT !.freeOut = x.freeOut \cup {d},
                                 !.done = (x.done \cup {o}) \ {d}]
      BY <2>5
    <3>2. QED  BY <2>1, <3>1
  <2>6. QED  BY <2>3, <2>4, <2>5
<1>7. QED  BY <1>1, <1>2, <1>3, <1>4, <1>5, <1>6

LEMMA ReleaseTypes ==
  ASSUME NEW x \in ContextRec, NEW k \in Slots, NEW R \in SUBSET Refs
  PROVE  ReleaseUnrefd(x, k, R).x \in ContextRec
<1> DEFINE slotBuf == [r \in Refs |-> IF r \in R THEN k ELSE x.slotBuf[r]]
           old == IF R = {} THEN {k}
                  ELSE {x.slotBuf[r] : r \in R} \ ({None, k} \cup {slotBuf[r] : r \in Refs})
           owner == [x.owner EXCEPT ![k] = x.current]
           owner2 == [j \in Slots |-> IF j \in old THEN NoSurface ELSE owner[j]]
<1>1. slotBuf \in [Refs -> Slots \cup {None}]
  BY DEF ContextRec
<1>2. old \subseteq Slots
  BY SlotFacts DEF ContextRec
<1>3. owner2 \in [Slots -> Surfaces \cup {NoSurface}]
  <2>1. owner \in [Slots -> Surfaces \cup {NoSurface}]
    BY DEF ContextRec
  <2> HIDE DEF owner, old
  <2>2. QED  BY <2>1
<1>4. x.free \cup old \subseteq Slots
  BY <1>2 DEF ContextRec
<1>5. ReleaseUnrefd(x, k, R).x =
        [x EXCEPT !.slotBuf = slotBuf, !.free = x.free \cup old, !.owner = owner2]
  BY DEF ReleaseUnrefd, ContextRec
<1> HIDE DEF slotBuf, old, owner2
<1>6. QED  BY <1>1, <1>3, <1>4, <1>5 DEF ContextRec

(* The exits and jumps of vaEndPicture keep the types.                     *)
LEMMA FinishTypes ==
  ASSUME TypeOK, NEW c \in Contexts, NEW x \in ContextRec, NEW f \in SurfTable,
         NEW st \in {"Ready", "Rendering", "Skipped"},
         NEW ret \in {"success", "error"}, Finish(c, x, f, st, ret)
  PROVE  TypeOK'
<1>1. ctx' \in [Contexts -> ContextRec]
  <2>1. [x EXCEPT !.current = NoSurface] \in ContextRec
    BY DEF ContextRec
  <2>2. QED  BY <2>1 DEF TypeOK, Finish
<1>2. surf' \in [Surfaces -> SurfaceRec]
  <2>1. \A s \in Surfaces : [f[s] EXCEPT !.status = st] \in SurfaceRec
    BY DEF SurfTable, SurfaceRec
  <2>2. surf' = [f EXCEPT ![x.current] = [f[x.current] EXCEPT !.status = st]]
    BY DEF Finish
  <2>3. CASE x.current \in Surfaces  BY <2>1, <2>2, <2>3 DEF SurfTable
  <2>4. CASE x.current \notin Surfaces  BY <2>2, <2>4 DEF SurfTable
  <2>5. QED  BY <2>3, <2>4
<1>3. call' \in CallRec /\ call'.at = "idle"
  BY DEF Finish, Idle, CallRec
<1>4. QED  BY <1>1, <1>2, <1>3 DEF TypeOK, Finish

LEMMA FailTypes ==
  ASSUME TypeOK, NEW c \in Contexts, NEW x \in ContextRec, NEW f \in SurfTable,
         Fail(c, x, f)
  PROVE  TypeOK'
<1>1. [x EXCEPT !.request = "none"] \in ContextRec
  BY DEF ContextRec
<1>2. QED  BY <1>1, FinishTypes DEF Fail

LEMMA SucceedTypes ==
  ASSUME TypeOK, NEW c \in Contexts, NEW x \in ContextRec, NEW f \in SurfTable,
         Succeed(c, x, f)
  PROVE  TypeOK'
BY FinishTypes DEF Succeed

LEMMA GotoTypes ==
  ASSUME TypeOK, NEW c \in live, NEW x \in ContextRec, NEW f \in SurfTable,
         NEW next \in CallRec, next.ctx = c, x.current \in Surfaces,
         next.at \in {"submit", "wait", "attach"} => next.out \in OutSlots,
         next.at \in {"wait", "attach"} => next.cap \in Slots,
         Goto(c, x, f, next)
  PROVE  TypeOK'
BY DEF TypeOK, Goto, SurfTable

(* The type invariant, action by action.                                   *)
LEMMA TypesInit == Init => TypeOK
BY ConstantRecordTypes DEF Init, TypeOK, Idle

LEMMA TypesSurfaces ==
  ASSUME TypeOK, NEW s \in Surfaces,
         CreateSurface(s) \/ DestroySurfaces(s) \/ SyncSurface(s)
  PROVE  TypeOK'
<1>1. CASE CreateSurface(s)
  BY <1>1, ConstantRecordTypes DEF CreateSurface, TypeOK
<1>2. CASE DestroySurfaces(s)
  <2>1. \A c \in Contexts : DetachSurface(c, s) \in ContextRec
    <3> SUFFICES ASSUME NEW c \in Contexts PROVE DetachSurface(c, s) \in ContextRec
      OBVIOUS
    <3>1. ctx[c] \in ContextRec /\ surf[s].index \in Slots \cup {None}
      BY DEF TypeOK, SurfaceRec
    <3>2. QED  BY <3>1 DEF DetachSurface, ContextRec
  <2>2. ctx' \in [Contexts -> ContextRec]
    BY <1>2, <2>1 DEF DestroySurfaces, TypeOK
  <2>3. surf' \in [Surfaces -> SurfaceRec]
    BY <1>2, ConstantRecordTypes DEF DestroySurfaces, TypeOK
  <2>4. QED  BY <1>2, <2>2, <2>3 DEF DestroySurfaces, TypeOK, LockFree
<1>3. CASE SyncSurface(s)
  <2>1. [surf[s] EXCEPT !.status = "Ready"] \in SurfaceRec
    BY DEF TypeOK, SurfaceRec
  <2>2. QED  BY <1>3, <2>1 DEF SyncSurface, TypeOK
<1>4. QED  BY <1>1, <1>2, <1>3

LEMMA NewContextType ==
  ASSUME NEW c \in Contexts, NEW T \in SUBSET Surfaces, NEW n \in CapGrants(c),
         NEW on \in BOOLEAN
  PROVE  NewContext(c, T, n, on) \in ContextRec
<1> DEFINE x == [ClosedContext EXCEPT !.targets = T]
           y == [x EXCEPT !.outAllocd = NumOut, !.freeOut = OutSlots]
<1>1. x \in ContextRec
  BY ConstantRecordTypes DEF ContextRec
<1>2. y \in ContextRec
  <2>1. NumOut \in 0 .. NumOut
    BY SlotFacts
  <2>2. \A z \in ContextRec :
          [z EXCEPT !.outAllocd = NumOut, !.freeOut = OutSlots] \in ContextRec
    BY <2>1 DEF ContextRec
  <2> HIDE DEF x
  <2>3. QED  BY <1>1, <2>2
<1>3. CaptureQueue(y, n) \in ContextRec
  BY <1>2, ResetTypes, SlotFacts
<1>4. \A z \in ContextRec, b \in BOOLEAN : [z EXCEPT !.streamed = b] \in ContextRec
  BY DEF ContextRec
<1>5. [CaptureQueue(y, n) EXCEPT !.streamed = Codec[c] \in StreamsAtCreate /\ on]
        \in ContextRec
  <2>1. (Codec[c] \in StreamsAtCreate /\ on) \in BOOLEAN
    BY Zenon
  <2> HIDE DEF y
  <2>2. QED  BY <1>3, <1>4, <2>1, Zenon
<1>6. QED  BY <1>1, <1>2, <1>5 DEF NewContext

LEMMA TypesContexts ==
  ASSUME TypeOK, NEW c \in Contexts,
         CreateContext(c) \/ CreateContextFails(c) \/ DestroyContext(c)
  PROVE  TypeOK'
<1>0. surf \in SurfTable
  BY DEF TypeOK, SurfTable
<1>1. CASE CreateContext(c)
  <2>1. PICK T \in Listable(c) :
          /\ \E n \in CapGrants(c), on \in {TRUE, "streamon" \notin Events} :
               ctx' = [ctx EXCEPT ![c] = NewContext(c, T, n, on)]
          /\ surf' = IF Codec[c] \in M2MCodecs \cup CaptureDeferred THEN surf
                     ELSE Unheld(surf, T)
    BY <1>1 DEF CreateContext
  <2>2. T \in SUBSET Surfaces
    BY DEF Listable
  <2>3. ctx' \in [Contexts -> ContextRec]
    <3>1. PICK n \in CapGrants(c), on \in BOOLEAN :
            ctx' = [ctx EXCEPT ![c] = NewContext(c, T, n, on)]
      <4>1. {TRUE, "streamon" \notin Events} \subseteq BOOLEAN
        BY Zenon
      <4>2. QED  BY <2>1, <4>1, Zenon
    <3>2. NewContext(c, T, n, on) \in ContextRec
      BY <2>2, NewContextType
    <3>3. QED  BY <3>1, <3>2 DEF TypeOK
  <2>4. surf' \in [Surfaces -> SurfaceRec]
    BY <1>0, <2>1, UnheldType DEF SurfTable
  <2>5. QED  BY <1>1, <2>3, <2>4 DEF CreateContext, TypeOK
<1>2. CASE CreateContextFails(c)
  BY <1>0, <1>2, UnheldType DEF CreateContextFails, TypeOK, SurfTable
<1>3. CASE DestroyContext(c)
  <2>1. surf' \in [Surfaces -> SurfaceRec]
    BY <1>0, <1>3, UnheldType DEF DestroyContext, ReleaseCtxCaptureSurfaces, SurfTable
  <2>2. ctx' \in [Contexts -> ContextRec]
    BY <1>3, ConstantRecordTypes DEF DestroyContext, TypeOK
  <2>3. QED  BY <1>3, <2>1, <2>2 DEF DestroyContext, TypeOK, LockFree
<1>4. QED  BY <1>1, <1>2, <1>3

LEMMA TypesBeginPicture ==
  ASSUME TypeOK, NEW c \in Contexts, NEW s \in Surfaces, BeginPicture(c, s)
  PROVE  TypeOK'
<1>1. surf \in SurfTable /\ ctx[c] \in ContextRec
  BY DEF TypeOK, SurfTable
<1>2. surf' \in [Surfaces -> SurfaceRec]
  BY <1>1, UnheldType DEF BeginPicture, SurfTable
<1>3. PICK req \in {"ready", "none"} :
        LET k == surf[s].index
            x == [ctx[c] EXCEPT !.current = s,
                    !.request = IF @ = "none" /\ Codec[c] \notin M2MCodecs
                                THEN req ELSE @]
        IN  ctx' = [ctx EXCEPT ![c] =
                      IF (k # None /\ ~ExpbufWanted) /\ ~Av1ModelActive(c) /\ k < x.allocd
                      THEN CapPoolPush(x, k) ELSE x]
  BY DEF BeginPicture
<1> DEFINE x == [ctx[c] EXCEPT !.current = s,
                   !.request = IF @ = "none" /\ Codec[c] \notin M2MCodecs THEN req ELSE @]
<1>4. x \in ContextRec
  BY <1>1 DEF ContextRec
<1>5. surf[s].index # None => CapPoolPush(x, surf[s].index) \in ContextRec
  <2>1. surf[s].index \in Slots \cup {None}
    BY <1>1 DEF SurfTable, SurfaceRec
  <2> HIDE DEF x
  <2>2. QED  BY <1>4, <2>1, PushTypes
<1>6. ctx' \in [Contexts -> ContextRec]
  BY <1>3, <1>4, <1>5 DEF TypeOK
<1>7. QED  BY <1>2, <1>6 DEF TypeOK, BeginPicture, LockFree

LEMMA TypesEndPicture ==
  ASSUME TypeOK, NEW c \in Contexts, EndPicture(c)
  PROVE  TypeOK'
<1>1. /\ surf \in SurfTable /\ ctx[c] \in ContextRec /\ c \in live
      /\ ctx[c].current \in Surfaces
  BY DEF TypeOK, SurfTable, EndPicture, ContextRec
<1>2. [Idle EXCEPT !.at = "prepare", !.ctx = c] \in CallRec
  BY DEF Idle, CallRec
<1>3. CASE \/ Finish(c, ctx[c], surf, "Ready", "success")
           \/ Finish(c, ctx[c], surf, "Skipped", "error")
  BY <1>1, <1>3, FinishTypes
<1>4. CASE Goto(c, ctx[c], surf, [Idle EXCEPT !.at = "prepare", !.ctx = c])
  <2>1. [Idle EXCEPT !.at = "prepare", !.ctx = c].ctx = c
    BY DEF Idle
  <2>2. [Idle EXCEPT !.at = "prepare", !.ctx = c].at = "prepare"
    BY DEF Idle
  <2>3. QED  BY <1>1, <1>2, <1>4, <2>1, <2>2, GotoTypes
<1>5. QED  BY <1>3, <1>4 DEF EndPicture

LEMMA HeadersTypes ==
  ASSUME NEW c, NEW x \in ContextRec, NEW h \in Headers(c, x)
  PROVE  h.x \in ContextRec /\ h.refresh \in SUBSET Refs /\ h.x.current = x.current
<1>1. CASE Codec[c] # "AV1"
  BY <1>1 DEF Headers
<1>2. CASE Codec[c] = "AV1"
  <2>1. PICK obu \in BOOLEAN, f \in SUBSET Refs :
          h = [x |-> [x EXCEPT !.active = x.active \/ obu], refresh |-> f]
    BY <1>2 DEF Headers
  <2>2. (x.active \/ obu) \in BOOLEAN
    BY Zenon
  <2>3. \A b \in BOOLEAN : [x EXCEPT !.active = b] \in ContextRec
    BY DEF ContextRec
  <2>4. [x EXCEPT !.active = x.active \/ obu] \in ContextRec
    BY <2>2, <2>3, Zenon
  <2>5. h.x = [x EXCEPT !.active = x.active \/ obu] /\ h.refresh = f
    BY <2>1
  <2>6. [x EXCEPT !.active = x.active \/ obu].current = x.current
    BY DEF ContextRec
  <2>7. QED  BY <2>4, <2>5, <2>6, Zenon
<1>3. QED  BY <1>1, <1>2

LEMMA TypesEnsureCapture ==
  ASSUME TypeOK, NEW c \in live, NEW x \in ContextRec, NEW next \in CallRec,
         next.ctx = c, next.at = "start", x.current \in Surfaces,
         EnsureCapture(c, x, next)
  PROVE  TypeOK'
<1> DEFINE y == CaptureStopped(x)
           f == ReleaseCtxCaptureSurfaces(x)
<1>1. surf \in SurfTable /\ c \in Contexts
  BY DEF TypeOK, SurfTable
<1>2. y \in ContextRec /\ f \in SurfTable
  BY <1>1, ResetTypes, UnheldType DEF ReleaseCtxCaptureSurfaces
<1>3. \A z \in OutputQueues(y), n \in 0 .. NumCapAV1 : CaptureQueue(z, n) \in ContextRec
  BY <1>2, ResetTypes
<1>4. 0 \in 0 .. NumCapAV1 /\ CapGrants(c) \subseteq 0 .. NumCapAV1
  BY <1>1, SlotFacts
<1> HIDE DEF y, f
<1>5. CASE Goto(c, x, surf, next)
  BY <1>1, <1>5, GotoTypes
<1>6. CASE Fail(c, y, f)
  BY <1>1, <1>2, <1>6, FailTypes
<1>7. ASSUME NEW z \in OutputQueues(y), Fail(c, CaptureQueue(z, 0), f)
      PROVE  TypeOK'
  BY <1>1, <1>2, <1>3, <1>4, <1>7, FailTypes
<1>8. ASSUME NEW z \in OutputQueues(y), NEW n \in CapGrants(c),
             Goto(c, CaptureQueue(z, n), f, next)
      PROVE  TypeOK'
  <2>1. CaptureQueue(z, n) \in ContextRec /\ CaptureQueue(z, n).current \in Surfaces
    BY <1>3, <1>4, CurrentKept DEF y
  <2>2. QED  BY <1>1, <1>2, <1>8, <2>1, GotoTypes
<1>9. QED  BY <1>5, <1>6, <1>7, <1>8 DEF EnsureCapture, y, f

LEMMA TypesPrepare == ASSUME TypeOK, Prepare PROVE TypeOK'
<1> DEFINE c == call.ctx
<1>1. /\ surf \in SurfTable /\ c \in live /\ c \in Contexts
      /\ ctx[c] \in ContextRec /\ call \in CallRec /\ ctx[c].current \in Surfaces
  BY DEF TypeOK, SurfTable, Prepare
<1>2. CASE Fail(c, ctx[c], surf)
  BY <1>1, <1>2, FailTypes
<1>3. ASSUME NEW h \in Headers(c, ctx[c]), Fail(c, h.x, surf) PROVE TypeOK'
  BY <1>1, <1>3, HeadersTypes, FailTypes
<1>4. ASSUME NEW h \in Headers(c, ctx[c]),
             EnsureCapture(c, h.x, [call EXCEPT !.at = "start", !.refresh = h.refresh])
      PROVE  TypeOK'
  <2> DEFINE next == [call EXCEPT !.at = "start", !.refresh = h.refresh]
  <2>1. h.x \in ContextRec /\ h.refresh \in SUBSET Refs /\ h.x.current \in Surfaces
    BY <1>1, HeadersTypes
  <2>2. next \in CallRec /\ next.ctx = c /\ next.at = "start"
    BY <1>1, <2>1 DEF CallRec
  <2> HIDE DEF next
  <2>3. EnsureCapture(c, h.x, next)
    BY <1>4 DEF next
  <2>4. QED  BY <1>1, <2>1, <2>2, <2>3, TypesEnsureCapture
<1>5. QED  BY <1>2, <1>3, <1>4 DEF Prepare

LEMMA TypesStart == ASSUME TypeOK, Start PROVE TypeOK'
<1> DEFINE c == call.ctx
           x == [ctx[c] EXCEPT !.streamed = TRUE]
<1>1. /\ surf \in SurfTable /\ c \in live /\ c \in Contexts
      /\ ctx[c] \in ContextRec /\ call \in CallRec /\ ctx[c].current \in Surfaces
  BY DEF TypeOK, SurfTable, Start
<1>2. x \in ContextRec /\ x.current \in Surfaces
  BY <1>1 DEF ContextRec
<1>3. CASE Fail(c, ctx[c], surf)
  BY <1>1, <1>3, FailTypes
<1> HIDE DEF x
<1>4. CASE Fail(c, x, surf)
  BY <1>1, <1>2, <1>4, FailTypes
<1>5. ASSUME NEW o \in x.freeOut,
             Goto(c, [x EXCEPT !.freeOut = @ \ {o}], surf,
                  [call EXCEPT !.at = "submit", !.out = o])
      PROVE  TypeOK'
  <2> DEFINE next == [call EXCEPT !.at = "submit", !.out = o]
             z == [x EXCEPT !.freeOut = @ \ {o}]
  <2>1. o \in OutSlots /\ z \in ContextRec /\ z.current \in Surfaces
    BY <1>2 DEF ContextRec
  <2>2. next \in CallRec /\ next.ctx = c /\ next.at = "submit" /\ next.out = o
    BY <1>1, <2>1 DEF CallRec
  <2> HIDE DEF next, z
  <2>3. Goto(c, z, surf, next)
    BY <1>5 DEF next, z
  <2>4. QED  BY <1>1, <2>1, <2>2, <2>3, GotoTypes
<1>6. QED  BY <1>3, <1>4, <1>5 DEF Start, x

LEMMA TypesSubmit == ASSUME TypeOK, Submit PROVE TypeOK'
<1> DEFINE c == call.ctx
           o == call.out
<1>1. /\ surf \in SurfTable /\ c \in live /\ c \in Contexts /\ o \in OutSlots
      /\ ctx[c] \in ContextRec /\ call \in CallRec /\ ctx[c].current \in Surfaces
  BY DEF TypeOK, SurfTable, Submit
<1>2. CASE Fail(c, OutPoolPush(ctx[c], o), surf)
  BY <1>1, <1>2, PushTypes, FailTypes
<1>3. ASSUME NEW k \in CaptureChoices(ctx[c]), NEW x,
             x = IF surf[ctx[c].current].index = k /\ ExpbufWanted THEN ctx[c]
                 ELSE [ctx[c] EXCEPT !.free = @ \ {k}],
             \/ Fail(c, CapPoolPush(OutPoolPush(x, o), k), surf)
             \/ LET y == CapPoolPush(x, k) IN
                \/ Fail(c, y, surf)
                \/ \E d \in y.done :
                     Fail(c, OutPoolPush([y EXCEPT !.done = @ \ {d}], d), surf)
             \/ /\ k < x.allocd
                /\ Goto(c, x, surf, [call EXCEPT !.at = "wait", !.cap = k])
      PROVE  TypeOK'
  <2>1. x \in ContextRec /\ x.current \in Surfaces
    BY <1>1, <1>3 DEF ContextRec
  <2>2. CASE k \in Slots
    <3>1. CASE Fail(c, CapPoolPush(OutPoolPush(x, o), k), surf)
      BY <1>1, <2>1, <2>2, <3>1, PushTypes, FailTypes
    <3>2. CASE Fail(c, CapPoolPush(x, k), surf)
      BY <1>1, <2>1, <2>2, <3>2, PushTypes, FailTypes
    <3>3. ASSUME NEW d \in CapPoolPush(x, k).done,
                 Fail(c, OutPoolPush([CapPoolPush(x, k) EXCEPT !.done = @ \ {d}], d), surf)
          PROVE  TypeOK'
      <4>1. CapPoolPush(x, k) \in ContextRec
        BY <2>1, <2>2, PushTypes
      <4>2. /\ [CapPoolPush(x, k) EXCEPT !.done = @ \ {d}] \in ContextRec
            /\ d \in OutSlots
        BY <4>1 DEF ContextRec
      <4>3. QED  BY <1>1, <3>3, <4>2, PushTypes, FailTypes
    <3>4. CASE Goto(c, x, surf, [call EXCEPT !.at = "wait", !.cap = k])
      <4> DEFINE next == [call EXCEPT !.at = "wait", !.cap = k]
      <4>1. /\ next \in CallRec /\ next.ctx = c /\ next.at = "wait"
            /\ next.out = o /\ next.cap = k
        BY <1>1, <2>2 DEF CallRec
      <4> HIDE DEF next
      <4>2. Goto(c, x, surf, next)
        BY <3>4 DEF next
      <4>3. QED  BY <1>1, <2>1, <2>2, <4>1, <4>2, GotoTypes
    <3>5. QED  BY <1>3, <3>1, <3>2, <3>3, <3>4
  <2>3. CASE k \notin Slots
    <3>1. ctx[c].free \subseteq Slots
      BY <1>1 DEF ContextRec
    <3>2. ctx[c].current \in Surfaces => surf[ctx[c].current].index \in Slots \cup {None}
      BY <1>1 DEF SurfTable, SurfaceRec
    <3>3. QED  BY <1>1, <2>3, <3>1, <3>2 DEF CaptureChoices
  <2>4. QED  BY <2>2, <2>3
<1>4. QED  BY <1>2, <1>3 DEF Submit

LEMMA TypesWait == ASSUME TypeOK, Wait PROVE TypeOK'
<1> DEFINE c == call.ctx
           k == call.cap
<1>1. /\ surf \in SurfTable /\ c \in live /\ c \in Contexts
      /\ k \in Slots /\ call.out \in OutSlots /\ call.refresh \in SUBSET Refs
      /\ ctx[c] \in ContextRec /\ call \in CallRec /\ ctx[c].current \in Surfaces
  BY DEF TypeOK, SurfTable, Wait, CallRec
<1>2. Spoiled(ctx[c], k) \in ContextRec /\ Decoded(ctx[c], k, call.refresh) \in ContextRec
  BY <1>1, ResetTypes
<1>3. CASE Fail(c, DecodeReset(Spoiled(ctx[c], k)), surf)
  BY <1>1, <1>2, <1>3, ResetTypes, FailTypes
<1>4. ASSUME NEW bad \in BOOLEAN, NEW req \in {"ready", "none", "stuck"},
             NEW x \in Dequeued(IF bad THEN CapPoolPush(Spoiled(ctx[c], k), k)
                                ELSE Decoded(ctx[c], k, call.refresh), call.out),
             Goto(c, [x EXCEPT !.request = req], surf,
                  [call EXCEPT !.at = "attach", !.bad = bad])
      PROVE  TypeOK'
  <2> DEFINE w == IF bad THEN CapPoolPush(Spoiled(ctx[c], k), k)
                  ELSE Decoded(ctx[c], k, call.refresh)
             next == [call EXCEPT !.at = "attach", !.bad = bad]
             z == [x EXCEPT !.request = req]
  <2>1. w \in ContextRec /\ w.current \in Surfaces
    BY <1>1, <1>2, PushTypes, CurrentKept
  <2> HIDE DEF w
  <2>2. x \in ContextRec /\ x.current \in Surfaces
    <3>1. x \in Dequeued(w, call.out)
      BY DEF w
    <3>2. Dequeued(w, call.out) \subseteq ContextRec
      BY <1>1, <2>1, ResetTypes
    <3>3. \A y \in Dequeued(w, call.out) : y.current = w.current
      BY <2>1, CurrentKept
    <3>4. QED  BY <2>1, <3>1, <3>2, <3>3
  <2>3. z \in ContextRec /\ z.current \in Surfaces
    BY <2>2 DEF ContextRec
  <2>4. /\ next \in CallRec /\ next.ctx = c /\ next.at = "attach"
        /\ next.out = call.out /\ next.cap = k
    BY <1>1 DEF CallRec
  <2> HIDE DEF next, z
  <2>5. Goto(c, z, surf, next)
    BY <1>4 DEF next, z
  <2>6. QED  BY <1>1, <2>3, <2>4, <2>5, GotoTypes
<1>5. QED  BY <1>3, <1>4 DEF Wait

LEMMA TypesAttach == ASSUME TypeOK, Attach PROVE TypeOK'
<1> DEFINE c == call.ctx
           k == call.cap
           x == ctx[c]
           f == PullCapture(x.current, c, k)
<1>1. /\ surf \in SurfTable /\ c \in live /\ c \in Contexts
      /\ k \in Slots /\ call.refresh \in SUBSET Refs
      /\ x \in ContextRec /\ x.current \in Surfaces
  BY DEF TypeOK, SurfTable, Attach, CallRec
<1>2. f \in SurfTable
  <2>1. [surf[x.current] EXCEPT !.index = k, !.from = c] \in SurfaceRec
    BY <1>1 DEF SurfTable, SurfaceRec
  <2>2. f = [surf EXCEPT ![x.current] = [surf[x.current] EXCEPT !.index = k, !.from = c]]
    BY <1>1 DEF PullCapture, SurfTable
  <2>3. QED  BY <1>1, <2>1, <2>2 DEF SurfTable
<1>3. \A S : Unheld(f, S) \in SurfTable
  BY <1>2, UnheldType
<1>4. CapPoolPush(x, k) \in ContextRec /\ ReleaseUnrefd(x, k, call.refresh).x \in ContextRec
  BY <1>1, PushTypes, ReleaseTypes
<1>5. \/ Fail(c, x, surf)
      \/ Succeed(c, x, surf)
      \/ Succeed(c, CapPoolPush(x, k), surf)
      \/ \E S : Succeed(c, ReleaseUnrefd(x, k, call.refresh).x, Unheld(f, S))
      \/ Succeed(c, x, f)
  BY Zenon DEF Attach
<1> HIDE DEF x, f
<1>6. QED  BY <1>1, <1>2, <1>3, <1>4, <1>5, FailTypes, SucceedTypes

(* The queue a claim finds, or the one it allocates, is a context record.  *)
LEMMA ClaimQueuesTypes ==
  ASSUME NEW s \in Surfaces, NEW c \in Contexts, ctx[c] \in ContextRec
  PROVE  ClaimQueues(s, c) \subseteq ContextRec
<1>1. CaptureStopped(ctx[c]) \in ContextRec
  BY ResetTypes
<1>2. OutputQueues(CaptureStopped(ctx[c])) \subseteq ContextRec
  BY <1>1, ResetTypes
<1>3. CapGrants(c) \cup {0} \subseteq 0 .. NumCapAV1
  BY SlotFacts
<1>4. \A z \in ContextRec, n \in 0 .. NumCapAV1 : CaptureQueue(z, n) \in ContextRec
  BY ResetTypes
<1>5. QED  BY <1>2, <1>3, <1>4 DEF ClaimQueues

LEMMA TypesExportSurface ==
  ASSUME TypeOK, NEW s \in Surfaces, ExportSurface(s)
  PROVE  TypeOK'
<1>1. surf \in SurfTable /\ surf[s] \in SurfaceRec /\ live \subseteq Contexts
  BY DEF TypeOK, SurfTable
<1>2. PICK c \in OwningContexts(s) : \E x \in ClaimQueues(s, c) :
        ClaimAndExport(s, c, x, IF NeedsQueue(s, c)
                                THEN ReleaseCtxCaptureSurfaces(ctx[c]) ELSE surf)
  BY DEF ExportSurface
<1>3. c \in Contexts
  <2>1. OwningContexts(s) \subseteq live
    BY DEF OwningContexts, Holds
  <2>2. QED  BY <1>1, <1>2, <2>1
<1>4. ctx[c] \in ContextRec
  BY <1>3 DEF TypeOK
<1>5. PICK x \in ContextRec, f \in SurfTable : ClaimAndExport(s, c, x, f)
  <2>1. PICK x \in ClaimQueues(s, c) :
          ClaimAndExport(s, c, x, IF NeedsQueue(s, c)
                                  THEN ReleaseCtxCaptureSurfaces(ctx[c]) ELSE surf)
    BY <1>2
  <2>2. x \in ContextRec
    BY <1>3, <1>4, ClaimQueuesTypes
  <2>3. ReleaseCtxCaptureSurfaces(ctx[c]) \in SurfTable
    BY <1>1, UnheldType DEF ReleaseCtxCaptureSurfaces
  <2>4. QED  BY <1>1, <2>1, <2>2, <2>3
<1>6. CASE surf' = f /\ ctx' = [ctx EXCEPT ![c] = x]
  <2>1. surf' \in [Surfaces -> SurfaceRec]
    BY <1>6 DEF SurfTable
  <2>2. ctx' \in [Contexts -> ContextRec]
    BY <1>3, <1>6 DEF TypeOK
  <2>3. QED  BY <2>1, <2>2 DEF ExportSurface, TypeOK, LockFree
<1>7. CASE ~(surf' = f /\ ctx' = [ctx EXCEPT ![c] = x])
  <2>1. PICK k \in IF surf[s].index = None THEN x.free ELSE {surf[s].index} :
           \E fd \in ExpbufFd(s, c, x, k) :
             /\ ctx' = [ctx EXCEPT ![c] =
                          IF surf[s].index = None THEN [x EXCEPT !.free = @ \ {k}] ELSE x]
             /\ surf' = [f EXCEPT ![s].index = k, ![s].expbuf = fd,
                                  ![s].from = IF surf[s].index = None THEN c ELSE @]
    BY <1>5, <1>7, Zenon DEF ClaimAndExport
  <2>2. k \in Slots
    BY <1>1, <2>1 DEF SurfaceRec, ContextRec
  <2>3. PICK fd \in (Contexts \X Slots) \cup {<<>>} :
          /\ ctx' = [ctx EXCEPT ![c] =
                       IF surf[s].index = None THEN [x EXCEPT !.free = @ \ {k}] ELSE x]
          /\ surf' = [f EXCEPT ![s].index = k, ![s].expbuf = fd,
                               ![s].from = IF surf[s].index = None THEN c ELSE @]
    <3>1. surf[s].expbuf \in (Contexts \X Slots) \cup {<<>>}
      BY <1>1 DEF SurfaceRec
    <3>2. <<c, k>> \in Contexts \X Slots
      BY <1>3, <2>2
    <3>3. ExpbufFd(s, c, x, k) \subseteq (Contexts \X Slots) \cup {<<>>}
      BY <3>1, <3>2 DEF ExpbufFd
    <3>4. QED  BY <2>1, <3>3, Zenon
  <2>4. surf' \in [Surfaces -> SurfaceRec]
    <3>1. f[s] \in SurfaceRec
      BY DEF SurfTable
    <3>2. \A d \in Contexts \cup {NoContext} :
            [f[s] EXCEPT !.index = k, !.expbuf = fd, !.from = d] \in SurfaceRec
      BY <2>2, <2>3, <3>1 DEF SurfaceRec
    <3>3. f[s].from \in Contexts \cup {NoContext}
      BY <3>1 DEF SurfaceRec
    <3>4. surf' = [f EXCEPT ![s] = [f[s] EXCEPT !.index = k, !.expbuf = fd,
                      !.from = IF surf[s].index = None THEN c ELSE f[s].from]]
      BY <2>3, <3>1 DEF SurfTable, SurfaceRec
    <3>5. QED  BY <1>3, <3>2, <3>3, <3>4 DEF SurfTable
  <2>5. ctx' \in [Contexts -> ContextRec]
    <3>1. [x EXCEPT !.free = @ \ {k}] \in ContextRec
      BY DEF ContextRec
    <3>2. QED  BY <1>3, <2>3, <3>1 DEF TypeOK
  <2>6. QED  BY <2>4, <2>5 DEF ExportSurface, TypeOK, LockFree
<1>8. QED  BY <1>6, <1>7

LEMMA TypesNext == TypeOK /\ [Next]_vars => TypeOK'
<1> SUFFICES ASSUME TypeOK, [Next]_vars PROVE TypeOK'
  OBVIOUS
<1>1. CASE UNCHANGED vars
  BY <1>1 DEF vars, TypeOK
<1>2. CASE Next
  BY <1>2, TypesSurfaces, TypesContexts, TypesBeginPicture, TypesEndPicture,
     TypesPrepare, TypesStart, TypesSubmit, TypesWait, TypesAttach,
     TypesExportSurface DEF Next
<1>3. QED  BY <1>1, <1>2

(* Type correctness of the whole buffer model, for every number of         *)
(* surfaces, contexts and slots, in both export modes and with every       *)
(* event: each pool holds only indices of its queue, and a vaEndPicture in *)
(* progress has the context, surface and slots its code dereferences.      *)
THEOREM TypesCorrect == Spec => []TypeOK
BY TypesInit, TypesNext, PTL DEF Spec

-----------------------------------------------------------------------------
(* No dangling current_surface.                                            *)

(* A step that frees no surface and sets no current_surface.               *)
KeepsCurrent ==
  /\ \A s \in Surfaces : surf[s].alive => surf'[s].alive
  /\ \A c \in live' : \/ c \in live /\ ctx'[c].current = ctx[c].current
                      \/ ctx'[c].current = NoSurface

LEMMA KeepsCurrentAlive ==
  ASSUME TypeOK, CurrentSurfaceAlive, KeepsCurrent
  PROVE  CurrentSurfaceAlive'
<1>1. \A c \in live : ctx[c].current \in Surfaces \cup {NoSurface}
  BY DEF TypeOK, ContextRec
<1>2. QED  BY <1>1 DEF CurrentSurfaceAlive, KeepsCurrent

LEMMA UnheldAlive ==
  ASSUME NEW f \in SurfTable, NEW S
  PROVE  \A s \in Surfaces : Unheld(f, S)[s].alive = f[s].alive
BY DEF Unheld, SurfTable, SurfaceRec

(* A surface table with the same surfaces alive.                           *)
SameAlive(f) == f \in SurfTable /\ \A s \in Surfaces : f[s].alive = surf[s].alive

LEMMA FinishKeepsCurrent ==
  ASSUME TypeOK, NEW c \in live, NEW x \in ContextRec, NEW f, SameAlive(f),
         NEW st, NEW ret, Finish(c, x, f, st, ret)
  PROVE  KeepsCurrent
<1>1. \A s \in Surfaces : surf'[s].alive = surf[s].alive
  BY DEF Finish, SameAlive, SurfTable, SurfaceRec
<1>2. \A d \in live : \/ ctx'[d].current = ctx[d].current
                      \/ ctx'[d].current = NoSurface
  BY DEF Finish, TypeOK, ContextRec
<1>3. QED  BY <1>1, <1>2 DEF KeepsCurrent, Finish

LEMMA FailKeepsCurrent ==
  ASSUME TypeOK, NEW c \in live, NEW x \in ContextRec, NEW f, SameAlive(f),
         Fail(c, x, f)
  PROVE  KeepsCurrent
<1>1. [x EXCEPT !.request = "none"] \in ContextRec
  BY DEF ContextRec
<1>2. QED  BY <1>1, FinishKeepsCurrent DEF Fail

LEMMA GotoKeepsCurrent ==
  ASSUME TypeOK, NEW c \in live, NEW x \in ContextRec, NEW f, SameAlive(f),
         x.current = ctx[c].current, NEW next, Goto(c, x, f, next)
  PROVE  KeepsCurrent
BY DEF Goto, TypeOK, SameAlive, KeepsCurrent

LEMMA CurrentEndPicture ==
  ASSUME TypeOK, NEW c \in live, EndPicture(c)
  PROVE  KeepsCurrent
<1>1. ctx[c] \in ContextRec /\ SameAlive(surf)
  BY DEF TypeOK, SameAlive, SurfTable
<1>2. QED  BY <1>1, FinishKeepsCurrent, GotoKeepsCurrent DEF EndPicture

LEMMA CurrentPrepare == ASSUME TypeOK, Prepare PROVE KeepsCurrent
<1> DEFINE c == call.ctx
<1>1. c \in live /\ c \in Contexts /\ ctx[c] \in ContextRec /\ SameAlive(surf)
  BY DEF TypeOK, SameAlive, SurfTable, Prepare
<1>2. CASE Fail(c, ctx[c], surf)
  BY <1>1, <1>2, FailKeepsCurrent
<1>3. ASSUME NEW h \in Headers(c, ctx[c]), Fail(c, h.x, surf) PROVE KeepsCurrent
  BY <1>1, <1>3, HeadersTypes, FailKeepsCurrent
<1>4. ASSUME NEW x \in ContextRec, x.current = ctx[c].current, NEW next,
             EnsureCapture(c, x, next)
      PROVE  KeepsCurrent
  <2> DEFINE y == CaptureStopped(x)
             f == ReleaseCtxCaptureSurfaces(x)
  <2>1. y \in ContextRec
    BY ResetTypes
  <2>2. SameAlive(f)
    BY <1>1, UnheldType, UnheldAlive DEF SameAlive, ReleaseCtxCaptureSurfaces
  <2>3. \A z \in OutputQueues(y), n \in 0 .. NumCapAV1 :
          CaptureQueue(z, n) \in ContextRec /\ CaptureQueue(z, n).current = x.current
    BY <2>1, ResetTypes, CurrentKept
  <2>4. 0 \in 0 .. NumCapAV1 /\ CapGrants(c) \subseteq 0 .. NumCapAV1
    BY <1>1, SlotFacts
  <2> HIDE DEF y, f
  <2>5. CASE Goto(c, x, surf, next)
    BY <1>1, <1>4, <2>5, GotoKeepsCurrent
  <2>6. CASE Fail(c, y, f)
    BY <1>1, <2>1, <2>2, <2>6, FailKeepsCurrent
  <2>7. ASSUME NEW z \in OutputQueues(y), Fail(c, CaptureQueue(z, 0), f)
        PROVE  KeepsCurrent
    BY <1>1, <2>2, <2>3, <2>4, <2>7, FailKeepsCurrent
  <2>8. ASSUME NEW z \in OutputQueues(y), NEW n \in CapGrants(c),
               Goto(c, CaptureQueue(z, n), f, next)
        PROVE  KeepsCurrent
    BY <1>1, <1>4, <2>2, <2>3, <2>4, <2>8, GotoKeepsCurrent
  <2>9. QED  BY <1>4, <2>5, <2>6, <2>7, <2>8 DEF EnsureCapture, y, f
<1>5. QED  BY <1>1, <1>2, <1>3, <1>4, HeadersTypes DEF Prepare

LEMMA CurrentStart == ASSUME TypeOK, Start PROVE KeepsCurrent
<1> DEFINE c == call.ctx
           x == [ctx[c] EXCEPT !.streamed = TRUE]
<1>1. c \in live /\ ctx[c] \in ContextRec /\ SameAlive(surf)
  BY DEF TypeOK, SameAlive, SurfTable, Start
<1>2. x \in ContextRec /\ x.current = ctx[c].current
  BY <1>1 DEF ContextRec
<1>3. CASE Fail(c, ctx[c], surf)
  BY <1>1, <1>3, FailKeepsCurrent
<1> HIDE DEF x
<1>4. CASE Fail(c, x, surf)
  BY <1>1, <1>2, <1>4, FailKeepsCurrent
<1>5. ASSUME NEW o, NEW next, Goto(c, [x EXCEPT !.freeOut = @ \ {o}], surf, next)
      PROVE  KeepsCurrent
  <2>1. [x EXCEPT !.freeOut = @ \ {o}] \in ContextRec
    BY <1>2 DEF ContextRec
  <2>2. [x EXCEPT !.freeOut = @ \ {o}].current = ctx[c].current
    BY <1>2 DEF ContextRec
  <2>3. QED  BY <1>1, <1>5, <2>1, <2>2, GotoKeepsCurrent
<1>6. QED  BY <1>3, <1>4, <1>5 DEF Start, x

LEMMA CurrentSubmit == ASSUME TypeOK, Submit PROVE KeepsCurrent
<1> DEFINE c == call.ctx
           o == call.out
<1>1. c \in live /\ ctx[c] \in ContextRec /\ SameAlive(surf) /\ o \in OutSlots
  BY DEF TypeOK, SameAlive, SurfTable, Submit
<1>2. CASE Fail(c, OutPoolPush(ctx[c], o), surf)
  BY <1>1, <1>2, PushTypes, FailKeepsCurrent
<1>3. \A k \in CaptureChoices(ctx[c]) : k \in Slots
  <2>1. ctx[c].free \subseteq Slots
    BY <1>1 DEF ContextRec
  <2>2. surf[ctx[c].current].index \in Slots \cup {None}
    BY DEF TypeOK, SurfaceRec, Submit
  <2>3. QED  BY <2>1, <2>2 DEF CaptureChoices
<1>4. ASSUME NEW k \in CaptureChoices(ctx[c]), NEW x,
             x = IF surf[ctx[c].current].index = k /\ ExpbufWanted THEN ctx[c]
                 ELSE [ctx[c] EXCEPT !.free = @ \ {k}],
             \/ Fail(c, CapPoolPush(OutPoolPush(x, o), k), surf)
             \/ LET y == CapPoolPush(x, k) IN
                \/ Fail(c, y, surf)
                \/ \E d \in y.done :
                     Fail(c, OutPoolPush([y EXCEPT !.done = @ \ {d}], d), surf)
             \/ Goto(c, x, surf, [call EXCEPT !.at = "wait", !.cap = k])
      PROVE  KeepsCurrent
  <2>1. x \in ContextRec /\ x.current = ctx[c].current
    BY <1>1, <1>4 DEF ContextRec
  <2>2. CapPoolPush(x, k) \in ContextRec /\ CapPoolPush(OutPoolPush(x, o), k) \in ContextRec
    BY <1>1, <1>3, <2>1, PushTypes
  <2>3. \A d \in CapPoolPush(x, k).done :
          OutPoolPush([CapPoolPush(x, k) EXCEPT !.done = @ \ {d}], d) \in ContextRec
    <3>1. \A d \in CapPoolPush(x, k).done :
            /\ [CapPoolPush(x, k) EXCEPT !.done = @ \ {d}] \in ContextRec
            /\ d \in OutSlots
      BY <2>2 DEF ContextRec
    <3>2. QED  BY <3>1, PushTypes
  <2>4. QED  BY <1>1, <1>4, <2>1, <2>2, <2>3, FailKeepsCurrent, GotoKeepsCurrent
<1>5. QED  BY <1>2, <1>4 DEF Submit

LEMMA CurrentWait == ASSUME TypeOK, Wait PROVE KeepsCurrent
<1> DEFINE c == call.ctx
           k == call.cap
<1>1. /\ c \in live /\ ctx[c] \in ContextRec /\ SameAlive(surf)
      /\ k \in Slots /\ call.out \in OutSlots /\ call.refresh \in SUBSET Refs
  BY DEF TypeOK, SameAlive, SurfTable, Wait, CallRec
<1>2. /\ Spoiled(ctx[c], k) \in ContextRec
      /\ Decoded(ctx[c], k, call.refresh) \in ContextRec
      /\ CapPoolPush(Spoiled(ctx[c], k), k) \in ContextRec
  BY <1>1, ResetTypes, PushTypes
<1>3. CASE Fail(c, DecodeReset(Spoiled(ctx[c], k)), surf)
  BY <1>1, <1>2, <1>3, ResetTypes, FailKeepsCurrent
<1>4. ASSUME NEW w \in {CapPoolPush(Spoiled(ctx[c], k), k),
                        Decoded(ctx[c], k, call.refresh)},
             NEW x \in Dequeued(w, call.out), NEW req \in {"ready", "none", "stuck"},
             NEW next, Goto(c, [x EXCEPT !.request = req], surf, next)
      PROVE  KeepsCurrent
  <2>1. w \in ContextRec /\ w.current = ctx[c].current
    BY <1>1, <1>2, CurrentKept
  <2>2. Dequeued(w, call.out) \subseteq ContextRec
    BY <1>1, <2>1, ResetTypes
  <2>3. x \in ContextRec /\ x.current = ctx[c].current
    BY <2>1, <2>2, CurrentKept
  <2>4. /\ [x EXCEPT !.request = req] \in ContextRec
        /\ [x EXCEPT !.request = req].current = ctx[c].current
    BY <2>3 DEF ContextRec
  <2>5. QED  BY <1>1, <1>4, <2>4, GotoKeepsCurrent
<1>5. QED  BY <1>3, <1>4 DEF Wait

LEMMA PullAlive ==
  ASSUME TypeOK, NEW s \in Surfaces, NEW c \in Contexts, NEW k \in Slots
  PROVE  SameAlive(PullCapture(s, c, k))
<1>1. surf[s] \in SurfaceRec
  BY DEF TypeOK
<1>2. /\ [surf[s] EXCEPT !.index = k, !.from = c] \in SurfaceRec
      /\ [surf[s] EXCEPT !.index = k, !.from = c].alive = surf[s].alive
  BY <1>1 DEF SurfaceRec
<1>3. PullCapture(s, c, k) = [surf EXCEPT ![s] = [surf[s] EXCEPT !.index = k, !.from = c]]
  BY DEF TypeOK, PullCapture
<1>4. QED  BY <1>2, <1>3 DEF SameAlive, SurfTable, TypeOK

LEMMA CurrentAttach == ASSUME TypeOK, Attach PROVE KeepsCurrent
<1> DEFINE c == call.ctx
           k == call.cap
           x == ctx[c]
           f == PullCapture(x.current, c, k)
<1>1. /\ c \in live /\ c \in Contexts /\ x \in ContextRec /\ SameAlive(surf)
      /\ k \in Slots /\ call.refresh \in SUBSET Refs /\ x.current \in Surfaces
  BY DEF TypeOK, SameAlive, SurfTable, Attach, CallRec
<1>2. SameAlive(f) /\ \A S : SameAlive(Unheld(f, S))
  BY <1>1, PullAlive, UnheldType, UnheldAlive DEF SameAlive
<1>3. CapPoolPush(x, k) \in ContextRec /\ ReleaseUnrefd(x, k, call.refresh).x \in ContextRec
  BY <1>1, PushTypes, ReleaseTypes
<1>4. \/ Fail(c, x, surf)
      \/ Succeed(c, x, surf)
      \/ Succeed(c, CapPoolPush(x, k), surf)
      \/ \E S : Succeed(c, ReleaseUnrefd(x, k, call.refresh).x, Unheld(f, S))
      \/ Succeed(c, x, f)
  BY Zenon DEF Attach
<1> HIDE DEF x, f
<1>5. QED
  BY <1>1, <1>2, <1>3, <1>4, FailKeepsCurrent, FinishKeepsCurrent DEF Succeed

LEMMA CurrentExport ==
  ASSUME TypeOK, NEW s \in Surfaces, ExportSurface(s)
  PROVE  KeepsCurrent
<1>1. SameAlive(surf)
  BY DEF TypeOK, SameAlive, SurfTable
<1>2. PICK c \in OwningContexts(s) : \E x \in ClaimQueues(s, c) :
        ClaimAndExport(s, c, x, IF NeedsQueue(s, c)
                                THEN ReleaseCtxCaptureSurfaces(ctx[c]) ELSE surf)
  BY DEF ExportSurface
<1>3. c \in live /\ c \in Contexts /\ ctx[c] \in ContextRec
  BY DEF OwningContexts, Holds, TypeOK
<1>4. PICK x, f :
        /\ x \in ContextRec
        /\ x.current = ctx[c].current
        /\ SameAlive(f)
        /\ ClaimAndExport(s, c, x, f)
  <2>1. PICK x \in ClaimQueues(s, c) :
          ClaimAndExport(s, c, x, IF NeedsQueue(s, c)
                                  THEN ReleaseCtxCaptureSurfaces(ctx[c]) ELSE surf)
    BY <1>2
  <2>2. x \in ContextRec
    BY <1>3, ClaimQueuesTypes
  <2>3. x.current = ctx[c].current
    <3>1. \A z \in OutputQueues(CaptureStopped(ctx[c])) : \A n :
            CaptureQueue(z, n).current = ctx[c].current
      BY <1>3, CurrentKept
    <3>2. QED  BY <3>1 DEF ClaimQueues
  <2>4. SameAlive(ReleaseCtxCaptureSurfaces(ctx[c]))
    BY <1>1, UnheldType, UnheldAlive DEF ReleaseCtxCaptureSurfaces, SameAlive
  <2>5. QED  BY <1>1, <2>1, <2>2, <2>3, <2>4
<1>5. CASE surf' = f /\ ctx' = [ctx EXCEPT ![c] = x]
  <2>1. \A d \in live : ctx'[d].current = ctx[d].current
    BY <1>3, <1>4, <1>5 DEF TypeOK
  <2>2. QED  BY <1>4, <1>5, <2>1 DEF KeepsCurrent, SameAlive, ExportSurface
<1>6. CASE ~(surf' = f /\ ctx' = [ctx EXCEPT ![c] = x])
  <2>1. PICK k, fd :
          /\ ctx' = [ctx EXCEPT ![c] =
                       IF surf[s].index = None THEN [x EXCEPT !.free = @ \ {k}] ELSE x]
          /\ surf' = [f EXCEPT ![s].index = k, ![s].expbuf = fd,
                               ![s].from = IF surf[s].index = None THEN c ELSE @]
    BY <1>4, <1>6, Zenon DEF ClaimAndExport
  <2>2. \A t \in Surfaces : surf'[t].alive = f[t].alive
    BY <1>4, <2>1 DEF SameAlive, SurfTable, SurfaceRec
  <2>3. \A d \in live : ctx'[d].current = ctx[d].current
    BY <1>3, <1>4, <2>1 DEF TypeOK, ContextRec
  <2>4. QED  BY <1>4, <2>2, <2>3 DEF KeepsCurrent, SameAlive, ExportSurface
<1>7. QED  BY <1>5, <1>6

LEMMA CurrentContexts ==
  ASSUME TypeOK, NEW c \in Contexts,
         CreateContext(c) \/ CreateContextFails(c) \/ DestroyContext(c)
  PROVE  KeepsCurrent
<1>1. surf \in SurfTable
  BY DEF TypeOK, SurfTable
<1>2. \A S : \A s \in Surfaces : Unheld(surf, S)[s].alive = surf[s].alive
  BY <1>1, UnheldAlive
<1>3. CASE CreateContext(c)
  <2>1. \A T, n, on : NewContext(c, T, n, on).current = NoSurface
    BY DEF NewContext, ClosedContext, CaptureQueue
  <2>2. \A d \in live' : \/ d \in live /\ ctx'[d].current = ctx[d].current
                         \/ ctx'[d].current = NoSurface
    BY <1>3, <2>1 DEF CreateContext, TypeOK
  <2>3. QED  BY <1>2, <1>3, <2>2 DEF CreateContext, KeepsCurrent
<1>4. CASE CreateContextFails(c)
  BY <1>2, <1>4 DEF CreateContextFails, KeepsCurrent
<1>5. CASE DestroyContext(c)
  BY <1>2, <1>5 DEF DestroyContext, KeepsCurrent, ReleaseCtxCaptureSurfaces, TypeOK
<1>6. QED  BY <1>3, <1>4, <1>5

LEMMA CurrentSurfaces ==
  ASSUME TypeOK, CurrentSurfaceAlive, NEW s \in Surfaces,
         CreateSurface(s) \/ DestroySurfaces(s) \/ SyncSurface(s)
  PROVE  CurrentSurfaceAlive'
<1>1. CASE CreateSurface(s)
  <2>1. KeepsCurrent
    BY <1>1 DEF CreateSurface, KeepsCurrent, TypeOK, NewSurface
  <2>2. QED  BY <2>1, KeepsCurrentAlive
<1>2. CASE SyncSurface(s)
  <2>1. KeepsCurrent
    BY <1>2 DEF SyncSurface, KeepsCurrent, TypeOK, SurfaceRec
  <2>2. QED  BY <2>1, KeepsCurrentAlive
<1>3. CASE DestroySurfaces(s)
  <2>1. \A c \in live : c \in Contexts /\ ctx[c] \in ContextRec
    BY DEF TypeOK
  <2>2. \A c \in live : ctx'[c].current = IF ctx[c].current = s THEN NoSurface
                                         ELSE ctx[c].current
    BY <1>3, <2>1 DEF DestroySurfaces, DetachSurface, ContextRec
  <2>3. \A t \in Surfaces \ {s} : surf'[t] = surf[t]
    BY <1>3 DEF DestroySurfaces, TypeOK
  <2>4. \A c \in live : ctx[c].current \in Surfaces \cup {NoSurface}
    BY <2>1 DEF ContextRec
  <2>5. QED  BY <1>3, <2>2, <2>3, <2>4 DEF CurrentSurfaceAlive, DestroySurfaces
<1>4. QED  BY <1>1, <1>2, <1>3

LEMMA CurrentBeginPicture ==
  ASSUME TypeOK, CurrentSurfaceAlive, NEW c \in Contexts, NEW s \in Surfaces,
         BeginPicture(c, s)
  PROVE  CurrentSurfaceAlive'
<1>1. surf \in SurfTable /\ ctx[c] \in ContextRec
  BY DEF TypeOK, SurfTable
<1>2. \A t \in Surfaces : surf'[t].alive = surf[t].alive
  BY <1>1, UnheldAlive DEF BeginPicture
<1>3. ctx'[c].current = s /\ \A d \in live \ {c} : ctx'[d] = ctx[d]
  BY <1>1 DEF BeginPicture, CapPoolPush, TypeOK, ContextRec
<1>4. \A d \in live : ctx[d].current \in Surfaces \cup {NoSurface}
  BY DEF TypeOK, ContextRec
<1>5. QED  BY <1>2, <1>3, <1>4 DEF BeginPicture, CurrentSurfaceAlive

LEMMA CurrentNext ==
  TypeOK /\ CurrentSurfaceAlive /\ [Next]_vars => CurrentSurfaceAlive'
<1> SUFFICES ASSUME TypeOK, CurrentSurfaceAlive, [Next]_vars
             PROVE  CurrentSurfaceAlive'
  OBVIOUS
<1>1. CASE UNCHANGED vars
  BY <1>1 DEF vars, CurrentSurfaceAlive
<1>2. CASE Next
  <2>1. ASSUME NEW c \in Contexts, EndPicture(c) PROVE CurrentSurfaceAlive'
    BY <2>1, CurrentEndPicture, KeepsCurrentAlive DEF EndPicture
  <2>2. CASE Prepare \/ Start \/ Submit \/ Wait \/ Attach
    BY <2>2, CurrentPrepare, CurrentStart, CurrentSubmit, CurrentWait,
       CurrentAttach, KeepsCurrentAlive
  <2>3. ASSUME NEW s \in Surfaces, ExportSurface(s) PROVE CurrentSurfaceAlive'
    BY <2>3, CurrentExport, KeepsCurrentAlive
  <2>4. ASSUME NEW c \in Contexts,
               CreateContext(c) \/ CreateContextFails(c) \/ DestroyContext(c)
        PROVE  CurrentSurfaceAlive'
    BY <2>4, CurrentContexts, KeepsCurrentAlive
  <2>5. QED
    BY <1>2, <2>1, <2>2, <2>3, <2>4, CurrentSurfaces, CurrentBeginPicture DEF Next
<1>3. QED  BY <1>1, <1>2

(* A context's current_surface never points to a freed surface, whatever   *)
(* is created, destroyed, exported or decoded between vaBeginPicture and   *)
(* vaEndPicture, with any number of contexts: end_picture and the          *)
(* translators dereference it without looking the surface up again.        *)
THEOREM CurrentNeverDangles == Spec => []CurrentSurfaceAlive
<1>1. Init => CurrentSurfaceAlive
  BY DEF Init, CurrentSurfaceAlive
<1>2. QED  BY <1>1, TypesCorrect, CurrentNext, PTL DEF Spec

-----------------------------------------------------------------------------
(***************************************************************************)
(* SlotsExclusive for every instance of the GBM-copy mode (ExpbufWanted    *)
(* FALSE) whose clients keep to the render targets (ListedOnly).           *)
(*                                                                         *)
(* SlotsExclusive says nothing of who listed the surface that holds a      *)
(* slot, of the queue's size or of the AV1 reference table, and each of    *)
(* the four ways back into the pool trusts one of these: a destroyed or    *)
(* re-targeted surface, that its index belongs to the context that lists   *)
(* it; rebuild_free_pools, that every holder is a render target;           *)
(* av1_release_unrefd, that the owner it recorded is the only holder.      *)
(* PoolOK states them.                                                     *)
(***************************************************************************)

(* Surface s holds a slot of context c, by the surface table f.            *)
InPool(f, s, c) == f[s].from = c /\ f[s].index # None

HoldersOK(c, x, f, p) ==
  \A s \in Surfaces : InPool(f, s, c) =>
    /\ s \in x.targets
    /\ f[s].index < x.allocd
    /\ f[s].index \notin x.free
    /\ f[s].index # p

DistinctOK(c, f) ==
  \A s, t \in Surfaces :
    InPool(f, s, c) /\ InPool(f, t, c) /\ f[s].index = f[t].index => s = t

FlightOK(x, p) == p # None => p \notin x.free /\ p < x.allocd

RefsOK(c, x, f, p) ==
  \A r \in Refs : x.slotBuf[r] # None =>
    /\ x.slotBuf[r] \notin x.free
    /\ x.slotBuf[r] # p
    /\ x.streamed /\ x.active /\ Codec[c] = "AV1"
    /\ \A s \in Surfaces : InPool(f, s, c) /\ f[s].index = x.slotBuf[r] =>
                             x.owner[x.slotBuf[r]] = s

(* Context c, with record x, agrees with the surface table f while the     *)
(* decoder writes slot p (None: no slot).                                  *)
PoolOK(c, x, f, p) ==
  /\ HoldersOK(c, x, f, p) /\ DistinctOK(c, f)
  /\ FlightOK(x, p) /\ RefsOK(c, x, f, p)

FlightSlot(c) ==
  IF call.ctx = c /\ call.at \in {"wait", "attach"} /\ ~call.bad
  THEN call.cap ELSE None

Decoder(c) == Codec[c] \notin M2MCodecs

SurfacesOK ==
  \A s \in Surfaces : surf[s].index # None => surf[s].alive /\ surf[s].from \in live

ContextsOK ==
  \A c \in live :
    /\ ~Decoder(c) => ctx[c].allocd = 0
    /\ Decoder(c) /\ ctx[c].current # NoSurface => ctx[c].current \in ctx[c].targets

TargetsDisjoint ==
  \A c, d \in live : Decoder(c) /\ Decoder(d) /\ c # d =>
                       ctx[c].targets \cap ctx[d].targets = {}

CallOK ==
  /\ call.at # "idle" => Decoder(call.ctx)
  /\ call.at \in {"submit", "wait", "attach"} => ctx[call.ctx].streamed
  /\ call.at # "attach" => ~call.bad

PoolsOK == \A c \in live : PoolOK(c, ctx[c], surf, FlightSlot(c))

SlotInv == SurfacesOK /\ ContextsOK /\ TargetsDisjoint /\ CallOK /\ PoolsOK

(* The inductive invariant.                                                *)
IInv == TypeOK /\ CurrentSurfaceAlive /\ SlotInv

GbmMode == ListedOnly /\ ~ExpbufWanted

LEMMA InvImpliesExclusive == IInv => SlotsExclusive
<1> SUFFICES ASSUME IInv, NEW c \in live, NEW k \in Slots
             PROVE  /\ \A s \in Surfaces : Holds(s, c, k) => k \notin ctx[c].free
                    /\ \A s, t \in Surfaces : Holds(s, c, k) /\ Holds(t, c, k) => s = t
                    /\ InFlight(c, k) =>
                         /\ k \notin ctx[c].free
                         /\ \A s \in Surfaces : Holds(s, c, k) => s = ctx[c].current
  BY DEF SlotsExclusive
<1>1. PoolOK(c, ctx[c], surf, FlightSlot(c)) /\ k # None
  BY SlotFacts DEF IInv, SlotInv, PoolsOK
<1>2. \A s \in Surfaces : Holds(s, c, k) => InPool(surf, s, c) /\ surf[s].index = k
  BY <1>1 DEF Holds, InPool
<1>3. InFlight(c, k) => FlightSlot(c) = k
  BY DEF InFlight, FlightSlot
<1>4. QED  BY <1>1, <1>2, <1>3 DEF PoolOK, HoldersOK, DistinctOK, FlightOK

-----------------------------------------------------------------------------
(* How PoolOK changes.                                                     *)

(* Every surface of f keeps the slot it had, has none, or has a slot of c. *)
Derived(f, c) ==
  /\ SameAlive(f)
  /\ \A s \in Surfaces : f[s].index # None =>
       /\ f[s].alive
       /\ \/ f[s].index = surf[s].index /\ f[s].from = surf[s].from
          \/ f[s].from = c

(* With fewer holders the pool still agrees.                               *)
LEMMA PoolFewer ==
  ASSUME NEW c, NEW x, NEW f, NEW g, NEW p, PoolOK(c, x, f, p),
         \A s \in Surfaces : InPool(g, s, c) =>
            InPool(f, s, c) /\ g[s].index = f[s].index
  PROVE  PoolOK(c, x, g, p)
BY DEF PoolOK, HoldersOK, DistinctOK, FlightOK, RefsOK

(* A pool that nobody holds a slot of, with an empty reference table.      *)
LEMMA PoolUnheld ==
  ASSUME NEW c, NEW x, NEW f, \A s \in Surfaces : ~InPool(f, s, c),
         \A r \in Refs : x.slotBuf[r] = None
  PROVE  PoolOK(c, x, f, None)
BY DEF PoolOK, HoldersOK, DistinctOK, FlightOK, RefsOK

(* Records that agree on what PoolOK looks at, but for the pool itself.    *)
SameQueue(y, x) ==
  /\ y.targets = x.targets /\ y.allocd = x.allocd
  /\ y.slotBuf = x.slotBuf /\ y.owner = x.owner
  /\ x.streamed => y.streamed
  /\ x.active => y.active

LEMMA PoolSame ==
  ASSUME NEW c, NEW x, NEW y, NEW f, NEW p, PoolOK(c, x, f, p),
         SameQueue(y, x), y.free = x.free
  PROVE  PoolOK(c, y, f, p)
BY DEF SameQueue, PoolOK, HoldersOK, DistinctOK, FlightOK, RefsOK

(* Slot k goes back: nobody may hold it or predict from it.                *)
LEMMA PoolPush ==
  ASSUME NEW c, NEW x, NEW y, NEW f, NEW p, PoolOK(c, x, f, p),
         NEW k, k # None,
         \A s \in Surfaces : InPool(f, s, c) => f[s].index # k,
         \A r \in Refs : x.slotBuf[r] # k,
         SameQueue(y, x), y.free = x.free \cup {k}
  PROVE  PoolOK(c, y, f, IF p = k THEN None ELSE p)
BY DEF SameQueue, PoolOK, HoldersOK, DistinctOK, FlightOK, RefsOK, InPool

(* A slot leaves the pool for the decoder: nobody held it.                 *)
LEMMA PoolTake ==
  ASSUME NEW c, NEW x, NEW y, NEW f, PoolOK(c, x, f, None),
         NEW k \in x.free, k # None, k < x.allocd,
         SameQueue(y, x), y.free = x.free \ {k}
  PROVE  PoolOK(c, y, f, k)
BY DEF SameQueue, PoolOK, HoldersOK, DistinctOK, FlightOK, RefsOK

(* A step of context c alone keeps what IInv says of the tables if the     *)
(* context it leaves behind agrees with the surfaces it leaves behind.     *)
LEMMA StepInv ==
  ASSUME IInv, NEW c \in live, NEW f, Derived(f, c),
         live' = live,
         \A s \in Surfaces : /\ surf'[s].index = f[s].index
                             /\ surf'[s].from = f[s].from
                             /\ surf'[s].alive = f[s].alive,
         \A d \in live \ {c} : ctx'[d] = ctx[d],
         ctx'[c].targets = ctx[c].targets,
         Decoder(c) \/ ctx'[c].allocd = 0,
         Decoder(c) /\ ctx'[c].current # NoSurface => ctx'[c].current \in ctx[c].targets,
         PoolOK(c, ctx'[c], f, FlightSlot(c)'),
         \A d \in live \ {c} : FlightSlot(d) = None /\ FlightSlot(d)' = None
  PROVE  SurfacesOK' /\ ContextsOK' /\ TargetsDisjoint' /\ PoolsOK'
<1>1. SurfacesOK'
  BY DEF SurfacesOK, Derived, IInv, SlotInv
<1>2. ContextsOK'
  BY DEF ContextsOK, IInv, SlotInv, Decoder
<1>3. TargetsDisjoint'
  <2>1. \A d \in live : ctx'[d].targets = ctx[d].targets
    OBVIOUS
  <2>2. QED  BY <2>1 DEF TargetsDisjoint, IInv, SlotInv, Decoder
<1>4. PoolOK(c, ctx'[c], surf', FlightSlot(c)')
  BY PoolFewer DEF InPool
<1>5. \A d \in live \ {c} : PoolOK(d, ctx'[d], surf', FlightSlot(d)')
  <2> SUFFICES ASSUME NEW d \in live \ {c} PROVE PoolOK(d, ctx[d], surf', None)
    OBVIOUS
  <2>1. PoolOK(d, ctx[d], surf, None)
    BY DEF IInv, SlotInv, PoolsOK
  <2>2. QED  BY <2>1, PoolFewer DEF InPool, Derived
<1>6. PoolsOK'
  BY <1>4, <1>5 DEF PoolsOK
<1>7. QED  BY <1>1, <1>2, <1>3, <1>6

(* The exits of vaEndPicture.                                              *)
LEMMA FinishInv ==
  ASSUME IInv, NEW c \in live, NEW x \in ContextRec, NEW f, Derived(f, c),
         NEW st, NEW ret,
         x.targets = ctx[c].targets, Decoder(c) \/ x.allocd = 0,
         PoolOK(c, x, f, None),
         call.at = "idle" \/ call.ctx = c,
         Finish(c, x, f, st, ret)
  PROVE  SlotInv'
<1>1. /\ f \in SurfTable /\ c \in Contexts
      /\ ctx \in [Contexts -> ContextRec] /\ live \subseteq Contexts
  BY DEF IInv, TypeOK, Derived, SameAlive
<1>2. live' = live /\ call'.at = "idle" /\ call'.bad = FALSE
  BY DEF Finish, Idle
<1>3. \A s \in Surfaces : /\ surf'[s].index = f[s].index
                          /\ surf'[s].from = f[s].from
                          /\ surf'[s].alive = f[s].alive
  BY <1>1 DEF Finish, SurfTable, SurfaceRec
<1>4. /\ ctx'[c] = [x EXCEPT !.current = NoSurface]
      /\ \A d \in live \ {c} : ctx'[d] = ctx[d]
  BY <1>1 DEF Finish
<1>5. /\ ctx'[c].targets = ctx[c].targets /\ ctx'[c].allocd = x.allocd
      /\ ctx'[c].free = x.free /\ ctx'[c].slotBuf = x.slotBuf
      /\ ctx'[c].owner = x.owner /\ ctx'[c].streamed = x.streamed
      /\ ctx'[c].active = x.active /\ ctx'[c].current = NoSurface
  BY <1>4 DEF ContextRec
<1>6. PoolOK(c, ctx'[c], f, None)
  <2> DEFINE y == ctx'[c]
  <2>1. SameQueue(y, x) /\ y.free = x.free
    BY <1>5 DEF SameQueue
  <2> HIDE DEF y
  <2>2. PoolOK(c, y, f, None)
    BY <2>1, PoolSame
  <2>3. QED  BY <2>2 DEF y
<1>7. /\ \A d : FlightSlot(d)' = None
      /\ \A d \in live \ {c} : FlightSlot(d) = None
  BY <1>2 DEF FlightSlot
<1>8. CallOK'
  BY <1>2 DEF CallOK
<1>9. SurfacesOK' /\ ContextsOK' /\ TargetsDisjoint' /\ PoolsOK'
  <2>1. PoolOK(c, ctx'[c], f, FlightSlot(c)')
    BY <1>6, <1>7
  <2>2. /\ Decoder(c) \/ ctx'[c].allocd = 0
        /\ ctx'[c].targets = ctx[c].targets
        /\ Decoder(c) /\ ctx'[c].current # NoSurface => ctx'[c].current \in ctx[c].targets
    BY <1>5
  <2>3. /\ live' = live
        /\ \A d \in live \ {c} : ctx'[d] = ctx[d]
        /\ \A d \in live \ {c} : FlightSlot(d) = None /\ FlightSlot(d)' = None
    BY <1>2, <1>4, <1>7
  <2>4. QED  BY <1>3, <2>1, <2>2, <2>3, StepInv
<1>10. QED  BY <1>8, <1>9 DEF SlotInv

LEMMA FailInv ==
  ASSUME IInv, NEW c \in live, NEW x \in ContextRec, NEW f, Derived(f, c),
         x.targets = ctx[c].targets, Decoder(c) \/ x.allocd = 0,
         PoolOK(c, x, f, None),
         call.at = "idle" \/ call.ctx = c,
         Fail(c, x, f)
  PROVE  SlotInv'
<1> DEFINE y == [x EXCEPT !.request = "none"]
<1>1. /\ y \in ContextRec /\ y.targets = x.targets /\ y.allocd = x.allocd
      /\ y.free = x.free /\ SameQueue(y, x)
  BY DEF ContextRec, SameQueue
<1>2. Finish(c, y, f, "Skipped", "error")
  BY DEF Fail
<1> HIDE DEF y
<1>3. PoolOK(c, y, f, None)
  BY <1>1, PoolSame
<1>4. QED  BY <1>1, <1>2, <1>3, FinishInv

(* The jumps from one step of vaEndPicture to the next.                    *)
LEMMA GotoInv ==
  ASSUME IInv, NEW c \in live, Decoder(c), NEW x \in ContextRec, NEW f, Derived(f, c),
         NEW next,
         x.targets = ctx[c].targets, x.current = ctx[c].current,
         call.at = "idle" \/ call.ctx = c,
         next.ctx = c,
         next.at \in {"submit", "wait", "attach"} => x.streamed,
         next.at # "attach" => ~next.bad,
         PoolOK(c, x, f, IF next.at \in {"wait", "attach"} /\ ~next.bad
                         THEN next.cap ELSE None),
         Goto(c, x, f, next)
  PROVE  SlotInv'
<1>1. c \in Contexts /\ ctx \in [Contexts -> ContextRec] /\ live \subseteq Contexts
  BY DEF IInv, TypeOK
<1>2. /\ live' = live /\ surf' = f /\ call' = next /\ ctx'[c] = x
      /\ \A d \in live \ {c} : ctx'[d] = ctx[d]
  BY <1>1 DEF Goto
<1>3. /\ PoolOK(c, x, f, FlightSlot(c)')
      /\ \A d \in live \ {c} : FlightSlot(d) = None /\ FlightSlot(d)' = None
  BY <1>2 DEF FlightSlot
<1>4. CallOK'
  BY <1>2 DEF CallOK, Decoder
<1>5. x.current # NoSurface => x.current \in ctx[c].targets
  BY DEF IInv, SlotInv, ContextsOK
<1>6. SurfacesOK' /\ ContextsOK' /\ TargetsDisjoint' /\ PoolsOK'
  BY <1>2, <1>3, <1>5, StepInv
<1>7. QED  BY <1>4, <1>6 DEF SlotInv

-----------------------------------------------------------------------------
(* The steps of vaEndPicture.                                              *)

LEMMA TablesDerived ==
  ASSUME IInv, NEW c
  PROVE  Derived(surf, c) /\ \A S : Derived(Unheld(surf, S), c)
<1>1. surf \in SurfTable /\ SameAlive(surf)
  BY DEF IInv, TypeOK, SurfTable, SameAlive
<1>2. Derived(surf, c)
  BY <1>1 DEF Derived, IInv, SlotInv, SurfacesOK
<1>3. \A S : \A s \in Surfaces :
        Unheld(surf, S)[s] \in {surf[s], [surf[s] EXCEPT !.index = None, !.from = NoContext]}
  BY DEF Unheld
<1>4. \A s \in Surfaces :
        [surf[s] EXCEPT !.index = None, !.from = NoContext].index = None
  BY <1>1 DEF SurfTable, SurfaceRec
<1>5. \A S : SameAlive(Unheld(surf, S))
  BY <1>1, UnheldType, UnheldAlive DEF SameAlive
<1>6. ASSUME NEW S PROVE Derived(Unheld(surf, S), c)
  <2> DEFINE f == Unheld(surf, S)
  <2>1. \A s \in Surfaces : f[s] = surf[s] \/ f[s].index = None
    BY <1>3, <1>4
  <2>2. SameAlive(f)
    BY <1>5
  <2> HIDE DEF f
  <2>3. Derived(f, c)
    BY <1>2, <2>1, <2>2 DEF Derived
  <2>4. QED  BY <2>3 DEF f
<1>7. QED  BY <1>2, <1>6

LEMMA CallFacts ==
  ASSUME IInv, call.at # "idle"
  PROVE  LET c == call.ctx
         IN  /\ c \in live /\ c \in Contexts /\ ctx[c] \in ContextRec /\ Decoder(c)
             /\ ctx[c].current \in Surfaces /\ ctx[c].current \in ctx[c].targets
             /\ surf[ctx[c].current].alive
             /\ PoolOK(c, ctx[c], surf, FlightSlot(c))
             /\ call \in CallRec
<1>1. call.ctx \in live /\ ctx[call.ctx].current \in Surfaces /\ call \in CallRec
  BY DEF IInv, TypeOK
<1>2. call.ctx \in Contexts /\ ctx[call.ctx] \in ContextRec
  BY <1>1 DEF IInv, TypeOK
<1>3. ctx[call.ctx].current # NoSurface
  BY <1>1, ConstantAssumption
<1>4. Decoder(call.ctx)
  BY DEF IInv, SlotInv, CallOK
<1>5. ctx[call.ctx].current \in ctx[call.ctx].targets /\ surf[ctx[call.ctx].current].alive
  BY <1>1, <1>3, <1>4 DEF IInv, SlotInv, ContextsOK, CurrentSurfaceAlive
<1>6. PoolOK(call.ctx, ctx[call.ctx], surf, FlightSlot(call.ctx))
  BY <1>1 DEF IInv, SlotInv, PoolsOK
<1>7. QED  BY <1>1, <1>2, <1>4, <1>5, <1>6

LEMMA InvEndPicture ==
  ASSUME IInv, NEW c \in Contexts, EndPicture(c)
  PROVE  SlotInv'
<1> DEFINE next == [Idle EXCEPT !.at = "prepare", !.ctx = c]
<1>1. c \in live /\ call.at = "idle" /\ ctx[c] \in ContextRec
  BY DEF EndPicture, LockFree, IInv, TypeOK
<1>2. Derived(surf, c)
  BY TablesDerived
<1>3. PoolOK(c, ctx[c], surf, None)
  <2>1. FlightSlot(c) = None
    BY <1>1 DEF FlightSlot
  <2>2. QED  BY <1>1, <2>1 DEF IInv, SlotInv, PoolsOK
<1>4. Decoder(c) \/ ctx[c].allocd = 0
  BY <1>1 DEF IInv, SlotInv, ContextsOK
<1>5. CASE \E st, ret : Finish(c, ctx[c], surf, st, ret)
  BY <1>1, <1>2, <1>3, <1>4, <1>5, FinishInv
<1>6. CASE Decoder(c) /\ Goto(c, ctx[c], surf, next)
  <2>1. next.at = "prepare" /\ next.ctx = c /\ next.bad = FALSE
    BY DEF Idle
  <2> HIDE DEF next
  <2>2. QED  BY <1>1, <1>2, <1>3, <1>6, <2>1, GotoInv
<1>7. QED  BY <1>5, <1>6 DEF EndPicture, Decoder

LEMMA HeadersQueue ==
  ASSUME NEW c, NEW x \in ContextRec, NEW h \in Headers(c, x)
  PROVE  SameQueue(h.x, x) /\ h.x.free = x.free /\ h.x.streamed = x.streamed
<1>1. CASE Codec[c] # "AV1"
  BY <1>1 DEF Headers, SameQueue
<1>2. CASE Codec[c] = "AV1"
  <2>1. PICK obu \in BOOLEAN : h.x = [x EXCEPT !.active = x.active \/ obu]
    BY <1>2 DEF Headers
  <2>2. \A b : /\ [x EXCEPT !.active = b].targets = x.targets
               /\ [x EXCEPT !.active = b].allocd = x.allocd
               /\ [x EXCEPT !.active = b].slotBuf = x.slotBuf
               /\ [x EXCEPT !.active = b].owner = x.owner
               /\ [x EXCEPT !.active = b].streamed = x.streamed
               /\ [x EXCEPT !.active = b].free = x.free
               /\ [x EXCEPT !.active = b].active = b
    BY DEF ContextRec
  <2>3. x.active => h.x.active
    BY <2>1, <2>2, Zenon
  <2>4. /\ h.x.targets = x.targets /\ h.x.allocd = x.allocd /\ h.x.free = x.free
        /\ h.x.slotBuf = x.slotBuf /\ h.x.owner = x.owner /\ h.x.streamed = x.streamed
    <3>1. PICK b : h.x = [x EXCEPT !.active = b]
      BY <2>1, Zenon
    <3>2. QED  BY <2>2, <3>1
  <2>5. QED  BY <2>3, <2>4, Zenon DEF SameQueue
<1>3. QED  BY <1>1, <1>2

(* ensure_capture takes every slot of the old queue from its holders, who  *)
(* are all render targets, and stops the queue, which empties the model.   *)
LEMMA InvEnsureCapture ==
  ASSUME IInv, NEW c \in live, Decoder(c), call.ctx = c, NEW x \in ContextRec,
         x.targets = ctx[c].targets, x.current = ctx[c].current,
         PoolOK(c, x, surf, None), NEW next,
         next.ctx = c, next.at = "start", ~next.bad,
         EnsureCapture(c, x, next)
  PROVE  SlotInv'
<1> DEFINE y == CaptureStopped(x)
           f == ReleaseCtxCaptureSurfaces(x)
<1>1. Derived(surf, c) /\ Derived(f, c) /\ c \in Contexts
  BY TablesDerived DEF ReleaseCtxCaptureSurfaces, IInv, TypeOK
<1>2. y \in ContextRec /\ y.targets = x.targets /\ y.current = x.current
  <2>1. y \in ContextRec
    BY ResetTypes
  <2>2. y.targets = x.targets /\ y.current = x.current
    BY DEF CaptureStopped, DpbModelReset, StreamOff, ContextRec
  <2>3. QED  BY <2>1, <2>2
<1>3. \A r \in Refs : y.slotBuf[r] = None
  <2>1. CASE x.streamed
    BY <2>1 DEF CaptureStopped, DpbModelReset, StreamOff, ContextRec
  <2>2. CASE ~x.streamed
    BY <2>2 DEF CaptureStopped, PoolOK, RefsOK
  <2>3. QED  BY <2>1, <2>2
<1>4. \A s \in Surfaces : ~InPool(f, s, c)
  <2> SUFFICES ASSUME NEW s \in Surfaces, InPool(f, s, c) PROVE FALSE
    OBVIOUS
  <2>1. surf[s] \in SurfaceRec
    BY DEF IInv, TypeOK
  <2>2. CASE s \in x.targets /\ surf[s].alive
    BY <2>1, <2>2 DEF ReleaseCtxCaptureSurfaces, Unheld, InPool, SurfaceRec
  <2>3. CASE ~(s \in x.targets /\ surf[s].alive)
    <3>1. f[s] = surf[s]
      BY <2>3 DEF ReleaseCtxCaptureSurfaces, Unheld
    <3>2. s \in x.targets
      BY <3>1 DEF InPool, PoolOK, HoldersOK
    <3>3. surf[s].alive
      BY <3>1 DEF InPool, IInv, SlotInv, SurfacesOK
    <3>4. QED  BY <2>3, <3>2, <3>3
  <2>4. QED  BY <2>2, <2>3
<1> HIDE DEF y, f
<1>5. \A z \in OutputQueues(y), n \in 0 .. NumCapAV1 :
        LET q == CaptureQueue(z, n)
        IN  /\ q \in ContextRec /\ q.targets = x.targets /\ q.current = x.current
            /\ q.slotBuf = y.slotBuf
  <2> SUFFICES ASSUME NEW z \in OutputQueues(y), NEW n \in 0 .. NumCapAV1
               PROVE  LET q == CaptureQueue(z, n)
                      IN  /\ q \in ContextRec /\ q.targets = x.targets
                          /\ q.current = x.current /\ q.slotBuf = y.slotBuf
    OBVIOUS
  <2>1. z \in ContextRec /\ CaptureQueue(z, n) \in ContextRec
    BY <1>2, ResetTypes
  <2>2. z.targets = y.targets /\ z.current = y.current /\ z.slotBuf = y.slotBuf
    BY <1>2 DEF OutputQueues, ContextRec
  <2>3. QED  BY <1>2, <2>1, <2>2 DEF CaptureQueue, ContextRec
<1>6. 0 \in 0 .. NumCapAV1 /\ CapGrants(c) \subseteq 0 .. NumCapAV1
  BY <1>1, SlotFacts
<1>7. CASE Goto(c, x, surf, next)
  BY <1>1, <1>7, GotoInv
<1>8. CASE Fail(c, y, f)
  <2>1. PoolOK(c, y, f, None)
    BY <1>3, <1>4, PoolUnheld
  <2>2. QED  BY <1>1, <1>2, <1>8, <2>1, FailInv
<1>9. ASSUME NEW z \in OutputQueues(y), Fail(c, CaptureQueue(z, 0), f)
      PROVE  SlotInv'
  <2> DEFINE q == CaptureQueue(z, 0)
  <2>1. q \in ContextRec /\ q.targets = x.targets /\ q.slotBuf = y.slotBuf
    BY <1>5, <1>6
  <2> HIDE DEF q
  <2>2. PoolOK(c, q, f, None)
    BY <1>3, <1>4, <2>1, PoolUnheld
  <2>3. Fail(c, q, f)
    BY <1>9 DEF q
  <2>4. QED  BY <1>1, <2>1, <2>2, <2>3, FailInv
<1>10. ASSUME NEW z \in OutputQueues(y), NEW n \in CapGrants(c),
              Goto(c, CaptureQueue(z, n), f, next)
       PROVE  SlotInv'
  <2> DEFINE q == CaptureQueue(z, n)
  <2>1. /\ q \in ContextRec /\ q.targets = x.targets /\ q.slotBuf = y.slotBuf
        /\ q.current = x.current
    BY <1>5, <1>6
  <2> HIDE DEF q
  <2>2. PoolOK(c, q, f, None)
    BY <1>3, <1>4, <2>1, PoolUnheld
  <2>3. Goto(c, q, f, next)
    BY <1>10 DEF q
  <2>4. QED  BY <1>1, <2>1, <2>2, <2>3, GotoInv
<1>11. QED  BY <1>7, <1>8, <1>9, <1>10 DEF EnsureCapture, y, f

LEMMA InvPrepare == ASSUME IInv, Prepare PROVE SlotInv'
<1> DEFINE c == call.ctx
<1>1. /\ c \in live /\ ctx[c] \in ContextRec /\ Decoder(c) /\ Derived(surf, c)
      /\ call.at = "prepare" /\ call \in CallRec /\ ~call.bad
  BY CallFacts, TablesDerived DEF Prepare, IInv, SlotInv, CallOK
<1>2. PoolOK(c, ctx[c], surf, None)
  <2>1. FlightSlot(c) = None
    BY <1>1 DEF FlightSlot
  <2>2. QED  BY <1>1, <2>1 DEF IInv, SlotInv, PoolsOK
<1>3. \A h \in Headers(c, ctx[c]) :
        /\ h.x \in ContextRec /\ h.x.targets = ctx[c].targets
        /\ h.x.current = ctx[c].current /\ PoolOK(c, h.x, surf, None)
  <2> SUFFICES ASSUME NEW h \in Headers(c, ctx[c])
               PROVE  /\ h.x \in ContextRec /\ h.x.targets = ctx[c].targets
                      /\ h.x.current = ctx[c].current /\ PoolOK(c, h.x, surf, None)
    OBVIOUS
  <2>1. SameQueue(h.x, ctx[c]) /\ h.x.free = ctx[c].free
    BY <1>1, HeadersQueue
  <2>2. PoolOK(c, h.x, surf, None)
    BY <1>2, <2>1, PoolSame
  <2>3. h.x \in ContextRec /\ h.x.current = ctx[c].current
    BY <1>1, HeadersTypes
  <2>4. QED  BY <2>1, <2>2, <2>3 DEF SameQueue
<1>4. CASE Fail(c, ctx[c], surf)
  BY <1>1, <1>2, <1>4, FailInv
<1>5. ASSUME NEW h \in Headers(c, ctx[c]), Fail(c, h.x, surf) PROVE SlotInv'
  BY <1>1, <1>3, <1>5, FailInv
<1>6. ASSUME NEW h \in Headers(c, ctx[c]),
             EnsureCapture(c, h.x, [call EXCEPT !.at = "start", !.refresh = h.refresh])
      PROVE  SlotInv'
  <2> DEFINE next == [call EXCEPT !.at = "start", !.refresh = h.refresh]
  <2>1. next.ctx = c /\ next.at = "start" /\ next.bad = call.bad
    BY <1>1 DEF CallRec
  <2> HIDE DEF next
  <2>2. EnsureCapture(c, h.x, next)
    BY <1>6 DEF next
  <2>3. QED  BY <1>1, <1>3, <2>1, <2>2, InvEnsureCapture
<1>7. QED  BY <1>4, <1>5, <1>6 DEF Prepare

LEMMA InvStart == ASSUME IInv, Start PROVE SlotInv'
<1> DEFINE c == call.ctx
           x == [ctx[c] EXCEPT !.streamed = TRUE]
<1>1. /\ c \in live /\ ctx[c] \in ContextRec /\ Decoder(c) /\ Derived(surf, c)
      /\ call.at = "start" /\ call \in CallRec /\ ~call.bad
  BY CallFacts, TablesDerived DEF Start, IInv, SlotInv, CallOK
<1>2. PoolOK(c, ctx[c], surf, None)
  <2>1. FlightSlot(c) = None
    BY <1>1 DEF FlightSlot
  <2>2. QED  BY <1>1, <2>1 DEF IInv, SlotInv, PoolsOK
<1>3. /\ x \in ContextRec /\ SameQueue(x, ctx[c]) /\ x.free = ctx[c].free
      /\ x.current = ctx[c].current /\ x.streamed
  BY <1>1 DEF ContextRec, SameQueue
<1> HIDE DEF x
<1>4. PoolOK(c, x, surf, None)
  BY <1>2, <1>3, PoolSame
<1>5. CASE Fail(c, ctx[c], surf)
  BY <1>1, <1>2, <1>5, FailInv
<1>6. CASE Fail(c, x, surf)
  BY <1>1, <1>3, <1>4, <1>6, FailInv DEF SameQueue
<1>7. ASSUME NEW o \in x.freeOut,
             Goto(c, [x EXCEPT !.freeOut = @ \ {o}], surf,
                  [call EXCEPT !.at = "submit", !.out = o])
      PROVE  SlotInv'
  <2> DEFINE next == [call EXCEPT !.at = "submit", !.out = o]
             z == [x EXCEPT !.freeOut = @ \ {o}]
  <2>1. /\ z \in ContextRec /\ SameQueue(z, x) /\ z.free = x.free
        /\ z.current = x.current /\ z.streamed = x.streamed /\ z.targets = x.targets
    BY <1>3 DEF ContextRec, SameQueue
  <2>2. next.ctx = c /\ next.at = "submit" /\ next.bad = call.bad
    BY <1>1 DEF CallRec
  <2> HIDE DEF next, z
  <2>3. PoolOK(c, z, surf, None)
    BY <1>4, <2>1, PoolSame
  <2>4. Goto(c, z, surf, next)
    BY <1>7 DEF next, z
  <2>5. x.targets = ctx[c].targets
    BY <1>3 DEF SameQueue
  <2>6. QED  BY <1>1, <1>3, <2>1, <2>2, <2>3, <2>4, <2>5, GotoInv
<1>8. QED  BY <1>5, <1>6, <1>7 DEF Start, x

LEMMA PushQueue ==
  ASSUME NEW x \in ContextRec, NEW k
  PROVE  /\ SameQueue(CapPoolPush(x, k), x) /\ CapPoolPush(x, k).free = x.free \cup {k}
         /\ SameQueue(OutPoolPush(x, k), x) /\ OutPoolPush(x, k).free = x.free
<1>1. SameQueue(CapPoolPush(x, k), x) /\ CapPoolPush(x, k).free = x.free \cup {k}
  BY DEF CapPoolPush, ContextRec, SameQueue
<1>2. SameQueue(OutPoolPush(x, k), x) /\ OutPoolPush(x, k).free = x.free
  BY DEF OutPoolPush, ContextRec, SameQueue
<1>3. QED  BY <1>1, <1>2

LEMMA InvSubmit == ASSUME IInv, ~ExpbufWanted, Submit PROVE SlotInv'
<1> DEFINE c == call.ctx
           o == call.out
<1>1. /\ c \in live /\ ctx[c] \in ContextRec /\ Decoder(c) /\ Derived(surf, c)
      /\ call.at = "submit" /\ call \in CallRec /\ ~call.bad /\ ctx[c].streamed
      /\ o \in OutSlots
  BY CallFacts, TablesDerived DEF Submit, IInv, SlotInv, CallOK, TypeOK
<1>2. PoolOK(c, ctx[c], surf, None)
  <2>1. FlightSlot(c) = None
    BY <1>1 DEF FlightSlot
  <2>2. QED  BY <1>1, <2>1 DEF IInv, SlotInv, PoolsOK
<1>3. CaptureChoices(ctx[c]) = ctx[c].free
  BY DEF CaptureChoices
(* A failure puts back what was taken. *)
<1>4. ASSUME NEW y \in ContextRec, SameQueue(y, ctx[c]), y.free = ctx[c].free,
             Fail(c, y, surf)
      PROVE  SlotInv'
  <2>1. PoolOK(c, y, surf, None)
    BY <1>2, <1>4, PoolSame
  <2>2. QED  BY <1>1, <1>4, <2>1, FailInv DEF SameQueue
<1>5. CASE Fail(c, OutPoolPush(ctx[c], o), surf)
  <2> DEFINE y == OutPoolPush(ctx[c], o)
  <2>1. y \in ContextRec /\ SameQueue(y, ctx[c]) /\ y.free = ctx[c].free
    BY <1>1, PushTypes DEF OutPoolPush, SameQueue, ContextRec
  <2>2. QED  BY <1>4, <1>5, <2>1
<1>6. ASSUME NEW k \in ctx[c].free, NEW x, x = [ctx[c] EXCEPT !.free = @ \ {k}],
             \/ Fail(c, CapPoolPush(OutPoolPush(x, o), k), surf)
             \/ Fail(c, CapPoolPush(x, k), surf)
             \/ \E d \in CapPoolPush(x, k).done :
                  Fail(c, OutPoolPush([CapPoolPush(x, k) EXCEPT !.done = @ \ {d}], d), surf)
             \/ /\ k < x.allocd
                /\ Goto(c, x, surf, [call EXCEPT !.at = "wait", !.cap = k])
      PROVE  SlotInv'
  <2>1. k \in Slots /\ k # None
    BY <1>1, SlotFacts DEF ContextRec
  <2>2. /\ x \in ContextRec /\ SameQueue(x, ctx[c]) /\ x.current = ctx[c].current
        /\ x.free = ctx[c].free \ {k} /\ x.streamed /\ x.targets = ctx[c].targets
    BY <1>1, <1>6 DEF ContextRec, SameQueue
  <2>3. \A z \in ContextRec : SameQueue(z, x) /\ z.free = x.free =>
          LET y == CapPoolPush(z, k)
          IN  y \in ContextRec /\ SameQueue(y, ctx[c]) /\ y.free = ctx[c].free
    <3> SUFFICES ASSUME NEW z \in ContextRec, SameQueue(z, x), z.free = x.free
                 PROVE  LET y == CapPoolPush(z, k)
                        IN  y \in ContextRec /\ SameQueue(y, ctx[c]) /\ y.free = ctx[c].free
      OBVIOUS
    <3>1. CapPoolPush(z, k) \in ContextRec /\ SameQueue(CapPoolPush(z, k), z)
      BY <2>1, PushTypes, PushQueue
    <3>2. CapPoolPush(z, k).free = ctx[c].free
      <4>1. CapPoolPush(z, k).free = (ctx[c].free \ {k}) \cup {k}
        BY <2>2, PushQueue
      <4>2. QED  BY <4>1
    <3>3. QED  BY <2>2, <3>1, <3>2 DEF SameQueue
  <2>4. CASE Fail(c, CapPoolPush(OutPoolPush(x, o), k), surf)
    <3>1. /\ OutPoolPush(x, o) \in ContextRec /\ SameQueue(OutPoolPush(x, o), x)
          /\ OutPoolPush(x, o).free = x.free
      BY <1>1, <2>2, PushTypes, PushQueue
    <3>2. QED  BY <1>4, <2>3, <2>4, <3>1
  <2>5. CASE Fail(c, CapPoolPush(x, k), surf)
    <3>1. SameQueue(x, x)
      BY DEF SameQueue
    <3>2. QED  BY <1>4, <2>2, <2>3, <2>5, <3>1
  <2>6. ASSUME NEW d \in CapPoolPush(x, k).done,
               Fail(c, OutPoolPush([CapPoolPush(x, k) EXCEPT !.done = @ \ {d}], d), surf)
        PROVE  SlotInv'
    <3> DEFINE y == CapPoolPush(x, k)
               z == OutPoolPush([y EXCEPT !.done = @ \ {d}], d)
    <3>1. y \in ContextRec /\ SameQueue(y, ctx[c]) /\ y.free = ctx[c].free
      <4>1. SameQueue(x, x)
        BY DEF SameQueue
      <4>2. QED  BY <2>2, <2>3, <4>1
    <3> HIDE DEF y
    <3>2. [y EXCEPT !.done = @ \ {d}] \in ContextRec /\ d \in OutSlots
      BY <3>1 DEF ContextRec, y
    <3>3. z \in ContextRec
      BY <3>2, PushTypes
    <3>4. SameQueue(z, ctx[c]) /\ z.free = ctx[c].free
      BY <3>1 DEF OutPoolPush, SameQueue, ContextRec
    <3>5. Fail(c, z, surf)
      BY <2>6 DEF y
    <3> HIDE DEF z
    <3>6. QED  BY <1>4, <3>3, <3>4, <3>5
  <2>7. CASE k < x.allocd /\ Goto(c, x, surf, [call EXCEPT !.at = "wait", !.cap = k])
    <3> DEFINE next == [call EXCEPT !.at = "wait", !.cap = k]
    <3>1. next.ctx = c /\ next.at = "wait" /\ next.cap = k /\ next.bad = call.bad
      BY <1>1 DEF CallRec
    <3> HIDE DEF next
    <3>2. PoolOK(c, x, surf, k)
      BY <1>2, <2>1, <2>2, <2>7, PoolTake DEF SameQueue
    <3>3. Goto(c, x, surf, next)
      BY <2>7 DEF next
    <3>4. PoolOK(c, x, surf, IF next.at \in {"wait", "attach"} /\ ~next.bad
                             THEN next.cap ELSE None)
      BY <1>1, <3>1, <3>2
    <3>5. QED  BY <1>1, <2>2, <3>1, <3>3, <3>4, GotoInv
  <2>8. QED  BY <1>6, <2>4, <2>5, <2>6, <2>7
<1>7. QED  BY <1>3, <1>5, <1>6 DEF Submit

LEMMA WaitQueue ==
  ASSUME NEW x \in ContextRec
  PROVE  /\ \A k : SameQueue(Spoiled(x, k), x) /\ Spoiled(x, k).free = x.free
         /\ \A k, R : SameQueue(Decoded(x, k, R), x) /\ Decoded(x, k, R).free = x.free
         /\ \A o : \A z \in Dequeued(x, o) : SameQueue(z, x) /\ z.free = x.free
         /\ \A r : LET z == [x EXCEPT !.request = r]
                   IN  SameQueue(z, x) /\ z.free = x.free
<1>1. \A k : SameQueue(Spoiled(x, k), x) /\ Spoiled(x, k).free = x.free
  BY DEF Spoiled, SameQueue, ContextRec
<1>2. \A k, R : SameQueue(Decoded(x, k, R), x) /\ Decoded(x, k, R).free = x.free
  BY DEF Decoded, SameQueue, ContextRec
<1>3. ASSUME NEW o, NEW z \in Dequeued(x, o) PROVE SameQueue(z, x) /\ z.free = x.free
  <2>1. \A S, D : LET v == [x EXCEPT !.freeOut = S, !.done = D]
                  IN  SameQueue(v, x) /\ v.free = x.free
    BY DEF SameQueue, ContextRec
  <2>2. \A D : LET v == [x EXCEPT !.done = D]
               IN  SameQueue(v, x) /\ v.free = x.free
    BY DEF SameQueue, ContextRec
  <2>3. \/ \E d : z = [x EXCEPT !.freeOut = x.freeOut \cup {d},
                                !.done = (x.done \cup {o}) \ {d}]
        \/ z = [x EXCEPT !.done = x.done \cup {o}]
    BY <1>3, Zenon DEF Dequeued
  <2>4. CASE z = [x EXCEPT !.done = x.done \cup {o}]
    BY <2>2, <2>4
  <2>5. CASE \E d : z = [x EXCEPT !.freeOut = x.freeOut \cup {d},
                                 !.done = (x.done \cup {o}) \ {d}]
    <3>1. PICK d : z = [x EXCEPT !.freeOut = x.freeOut \cup {d},
                                 !.done = (x.done \cup {o}) \ {d}]
      BY <2>5
    <3>2. QED  BY <2>1, <3>1
  <2>6. QED  BY <2>3, <2>4, <2>5
<1>4. \A r : LET z == [x EXCEPT !.request = r]
             IN  SameQueue(z, x) /\ z.free = x.free
  BY DEF SameQueue, ContextRec
<1>5. QED  BY <1>1, <1>2, <1>3, <1>4

(* decode_reset rebuilds the pool from what the render targets hold, and   *)
(* no other surface holds anything.                                        *)
LEMMA ResetPool ==
  ASSUME IInv, NEW c \in live, NEW x \in ContextRec, NEW p, PoolOK(c, x, surf, p),
         NEW k
  PROVE  LET y == DecodeReset(Spoiled(x, k))
         IN  y.targets = x.targets /\ PoolOK(c, y, surf, None)
<1> DEFINE y == DecodeReset(Spoiled(x, k))
<1>1. /\ y.targets = x.targets /\ y.allocd = x.allocd
      /\ y.slotBuf = [r \in Refs |-> None]
      /\ y.free = {j \in 0 .. x.allocd - 1 :
                     \A s \in x.targets : surf[s].alive => surf[s].index # j}
  BY DEF DecodeReset, RebuildFreePools, DpbModelReset, StreamOff, Spoiled, ContextRec
<1> HIDE DEF y
<1>2. HoldersOK(c, y, surf, None)
  <2> SUFFICES ASSUME NEW s \in Surfaces, InPool(surf, s, c)
               PROVE  /\ s \in y.targets /\ surf[s].index < y.allocd
                      /\ surf[s].index \notin y.free
    BY DEF HoldersOK, InPool
  <2>1. s \in x.targets /\ surf[s].index < x.allocd
    BY DEF PoolOK, HoldersOK
  <2>2. surf[s].alive
    BY DEF IInv, SlotInv, SurfacesOK, InPool
  <2>3. QED  BY <1>1, <2>1, <2>2
<1>3. DistinctOK(c, surf)
  BY DEF PoolOK
<1>4. RefsOK(c, y, surf, None) /\ FlightOK(y, None)
  BY <1>1 DEF RefsOK, FlightOK
<1>5. QED  BY <1>1, <1>2, <1>3, <1>4 DEF PoolOK, y

LEMMA InvWait == ASSUME IInv, Wait PROVE SlotInv'
<1> DEFINE c == call.ctx
           k == call.cap
<1>1. /\ c \in live /\ ctx[c] \in ContextRec /\ Decoder(c) /\ Derived(surf, c)
      /\ call.at = "wait" /\ call \in CallRec /\ ~call.bad /\ ctx[c].streamed
      /\ k \in Slots /\ k # None /\ call.out \in OutSlots /\ call.refresh \in SUBSET Refs
  BY CallFacts, TablesDerived, SlotFacts
     DEF Wait, IInv, SlotInv, CallOK, TypeOK, CallRec
<1>2. PoolOK(c, ctx[c], surf, k)
  <2>1. FlightSlot(c) = k
    BY <1>1 DEF FlightSlot
  <2>2. QED  BY <1>1, <2>1 DEF IInv, SlotInv, PoolsOK
<1>3. CASE Fail(c, DecodeReset(Spoiled(ctx[c], k)), surf)
  <2> DEFINE y == DecodeReset(Spoiled(ctx[c], k))
  <2>1. y \in ContextRec
    BY <1>1, ResetTypes
  <2>2. y.targets = ctx[c].targets /\ PoolOK(c, y, surf, None)
    BY <1>1, <1>2, ResetPool
  <2>3. Fail(c, y, surf)
    BY <1>3
  <2> HIDE DEF y
  <2>4. QED  BY <1>1, <2>1, <2>2, <2>3, FailInv
<1>4. ASSUME NEW bad \in BOOLEAN, NEW req \in {"ready", "none", "stuck"},
             NEW x \in Dequeued(IF bad THEN CapPoolPush(Spoiled(ctx[c], k), k)
                                ELSE Decoded(ctx[c], k, call.refresh), call.out),
             Goto(c, [x EXCEPT !.request = req], surf,
                  [call EXCEPT !.at = "attach", !.bad = bad])
      PROVE  SlotInv'
  <2> DEFINE w == IF bad THEN CapPoolPush(Spoiled(ctx[c], k), k)
                  ELSE Decoded(ctx[c], k, call.refresh)
             p == IF bad THEN None ELSE k
             next == [call EXCEPT !.at = "attach", !.bad = bad]
             z == [x EXCEPT !.request = req]
  <2>1. /\ Spoiled(ctx[c], k) \in ContextRec
        /\ Decoded(ctx[c], k, call.refresh) \in ContextRec
        /\ CapPoolPush(Spoiled(ctx[c], k), k) \in ContextRec
    BY <1>1, ResetTypes, PushTypes
  <2>2. w \in ContextRec
    BY <2>1
  <2>3. SameQueue(w, ctx[c])
    <3>1. /\ SameQueue(Decoded(ctx[c], k, call.refresh), ctx[c])
          /\ SameQueue(Spoiled(ctx[c], k), ctx[c])
      BY <1>1, WaitQueue
    <3>2. SameQueue(CapPoolPush(Spoiled(ctx[c], k), k), Spoiled(ctx[c], k))
      BY <2>1, PushQueue
    <3>3. SameQueue(CapPoolPush(Spoiled(ctx[c], k), k), ctx[c])
      BY <3>1, <3>2 DEF SameQueue
    <3>4. QED  BY <3>1, <3>3
  <2>4. w.current = ctx[c].current
    BY <1>1, <2>1, CurrentKept
  <2>5. PoolOK(c, w, surf, p)
    <3>1. CASE bad
      <4>1. w.free = ctx[c].free \cup {k}
        <5>1. CapPoolPush(Spoiled(ctx[c], k), k).free = Spoiled(ctx[c], k).free \cup {k}
          BY <2>1, PushQueue
        <5>2. Spoiled(ctx[c], k).free = ctx[c].free
          BY <1>1, WaitQueue
        <5>3. QED  BY <3>1, <5>1, <5>2
      <4>2. /\ \A s \in Surfaces : InPool(surf, s, c) => surf[s].index # k
            /\ \A r \in Refs : ctx[c].slotBuf[r] # k
        BY <1>1, <1>2 DEF PoolOK, HoldersOK, RefsOK
      <4> HIDE DEF w
      <4>3. PoolOK(c, w, surf, IF k = k THEN None ELSE k)
        BY <1>1, <1>2, <2>3, <4>1, <4>2, PoolPush
      <4>4. QED  BY <3>1, <4>3
    <3>2. CASE ~bad
      <4>1. w.free = ctx[c].free
        BY <1>1, <3>2, WaitQueue
      <4> HIDE DEF w
      <4>2. PoolOK(c, w, surf, k)
        BY <1>2, <2>3, <4>1, PoolSame
      <4>3. QED  BY <3>2, <4>2
    <3>3. QED  BY <3>1, <3>2
  <2>6. x \in Dequeued(w, call.out)
    OBVIOUS
  <2> HIDE DEF w
  <2>7. /\ x \in ContextRec /\ SameQueue(x, w) /\ x.free = w.free
        /\ x.current = w.current
    <3>1. Dequeued(w, call.out) \subseteq ContextRec
      BY <1>1, <2>2, ResetTypes
    <3>2. SameQueue(x, w) /\ x.free = w.free
      BY <2>2, <2>6, WaitQueue
    <3>3. x.current = w.current
      BY <2>2, <2>6, CurrentKept
    <3>4. QED  BY <2>6, <3>1, <3>2, <3>3
  <2>8. z \in ContextRec /\ SameQueue(z, x) /\ z.free = x.free /\ z.current = x.current
    <3>1. SameQueue(z, x) /\ z.free = x.free
      BY <2>7, WaitQueue
    <3>2. z \in ContextRec /\ z.current = x.current
      BY <2>7 DEF ContextRec
    <3>3. QED  BY <3>1, <3>2
  <2>9. /\ next.ctx = c /\ next.at = "attach" /\ next.cap = k /\ next.bad = bad
    BY <1>1 DEF CallRec
  <2>10. Goto(c, z, surf, next)
    BY <1>4
  <2> HIDE DEF z, next
  <2>11. PoolOK(c, z, surf, p)
    <3>1. PoolOK(c, x, surf, p)
      BY <2>5, <2>7, PoolSame
    <3>2. QED  BY <2>8, <3>1, PoolSame
  <2>12. PoolOK(c, z, surf, IF next.at \in {"wait", "attach"} /\ ~next.bad
                            THEN next.cap ELSE None)
    BY <2>9, <2>11
  <2>13. /\ z.targets = ctx[c].targets /\ z.current = ctx[c].current /\ z.streamed
    BY <1>1, <2>3, <2>4, <2>7, <2>8 DEF SameQueue
  <2>14. QED  BY <1>1, <2>8, <2>9, <2>10, <2>12, <2>13, GotoInv
<1>5. QED  BY <1>3, <1>4 DEF Wait

(* surface_pull_capture makes the current surface the only holder of k.    *)
LEMMA PulledTable ==
  ASSUME IInv, call.at # "idle", NEW k \in Slots
  PROVE  LET c == call.ctx
             s == ctx[c].current
             f == PullCapture(s, c, k)
         IN  /\ Derived(f, c)
             /\ InPool(f, s, c) /\ f[s].index = k /\ f[s].alive
             /\ \A t \in Surfaces \ {s} : f[t] = surf[t]
<1> DEFINE c == call.ctx
           s == ctx[c].current
           f == PullCapture(s, c, k)
<1>1. /\ c \in Contexts /\ s \in Surfaces /\ surf[s].alive /\ k # None
      /\ surf \in SurfTable /\ surf[s] \in SurfaceRec
  BY CallFacts, SlotFacts DEF SurfTable, IInv, TypeOK
<1>2. SameAlive(f)
  BY <1>1, PullAlive DEF IInv
<1>3. \A t \in Surfaces \ {s} : f[t] = surf[t]
  BY <1>1 DEF PullCapture, SurfTable
<1>4. f[s] = [surf[s] EXCEPT !.index = k, !.from = c]
  BY <1>1 DEF PullCapture, SurfTable
<1>5. f[s].index = k /\ f[s].from = c /\ f[s].alive
  BY <1>1, <1>4 DEF SurfaceRec
<1> HIDE DEF f
<1>6. Derived(f, c)
  BY <1>2, <1>3, <1>5, TablesDerived DEF Derived
<1>7. QED  BY <1>1, <1>3, <1>5, <1>6 DEF InPool, f

(* av1_release_unrefd frees the slots that leave the reference table, and  *)
(* the owner it has recorded for each is its only holder.                  *)
LEMMA ReleasePool ==
  ASSUME NEW c, NEW x \in ContextRec, NEW k \in Slots, NEW R \in SUBSET Refs,
         NEW f \in SurfTable, NEW g, x.streamed, x.active, Codec[c] = "AV1",
         NEW s \in Surfaces, s = x.current, s \in x.targets,
         PoolOK(c, x, g, k),
         f[s].index = k, f[s].alive,
         \A t \in Surfaces \ {s} : f[t] = g[t],
         \A t \in Surfaces : f[t].index # None => f[t].alive,
         NEW h,
         h = Unheld(f, {t \in Surfaces : \E j \in DOMAIN ReleaseUnrefd(x, k, R).loses :
                          ReleaseUnrefd(x, k, R).loses[j] = t /\ f[t].index = j})
  PROVE  PoolOK(c, ReleaseUnrefd(x, k, R).x, h, None)
<1> DEFINE slotBuf == [r \in Refs |-> IF r \in R THEN k ELSE x.slotBuf[r]]
           old == IF R = {} THEN {k}
                  ELSE {x.slotBuf[r] : r \in R} \ ({None, k} \cup {slotBuf[r] : r \in Refs})
           owner == [x.owner EXCEPT ![k] = x.current]
           y == ReleaseUnrefd(x, k, R).x
           lost == {t \in Surfaces : \E j \in old : owner[j] = t /\ f[t].index = j}
<1>1. /\ y.targets = x.targets /\ y.allocd = x.allocd
      /\ y.streamed /\ y.active
      /\ y.slotBuf = slotBuf /\ y.free = x.free \cup old
      /\ y.owner = [j \in Slots |-> IF j \in old THEN NoSurface ELSE owner[j]]
  BY DEF ReleaseUnrefd, ContextRec
<1>2. h = Unheld(f, lost)
  <2>1. ReleaseUnrefd(x, k, R).loses = [j \in old |-> owner[j]]
    BY DEF ReleaseUnrefd
  <2> HIDE DEF old, owner
  <2>2. QED  BY <2>1
<1>3. k # None /\ x.owner \in [Slots -> Surfaces \cup {NoSurface}]
      /\ x.slotBuf \in [Refs -> Slots \cup {None}]
  BY SlotFacts DEF ContextRec
<1>4. owner[k] = s /\ \A j \in Slots \ {k} : owner[j] = x.owner[j]
  BY <1>3
<1>5. /\ \A r \in Refs : slotBuf[r] = IF r \in R THEN k ELSE x.slotBuf[r]
      /\ \A r \in Refs : x.slotBuf[r] \in Slots \cup {None}
  BY <1>3
<1>6. old \subseteq Slots
  BY <1>3
(* What is freed: the frame itself, or a slot the old table named. *)
<1>7. \A j \in old : \/ R = {} /\ j = k
                     \/ j # k /\ j # None /\ \E r \in Refs : x.slotBuf[r] = j
  OBVIOUS
<1>8. \A r \in Refs : slotBuf[r] # None => slotBuf[r] \notin old
  <2> SUFFICES ASSUME NEW r \in Refs, slotBuf[r] # None, slotBuf[r] \in old
               PROVE  FALSE
    OBVIOUS
  <2>1. CASE R = {}
    <3>1. x.slotBuf[r] = k
      BY <1>5, <2>1
    <3>2. QED  BY <1>3, <3>1 DEF PoolOK, RefsOK
  <2>2. CASE R # {}
    BY <2>2
  <2>3. QED  BY <2>1, <2>2
<1>9. \A t \in Surfaces : InPool(h, t, c) =>
        t \notin lost /\ InPool(f, t, c) /\ h[t].index = f[t].index
  <2> SUFFICES ASSUME NEW t \in Surfaces, InPool(h, t, c)
               PROVE  t \notin lost /\ InPool(f, t, c) /\ h[t].index = f[t].index
    OBVIOUS
  <2> HIDE DEF lost
  <2>1. CASE t \in lost /\ f[t].alive
    <3>1. h[t] = [f[t] EXCEPT !.index = None, !.from = NoContext]
      BY <1>2, <2>1 DEF Unheld
    <3>2. h[t].index = None
      BY <3>1 DEF SurfTable, SurfaceRec
    <3>3. QED  BY <3>2 DEF InPool
  <2>2. CASE ~(t \in lost /\ f[t].alive)
    <3>1. h[t] = f[t]
      BY <1>2, <2>2 DEF Unheld
    <3>2. QED  BY <2>2, <3>1 DEF InPool
  <2>3. QED  BY <2>1, <2>2
<1> HIDE DEF y, old, slotBuf, owner
(* Who holds what before anything is lost. *)
<1>10. \A t \in Surfaces : InPool(f, t, c) =>
         \/ t = s /\ f[t].index = k
         \/ t # s /\ InPool(g, t, c) /\ f[t].index = g[t].index /\ f[t].index # k
  <2>1. \A t \in Surfaces : InPool(g, t, c) => g[t].index # k
    BY DEF PoolOK, HoldersOK
  <2>2. QED  BY <2>1 DEF InPool
<1>11. k \notin x.free /\ k < x.allocd
  BY <1>3 DEF PoolOK, FlightOK
<1>12. \A t \in Surfaces, r \in Refs :
         InPool(g, t, c) /\ x.slotBuf[r] # None /\ g[t].index = x.slotBuf[r] =>
           x.owner[x.slotBuf[r]] = t
  BY DEF PoolOK, RefsOK
<1>13. \A t \in Surfaces : InPool(h, t, c) => f[t].index \notin old
  <2> SUFFICES ASSUME NEW t \in Surfaces, InPool(h, t, c), f[t].index \in old
               PROVE  FALSE
    OBVIOUS
  <2>1. t \notin lost /\ InPool(f, t, c)
    BY <1>9
  <2>2. owner[f[t].index] # t
    BY <2>1
  <2>3. CASE t = s
    BY <1>4, <1>10, <2>1, <2>2, <2>3
  <2>4. CASE t # s
    <3>1. InPool(g, t, c) /\ f[t].index = g[t].index /\ f[t].index # k
      BY <1>10, <2>1, <2>4
    <3>2. \E r \in Refs : x.slotBuf[r] = f[t].index /\ f[t].index # None
      BY <1>7, <3>1
    <3>3. x.owner[f[t].index] = t
      BY <1>12, <3>1, <3>2
    <3>4. f[t].index \in Slots \ {k}
      BY <1>6, <3>1
    <3>5. QED  BY <1>4, <2>2, <3>3, <3>4
  <2>5. QED  BY <2>3, <2>4
<1> HIDE DEF lost
<1>14. HoldersOK(c, y, h, None)
  <2> SUFFICES ASSUME NEW t \in Surfaces, InPool(h, t, c)
               PROVE  /\ t \in y.targets /\ h[t].index < y.allocd
                      /\ h[t].index \notin y.free /\ h[t].index # None
    BY DEF HoldersOK
  <2>1. InPool(f, t, c) /\ h[t].index = f[t].index /\ f[t].index \notin old
    BY <1>9, <1>13
  <2>2. t \in x.targets /\ f[t].index < x.allocd /\ f[t].index \notin x.free
    BY <1>10, <1>11, <2>1 DEF PoolOK, HoldersOK
  <2>3. QED  BY <1>1, <2>1, <2>2 DEF InPool
<1>15. DistinctOK(c, h)
  <2>1. \A t, u \in Surfaces : InPool(g, t, c) /\ InPool(g, u, c)
                               /\ g[t].index = g[u].index => t = u
    BY DEF PoolOK, DistinctOK
  <2>2. QED  BY <1>9, <1>10, <2>1 DEF DistinctOK
<1>16. RefsOK(c, y, h, None)
  <2> SUFFICES ASSUME NEW r \in Refs, slotBuf[r] # None
               PROVE  /\ slotBuf[r] \notin y.free
                      /\ \A t \in Surfaces : InPool(h, t, c) /\ h[t].index = slotBuf[r] =>
                                               y.owner[slotBuf[r]] = t
    BY <1>1 DEF RefsOK
  <2>1. slotBuf[r] \notin old
    BY <1>8
  <2>2. CASE r \in R
    <3>1. slotBuf[r] = k /\ y.owner[k] = s
      BY <1>1, <1>4, <1>5, <2>1, <2>2
    <3>2. \A t \in Surfaces : InPool(h, t, c) /\ h[t].index = k => t = s
      BY <1>9, <1>10
    <3>3. QED  BY <1>1, <1>11, <2>1, <3>1, <3>2
  <2>3. CASE r \notin R
    <3>1. slotBuf[r] = x.slotBuf[r] /\ slotBuf[r] \in Slots
      BY <1>5, <2>3
    <3>2. x.slotBuf[r] # k /\ x.slotBuf[r] \notin x.free
      BY <3>1 DEF PoolOK, RefsOK
    <3>3. y.owner[slotBuf[r]] = x.owner[slotBuf[r]]
      BY <1>1, <1>4, <2>1, <3>1, <3>2
    <3>4. \A t \in Surfaces : InPool(h, t, c) /\ h[t].index = slotBuf[r] =>
             InPool(g, t, c) /\ g[t].index = slotBuf[r]
      BY <1>9, <1>10, <3>1, <3>2
    <3>5. QED  BY <1>1, <1>12, <2>1, <3>1, <3>2, <3>3, <3>4
  <2>4. QED  BY <2>2, <2>3
<1>17. QED  BY <1>14, <1>15, <1>16 DEF PoolOK, FlightOK, y

LEMMA InvAttach == ASSUME IInv, Attach PROVE SlotInv'
<1> DEFINE c == call.ctx
           k == call.cap
           x == ctx[c]
           s == x.current
           f == PullCapture(s, c, k)
           rel == ReleaseUnrefd(x, k, call.refresh)
           lost == {t \in Surfaces : \E j \in DOMAIN rel.loses :
                      rel.loses[j] = t /\ f[t].index = j}
<1>1. /\ c \in live /\ x \in ContextRec /\ Decoder(c) /\ Derived(surf, c)
      /\ call.at = "attach" /\ x.streamed
      /\ k \in Slots /\ k # None /\ call.refresh \in SUBSET Refs
      /\ s \in Surfaces /\ s \in x.targets
  BY CallFacts, TablesDerived, SlotFacts
     DEF Attach, IInv, SlotInv, CallOK, TypeOK, CallRec
<1>2. PoolOK(c, x, surf, IF call.bad THEN None ELSE k)
  <2>1. FlightSlot(c) = IF call.bad THEN None ELSE k
    BY <1>1 DEF FlightSlot
  <2>2. QED  BY <1>1, <2>1 DEF IInv, SlotInv, PoolsOK
<1>3. /\ Derived(f, c) /\ InPool(f, s, c) /\ f[s].index = k /\ f[s].alive
      /\ \A t \in Surfaces \ {s} : f[t] = surf[t]
  BY <1>1, PulledTable
<1>4. f \in SurfTable /\ \A t \in Surfaces : f[t].index # None => f[t].alive
  BY <1>3 DEF Derived, SameAlive
<1>5. \/ call.bad /\ (Fail(c, x, surf) \/ Succeed(c, x, surf))
      \/ ~call.bad /\ Succeed(c, CapPoolPush(x, k), surf)
      \/ ~call.bad /\ Av1ModelActive(c) /\ Succeed(c, rel.x, Unheld(f, lost))
      \/ ~call.bad /\ ~Av1ModelActive(c) /\ Succeed(c, x, f)
  BY DEF Attach
<1> HIDE DEF f
<1>6. CASE call.bad /\ (Fail(c, x, surf) \/ Succeed(c, x, surf))
  BY <1>1, <1>2, <1>6, FailInv, FinishInv DEF Succeed
<1>7. CASE ~call.bad /\ Succeed(c, CapPoolPush(x, k), surf)
  <2> DEFINE y == CapPoolPush(x, k)
  <2>1. y \in ContextRec /\ SameQueue(y, x) /\ y.free = x.free \cup {k}
    BY <1>1, PushTypes, PushQueue
  <2> HIDE DEF y
  <2>2. /\ \A t \in Surfaces : InPool(surf, t, c) => surf[t].index # k
        /\ \A r \in Refs : x.slotBuf[r] # k
    BY <1>1, <1>2, <1>7 DEF PoolOK, HoldersOK, RefsOK
  <2>3. PoolOK(c, y, surf, IF k = k THEN None ELSE k)
    BY <1>1, <1>2, <1>7, <2>1, <2>2, PoolPush
  <2>4. Finish(c, y, surf, "Rendering", "success")
    BY <1>7 DEF Succeed, y
  <2>5. y.targets = ctx[c].targets
    BY <2>1 DEF SameQueue
  <2>6. QED  BY <1>1, <2>1, <2>3, <2>4, <2>5, FinishInv
<1>8. CASE ~call.bad /\ Av1ModelActive(c) /\ Succeed(c, rel.x, Unheld(f, lost))
  <2> DEFINE h == Unheld(f, lost)
  <2>1. x.active /\ Codec[c] = "AV1"
    BY <1>8 DEF Av1ModelActive
  <2>2. PoolOK(c, x, surf, k)
    BY <1>2, <1>8
  <2>3. PoolOK(c, rel.x, h, None)
    <3> HIDE DEF x, k, s
    <3>1. s = x.current
      BY DEF s
    <3>2. QED  BY <1>1, <1>3, <1>4, <2>1, <2>2, <3>1, ReleasePool DEF h
  <2>4. rel.x \in ContextRec
    BY <1>1, ReleaseTypes
  <2>5. rel.x.targets = x.targets
    BY <1>1 DEF ReleaseUnrefd, ContextRec
  <2> HIDE DEF rel
  <2>6. Derived(h, c)
    <3> HIDE DEF lost
    <3>1. SameAlive(h)
      BY <1>3, <1>4, UnheldType, UnheldAlive DEF SameAlive, Derived
    <3>2. \A t \in Surfaces :
            h[t] \in {f[t], [f[t] EXCEPT !.index = None, !.from = NoContext]}
      BY DEF Unheld
    <3>3. \A t \in Surfaces :
            [f[t] EXCEPT !.index = None, !.from = NoContext].index = None
      BY <1>4 DEF SurfTable, SurfaceRec
    <3>4. \A t \in Surfaces : h[t] = f[t] \/ h[t].index = None
      BY <3>2, <3>3
    <3> HIDE DEF h
    <3>5. QED  BY <1>3, <3>1, <3>4 DEF Derived
  <2>7. Finish(c, rel.x, h, "Rendering", "success")
    BY <1>8 DEF Succeed
  <2> HIDE DEF h
  <2>8. QED  BY <1>1, <2>3, <2>4, <2>5, <2>6, <2>7, FinishInv
<1>9. CASE ~call.bad /\ ~Av1ModelActive(c) /\ Succeed(c, x, f)
  <2>1. PoolOK(c, x, surf, k)
    BY <1>2, <1>9
  <2>2. \A r \in Refs : x.slotBuf[r] = None
    BY <1>9, <2>1 DEF PoolOK, RefsOK, Av1ModelActive
  <2>3. k \notin x.free /\ k < x.allocd
    BY <1>1, <2>1 DEF PoolOK, FlightOK
  <2>4. \A t \in Surfaces : InPool(f, t, c) =>
          \/ t = s /\ f[t].index = k
          \/ InPool(surf, t, c) /\ f[t].index = surf[t].index /\ f[t].index # k
    BY <1>3, <2>1 DEF InPool, PoolOK, HoldersOK
  <2>5. HoldersOK(c, x, f, None)
    BY <1>1, <2>1, <2>3, <2>4 DEF HoldersOK, PoolOK, InPool
  <2>6. DistinctOK(c, f)
    BY <2>1, <2>4 DEF DistinctOK, PoolOK
  <2>7. PoolOK(c, x, f, None)
    BY <2>2, <2>5, <2>6 DEF PoolOK, FlightOK, RefsOK
  <2>8. Finish(c, x, f, "Rendering", "success")
    BY <1>9 DEF Succeed
  <2>9. QED  BY <1>1, <1>3, <2>7, <2>8, FinishInv
<1>10. QED  BY <1>5, <1>6, <1>7, <1>8, <1>9

-----------------------------------------------------------------------------
(* Surfaces, contexts and vaBeginPicture.                                  *)

LEMMA IdlePools ==
  ASSUME IInv, LockFree
  PROVE  \A c \in live : PoolOK(c, ctx[c], surf, None)
BY DEF IInv, SlotInv, PoolsOK, FlightSlot, LockFree

(* A slot held by a render target of a decoder came from its pool.         *)
LEMMA HolderContext ==
  ASSUME IInv, LockFree, NEW c \in live, Decoder(c), NEW s \in Surfaces,
         s \in ctx[c].targets, surf[s].index # None
  PROVE  InPool(surf, s, c)
<1> DEFINE d == surf[s].from
<1>1. d \in live /\ InPool(surf, s, d)
  BY DEF IInv, SlotInv, SurfacesOK, InPool
<1>2. s \in ctx[d].targets /\ surf[s].index < ctx[d].allocd
  BY <1>1, IdlePools DEF PoolOK, HoldersOK
<1>3. surf[s].index \in Nat
  BY ConstantAssumption DEF IInv, TypeOK, SurfaceRec, Slots
<1>4. Decoder(d)
  BY <1>1, <1>2, <1>3 DEF IInv, SlotInv, ContextsOK
<1>5. QED  BY <1>1, <1>2, <1>4 DEF IInv, SlotInv, TargetsDisjoint

(* Surfaces lose slots, contexts keep their records or go.                 *)
LEMMA FewerInv ==
  ASSUME IInv, LockFree, call' = call, live' \subseteq live,
         \A c \in live' : ctx'[c] = ctx[c],
         \A s \in Surfaces : surf'[s].index # None =>
           /\ surf'[s].index = surf[s].index /\ surf'[s].from = surf[s].from
           /\ surf'[s].alive /\ surf[s].from \in live'
  PROVE  SlotInv'
<1>1. SurfacesOK'
  BY DEF SurfacesOK
<1>2. ContextsOK'
  BY DEF ContextsOK, IInv, SlotInv, Decoder
<1>3. TargetsDisjoint'
  <2> SUFFICES ASSUME NEW c \in live', NEW d \in live', Decoder(c), Decoder(d), c # d
               PROVE  ctx'[c].targets \cap ctx'[d].targets = {}
    BY DEF TargetsDisjoint, Decoder
  <2>1. QED  BY DEF TargetsDisjoint, IInv, SlotInv
<1>4. CallOK'
  BY DEF LockFree, CallOK, IInv, SlotInv
<1>5. ASSUME NEW c \in live' PROVE PoolOK(c, ctx'[c], surf', FlightSlot(c)')
  <2>1. PoolOK(c, ctx[c], surf, None) /\ FlightSlot(c)' = None
    BY <1>5, IdlePools DEF FlightSlot, LockFree
  <2>2. PoolOK(c, ctx[c], surf', None)
    BY <2>1, PoolFewer DEF InPool
  <2>3. QED  BY <2>1, <2>2
<1>6. QED  BY <1>1, <1>2, <1>3, <1>4, <1>5 DEF SlotInv, PoolsOK

(* Unheld leaves a surface as it was or without a slot.                    *)
LEMMA UnheldSlots ==
  ASSUME IInv, NEW S, NEW s \in Surfaces
  PROVE  \/ Unheld(surf, S)[s] = surf[s] /\ (s \notin S \/ surf[s].index = None)
         \/ Unheld(surf, S)[s].index = None
<1>1. surf[s] \in SurfaceRec
  BY DEF IInv, TypeOK
<1>2. CASE s \in S /\ surf[s].alive
  BY <1>1, <1>2 DEF Unheld, SurfaceRec
<1>3. CASE ~(s \in S /\ surf[s].alive)
  BY <1>3 DEF Unheld, IInv, SlotInv, SurfacesOK
<1>4. QED  BY <1>2, <1>3

LEMMA InvFewer ==
  ASSUME IInv,
         \/ \E s \in Surfaces : CreateSurface(s) \/ SyncSurface(s)
         \/ \E c \in Contexts : CreateContextFails(c) \/ DestroyContext(c)
  PROVE  SlotInv'
<1>1. /\ surf \in SurfTable
      /\ \A s \in Surfaces : surf[s].index # None => surf[s].alive /\ surf[s].from \in live
  BY DEF IInv, TypeOK, SurfTable, SlotInv, SurfacesOK
<1>2. ASSUME NEW s \in Surfaces, CreateSurface(s) PROVE SlotInv'
  <2>1. \A t \in Surfaces : surf'[t] = surf[t] \/ surf'[t].index = None
    BY <1>1, <1>2 DEF CreateSurface, NewSurface, SurfTable
  <2>2. QED  BY <1>1, <1>2, <2>1, FewerInv DEF CreateSurface
<1>3. ASSUME NEW s \in Surfaces, SyncSurface(s) PROVE SlotInv'
  <2>1. \A t \in Surfaces : /\ surf'[t].index = surf[t].index
                            /\ surf'[t].from = surf[t].from
                            /\ surf'[t].alive = surf[t].alive
    BY <1>1, <1>3 DEF SyncSurface, SurfTable, SurfaceRec
  <2>2. QED  BY <1>1, <1>3, <2>1, FewerInv DEF SyncSurface
<1>4. ASSUME NEW c \in Contexts, CreateContextFails(c) PROVE SlotInv'
  <2>1. \A t \in Surfaces : surf'[t] = surf[t] \/ surf'[t].index = None
    BY <1>4, UnheldSlots DEF CreateContextFails
  <2>2. QED  BY <1>1, <1>4, <2>1, FewerInv DEF CreateContextFails
<1>5. ASSUME NEW c \in Contexts, DestroyContext(c) PROVE SlotInv'
  <2>1. /\ LockFree /\ c \in live /\ live' = live \ {c} /\ call' = call
        /\ surf' = Unheld(surf, ctx[c].targets)
    BY <1>5 DEF DestroyContext, ReleaseCtxCaptureSurfaces
  <2>2. \A d \in live' : ctx'[d] = ctx[d]
    BY <1>5, <2>1 DEF DestroyContext, IInv, TypeOK
  <2>3. ASSUME NEW t \in Surfaces, surf'[t].index # None
        PROVE  surf'[t] = surf[t] /\ surf[t].from \in live'
    <3>1. surf'[t] = surf[t] /\ t \notin ctx[c].targets
      BY <2>1, <2>3, UnheldSlots
    <3>2. surf[t].from # c
      <4>1. PoolOK(c, ctx[c], surf, None)
        BY <2>1, IdlePools
      <4>2. QED  BY <2>3, <3>1, <4>1 DEF PoolOK, HoldersOK, InPool
    <3>3. QED  BY <1>1, <2>1, <2>3, <3>1, <3>2
  <2>4. QED  BY <1>1, <2>1, <2>2, <2>3, FewerInv
<1>6. QED  BY <1>2, <1>3, <1>4, <1>5

LEMMA NewContextFields ==
  ASSUME NEW c, NEW T, NEW n, NEW on
  PROVE  LET x == NewContext(c, T, n, on)
         IN  /\ x.targets = T /\ x.current = NoSurface
             /\ x.slotBuf = [r \in Refs |-> None]
             /\ ~Decoder(c) => x.allocd = 0
<1>1. CASE Codec[c] \in M2MCodecs
  BY <1>1 DEF NewContext, ClosedContext, Decoder
<1>2. CASE Codec[c] \notin M2MCodecs
  BY <1>2 DEF NewContext, ClosedContext, Decoder, CaptureQueue
<1>3. QED  BY <1>1, <1>2

LEMMA InvCreateContext ==
  ASSUME IInv, ListedOnly, NEW c \in Contexts, CreateContext(c)
  PROVE  SlotInv'
<1>1. /\ LockFree /\ c \notin live /\ live' = live \cup {c} /\ call' = call
      /\ ctx \in [Contexts -> ContextRec] /\ live \subseteq Contexts
  BY DEF CreateContext, IInv, TypeOK
<1>2. PICK T \in Listable(c) :
        /\ \E n, on : ctx' = [ctx EXCEPT ![c] = NewContext(c, T, n, on)]
        /\ surf' = surf \/ surf' = Unheld(surf, T)
  BY DEF CreateContext
<1>3. /\ ctx'[c].targets = T /\ ctx'[c].current = NoSurface
      /\ \A r \in Refs : ctx'[c].slotBuf[r] = None
      /\ ~Decoder(c) => ctx'[c].allocd = 0
  <2>1. PICK n, on : ctx' = [ctx EXCEPT ![c] = NewContext(c, T, n, on)]
    BY <1>2
  <2>2. ctx'[c] = NewContext(c, T, n, on)
    BY <1>1, <2>1
  <2>3. QED  BY <2>2, NewContextFields
<1>4. \A d \in live : ctx'[d] = ctx[d]
  BY <1>1, <1>2
<1>5. \A t \in Surfaces : surf'[t] = surf[t] \/ surf'[t].index = None
  BY <1>2, UnheldSlots
<1>6. \A t \in Surfaces : surf'[t].index # None =>
        surf'[t] = surf[t] /\ surf[t].alive /\ surf[t].from \in live
  BY <1>5 DEF IInv, SlotInv, SurfacesOK
<1>7. SurfacesOK'
  BY <1>1, <1>6 DEF SurfacesOK
<1>8. ContextsOK'
  BY <1>1, <1>3, <1>4 DEF ContextsOK, IInv, SlotInv, Decoder
<1>9. TargetsDisjoint'
  <2>1. \A d \in live : Decoder(c) /\ Decoder(d) => T \cap ctx[d].targets = {}
    BY <1>2 DEF Listable, Decoder
  <2> SUFFICES ASSUME NEW a \in live', NEW b \in live', Decoder(a), Decoder(b), a # b
               PROVE  ctx'[a].targets \cap ctx'[b].targets = {}
    BY DEF TargetsDisjoint, Decoder
  <2>2. CASE a \in live /\ b \in live
    BY <1>4, <2>2 DEF TargetsDisjoint, IInv, SlotInv
  <2>3. CASE a = c \/ b = c
    BY <1>1, <1>3, <1>4, <2>1, <2>3
  <2>4. QED  BY <1>1, <2>2, <2>3
<1>10. CallOK'
  BY <1>1 DEF LockFree, CallOK, IInv, SlotInv
<1>11. \A d : FlightSlot(d)' = None
  BY <1>1 DEF FlightSlot, LockFree
<1>12. PoolOK(c, ctx'[c], surf', None)
  <2>1. \A t \in Surfaces : ~InPool(surf', t, c)
    BY <1>1, <1>6 DEF InPool
  <2>2. QED  BY <1>3, <2>1, PoolUnheld
<1>13. ASSUME NEW d \in live PROVE PoolOK(d, ctx'[d], surf', None)
  <2>1. PoolOK(d, ctx[d], surf, None)
    BY <1>1, IdlePools
  <2>2. PoolOK(d, ctx[d], surf', None)
    BY <1>6, <2>1, PoolFewer DEF InPool
  <2>3. QED  BY <1>4, <2>2
<1>14. PoolsOK'
  BY <1>1, <1>11, <1>12, <1>13 DEF PoolsOK
<1>15. QED  BY <1>7, <1>8, <1>9, <1>10, <1>14 DEF SlotInv

LEMMA DetachFields ==
  ASSUME NEW c, ctx[c] \in ContextRec, NEW s
  PROVE  LET x == ctx[c]
             y == DetachSurface(c, s)
             k == surf[s].index
             held == s \in x.targets /\ k # None /\ k < x.allocd
         IN  /\ y.targets = x.targets \ {s}
             /\ y.current = IF x.current = s THEN NoSurface ELSE x.current
             /\ y.allocd = x.allocd /\ y.slotBuf = x.slotBuf
             /\ y.streamed = x.streamed /\ y.active = x.active
             /\ y.free = IF held /\ ~Av1ModelActive(c) THEN x.free \cup {k} ELSE x.free
             /\ y.owner = IF held /\ Av1ModelActive(c)
                          THEN [x.owner EXCEPT ![k] = NoSurface] ELSE x.owner
<1> DEFINE x == ctx[c]
<1>1. \A T, F, O, w :
        LET z == [x EXCEPT !.targets = T, !.free = F, !.owner = O, !.current = w]
        IN  /\ z.targets = T /\ z.free = F /\ z.owner = O /\ z.current = w
            /\ z.allocd = x.allocd /\ z.slotBuf = x.slotBuf
            /\ z.streamed = x.streamed /\ z.active = x.active
  BY DEF ContextRec
<1> DEFINE k == surf[s].index
           held == s \in x.targets /\ k # None /\ k < x.allocd
           T == x.targets \ {s}
           F == IF held /\ ~Av1ModelActive(c) THEN x.free \cup {k} ELSE x.free
           O == IF held /\ Av1ModelActive(c)
                THEN [x.owner EXCEPT ![k] = NoSurface] ELSE x.owner
           w == IF x.current = s THEN NoSurface ELSE x.current
<1>2. DetachSurface(c, s) =
        [x EXCEPT !.targets = T, !.free = F, !.owner = O, !.current = w]
  BY Zenon DEF DetachSurface
<1> HIDE DEF T, F, O, w
<1>3. /\ DetachSurface(c, s).targets = T /\ DetachSurface(c, s).free = F
      /\ DetachSurface(c, s).owner = O /\ DetachSurface(c, s).current = w
      /\ DetachSurface(c, s).allocd = x.allocd
      /\ DetachSurface(c, s).slotBuf = x.slotBuf
      /\ DetachSurface(c, s).streamed = x.streamed
      /\ DetachSurface(c, s).active = x.active
  BY <1>1, <1>2
<1>4. QED  BY <1>3 DEF T, F, O, w

LEMMA InvDestroySurfaces ==
  ASSUME IInv, NEW s \in Surfaces, DestroySurfaces(s)
  PROVE  SlotInv'
<1>1. /\ LockFree /\ live' = live /\ call' = call
      /\ \A c \in live : c \in Contexts /\ ctx[c] \in ContextRec
      /\ surf[s].index \in Slots \cup {None}
  BY DEF DestroySurfaces, IInv, TypeOK, SurfaceRec
<1>2. /\ \A c \in live : ctx'[c] = DetachSurface(c, s)
      /\ surf'[s].index = None
      /\ \A t \in Surfaces \ {s} : surf'[t] = surf[t]
  BY <1>1 DEF DestroySurfaces, IInv, TypeOK, NoSurfaceRec, NewSurface
<1> DEFINE Held(c) == /\ s \in ctx[c].targets
                      /\ surf[s].index # None
                      /\ surf[s].index < ctx[c].allocd
<1>3. \A c \in live :
        /\ ctx'[c].targets = ctx[c].targets \ {s}
        /\ ctx'[c].current = IF ctx[c].current = s THEN NoSurface ELSE ctx[c].current
        /\ ctx'[c].allocd = ctx[c].allocd /\ ctx'[c].slotBuf = ctx[c].slotBuf
        /\ ctx'[c].streamed = ctx[c].streamed /\ ctx'[c].active = ctx[c].active
        /\ ctx'[c].free = IF Held(c) /\ ~Av1ModelActive(c)
                          THEN ctx[c].free \cup {surf[s].index} ELSE ctx[c].free
        /\ ctx'[c].owner = IF Held(c) /\ Av1ModelActive(c)
                           THEN [ctx[c].owner EXCEPT ![surf[s].index] = NoSurface]
                           ELSE ctx[c].owner
  <2> TAKE c \in live
  <2>1. ctx'[c] = DetachSurface(c, s) /\ ctx[c] \in ContextRec
    BY <1>1, <1>2
  <2> DEFINE y == DetachSurface(c, s)
  <2>2. /\ y.targets = ctx[c].targets \ {s}
        /\ y.current = IF ctx[c].current = s THEN NoSurface ELSE ctx[c].current
        /\ y.allocd = ctx[c].allocd /\ y.slotBuf = ctx[c].slotBuf
        /\ y.streamed = ctx[c].streamed /\ y.active = ctx[c].active
        /\ y.free = IF Held(c) /\ ~Av1ModelActive(c)
                    THEN ctx[c].free \cup {surf[s].index} ELSE ctx[c].free
        /\ y.owner = IF Held(c) /\ Av1ModelActive(c)
                     THEN [ctx[c].owner EXCEPT ![surf[s].index] = NoSurface]
                     ELSE ctx[c].owner
    BY <2>1, DetachFields
  <2> HIDE DEF y, Held
  <2>3. ctx'[c] = y
    BY <2>1 DEF y
  <2>4. QED  BY <2>2, <2>3
<1>4. SurfacesOK'
  BY <1>1, <1>2 DEF SurfacesOK, IInv, SlotInv
<1>5. ContextsOK'
  BY <1>1, <1>3 DEF ContextsOK, IInv, SlotInv, Decoder
<1>6. TargetsDisjoint'
  BY <1>1, <1>3 DEF TargetsDisjoint, IInv, SlotInv, Decoder
<1>7. CallOK' /\ \A d : FlightSlot(d)' = None
  BY <1>1 DEF LockFree, CallOK, IInv, SlotInv, FlightSlot
<1>8. ASSUME NEW c \in live PROVE PoolOK(c, ctx'[c], surf', None)
  <2> DEFINE x == ctx[c]
             y == ctx'[c]
             k == surf[s].index
  <2>1. PoolOK(c, x, surf, None)
    BY <1>1, IdlePools
  <2>2. \A t \in Surfaces : InPool(surf', t, c) =>
          t # s /\ InPool(surf, t, c) /\ surf'[t].index = surf[t].index
    BY <1>2 DEF InPool
  <2>3. CASE ~Held(c)
    <3>1. y.free = x.free /\ y.owner = x.owner
      BY <1>3, <2>3
    <3>2. PoolOK(c, x, surf', None)
      BY <2>1, <2>2, PoolFewer
    <3>3. HoldersOK(c, y, surf', None)
      BY <1>3, <2>2, <3>1, <3>2 DEF PoolOK, HoldersOK
    <3>4. RefsOK(c, y, surf', None)
      <4>1. y.slotBuf = x.slotBuf /\ y.streamed = x.streamed /\ y.active = x.active
        BY <1>3
      <4> HIDE DEF x, y
      <4>2. QED  BY <3>1, <3>2, <4>1 DEF PoolOK, RefsOK
    <3>5. QED  BY <3>2, <3>3, <3>4 DEF PoolOK, FlightOK
  <2>4. CASE Held(c)
    <3>1. Decoder(c)
      <4>1. k \in Nat
        BY <1>1, <2>4 DEF Slots
      <4>2. QED  BY <2>4, <4>1 DEF IInv, SlotInv, ContextsOK
    <3>2. InPool(surf, s, c)
      BY <1>1, <2>4, <3>1, HolderContext
    <3>3. \A t \in Surfaces : InPool(surf', t, c) => surf'[t].index # k
      BY <2>1, <2>2, <3>2 DEF PoolOK, DistinctOK
    <3>4. CASE ~Av1ModelActive(c)
      <4>1. y.free = x.free \cup {k}
        BY <1>3, <2>4, <3>4
      <4>2. \A r \in Refs : x.slotBuf[r] = None
        BY <2>1, <3>4 DEF PoolOK, RefsOK, Av1ModelActive
      <4>3. PoolOK(c, x, surf', None)
        BY <2>1, <2>2, PoolFewer
      <4>4. HoldersOK(c, y, surf', None)
        BY <1>3, <2>2, <3>3, <4>1, <4>3 DEF PoolOK, HoldersOK
      <4>5. RefsOK(c, y, surf', None)
        BY <1>3, <4>2 DEF RefsOK
      <4>6. QED  BY <4>3, <4>4, <4>5 DEF PoolOK, FlightOK
    <3>5. CASE Av1ModelActive(c)
      <4>1. y.free = x.free /\ y.owner = [x.owner EXCEPT ![k] = NoSurface]
        BY <1>3, <2>4, <3>5
      <4>2. \A j : j # k => y.owner[j] = x.owner[j] \/ j \notin Slots
        BY <1>1, <4>1 DEF ContextRec
      <4>3. \A r \in Refs : x.slotBuf[r] \in Slots \cup {None}
        BY <1>1 DEF ContextRec
      <4>4. RefsOK(c, y, surf', None)
        <5> SUFFICES ASSUME NEW r \in Refs, x.slotBuf[r] # None
                     PROVE  /\ x.slotBuf[r] \notin x.free /\ x.slotBuf[r] # None
                            /\ x.streamed /\ x.active /\ Codec[c] = "AV1"
                            /\ \A t \in Surfaces :
                                 InPool(surf', t, c) /\ surf'[t].index = x.slotBuf[r] =>
                                   y.owner[x.slotBuf[r]] = t
          <6>1. /\ y.slotBuf = x.slotBuf /\ y.free = x.free
                /\ y.streamed = x.streamed /\ y.active = x.active
            BY <1>3, <4>1
          <6> HIDE DEF x, y
          <6>2. QED  BY <6>1 DEF RefsOK
        <5>1. /\ x.slotBuf[r] \notin x.free
              /\ x.streamed /\ x.active /\ Codec[c] = "AV1"
              /\ \A t \in Surfaces :
                   InPool(surf, t, c) /\ surf[t].index = x.slotBuf[r] =>
                     x.owner[x.slotBuf[r]] = t
          BY <2>1 DEF PoolOK, RefsOK
        <5>2. QED  BY <2>2, <3>3, <4>2, <4>3, <5>1
      <4>5. QED
        BY <1>3, <2>1, <2>2, <4>1, <4>4 DEF PoolOK, HoldersOK, DistinctOK, FlightOK
    <3>6. QED  BY <3>4, <3>5
  <2>5. QED  BY <2>3, <2>4
<1>9. PoolsOK'
  BY <1>1, <1>7, <1>8 DEF PoolsOK
<1>10. QED  BY <1>4, <1>5, <1>6, <1>7, <1>9 DEF SlotInv

LEMMA InvBeginPicture ==
  ASSUME IInv, GbmMode, NEW c \in Contexts, NEW s \in Surfaces, BeginPicture(c, s)
  PROVE  SlotInv'
<1> DEFINE k == surf[s].index
<1>1. /\ LockFree /\ c \in live /\ surf[s].alive /\ live' = live /\ call' = call
      /\ Decoder(c) => s \in ctx[c].targets
      /\ ctx \in [Contexts -> ContextRec] /\ live \subseteq Contexts
      /\ ctx[c] \in ContextRec /\ surf[s] \in SurfaceRec
  BY DEF BeginPicture, GbmMode, Decoder, IInv, TypeOK
<1>2. PICK req \in {"ready", "none"} :
        LET x == [ctx[c] EXCEPT !.current = s,
                    !.request = IF @ = "none" /\ Codec[c] \notin M2MCodecs
                                THEN req ELSE @]
        IN  ctx' = [ctx EXCEPT ![c] =
                      IF k # None /\ ~Av1ModelActive(c) /\ k < x.allocd
                      THEN CapPoolPush(x, k) ELSE x]
  BY DEF BeginPicture, GbmMode
<1>3. surf' = IF k # None THEN Unheld(surf, {s}) ELSE surf
  BY DEF BeginPicture, GbmMode
<1> DEFINE x == [ctx[c] EXCEPT !.current = s,
                   !.request = IF @ = "none" /\ Codec[c] \notin M2MCodecs THEN req ELSE @]
<1>4. /\ x \in ContextRec /\ SameQueue(x, ctx[c]) /\ x.free = ctx[c].free
      /\ x.current = s /\ x.allocd = ctx[c].allocd /\ x.targets = ctx[c].targets
  BY <1>1 DEF ContextRec, SameQueue
<1>5. ctx'[c] = IF k # None /\ ~Av1ModelActive(c) /\ k < x.allocd
                THEN CapPoolPush(x, k) ELSE x
  BY <1>1, <1>2
<1>6. \A d \in live \ {c} : ctx'[d] = ctx[d]
  BY <1>1, <1>2
<1> HIDE DEF x
<1>7. Derived(surf', c)
  BY <1>3, TablesDerived
<1>8. \A t \in Surfaces : surf'[t].index # None => t # s /\ surf'[t] = surf[t]
  BY <1>3, UnheldSlots
<1>9. PoolOK(c, x, surf', None)
  <2>1. PoolOK(c, ctx[c], surf, None)
    BY <1>1, IdlePools
  <2>2. PoolOK(c, x, surf, None)
    BY <1>4, <2>1, PoolSame
  <2>3. QED  BY <1>8, <2>2, PoolFewer DEF InPool
<1>10. PoolOK(c, ctx'[c], surf', None)
  <2>1. CASE k # None /\ ~Av1ModelActive(c) /\ k < x.allocd
    <3>1. Decoder(c)
      <4>1. k \in Nat
        BY <1>1, <2>1 DEF SurfaceRec, Slots
      <4>2. QED  BY <1>1, <1>4, <2>1, <4>1 DEF IInv, SlotInv, ContextsOK
    <3>2. InPool(surf, s, c)
      BY <1>1, <2>1, <3>1, HolderContext
    <3>3. \A t \in Surfaces : InPool(surf', t, c) => surf'[t].index # k
      <4>1. DistinctOK(c, surf)
        BY <1>1, IdlePools DEF PoolOK
      <4>2. QED  BY <1>8, <3>2, <4>1 DEF DistinctOK, InPool
    <3>4. \A r \in Refs : x.slotBuf[r] # k
      <4>1. \A r \in Refs : ctx[c].slotBuf[r] = None
        BY <1>1, <2>1, IdlePools DEF PoolOK, RefsOK, Av1ModelActive
      <4>2. QED  BY <1>4, <2>1, <4>1 DEF SameQueue
    <3>5. /\ ctx'[c] = CapPoolPush(x, k) /\ SameQueue(CapPoolPush(x, k), x)
          /\ CapPoolPush(x, k).free = x.free \cup {k}
      BY <1>4, <1>5, <2>1, PushQueue
    <3>6. PoolOK(c, CapPoolPush(x, k), surf', IF None = k THEN None ELSE None)
      BY <1>9, <2>1, <3>3, <3>4, <3>5, PoolPush
    <3>7. QED  BY <3>5, <3>6
  <2>2. CASE ~(k # None /\ ~Av1ModelActive(c) /\ k < x.allocd)
    BY <1>5, <1>9, <2>2
  <2>3. QED  BY <2>1, <2>2
<1>11. /\ ctx'[c].targets = ctx[c].targets /\ ctx'[c].allocd = ctx[c].allocd
       /\ ctx'[c].current = s
  <2>1. SameQueue(CapPoolPush(x, k), x) /\ CapPoolPush(x, k).current = x.current
    BY <1>4, PushQueue, CurrentKept
  <2>2. QED  BY <1>4, <1>5, <2>1 DEF SameQueue
<1>12. \A d : FlightSlot(d) = None /\ FlightSlot(d)' = None
  BY <1>1 DEF FlightSlot, LockFree
<1>13. CallOK'
  BY <1>1 DEF LockFree, CallOK, IInv, SlotInv
<1>14. Decoder(c) \/ ctx'[c].allocd = 0
  BY <1>1, <1>11 DEF IInv, SlotInv, ContextsOK
<1>15. PoolOK(c, ctx'[c], surf', FlightSlot(c)')
  BY <1>10, <1>12
<1>16. Decoder(c) /\ ctx'[c].current # NoSurface => ctx'[c].current \in ctx[c].targets
  BY <1>1, <1>11
<1>17. SurfacesOK' /\ ContextsOK' /\ TargetsDisjoint' /\ PoolsOK'
  BY <1>1, <1>6, <1>7, <1>11, <1>12, <1>14, <1>15, <1>16, StepInv
<1>18. QED  BY <1>13, <1>17 DEF SlotInv

-----------------------------------------------------------------------------
LEMMA InvInit == Init => SlotInv
<1> SUFFICES ASSUME Init PROVE SlotInv
  OBVIOUS
<1>1. live = {} /\ call.at = "idle" /\ call.bad = FALSE
  BY DEF Init, Idle
<1>2. \A s \in Surfaces : surf[s].index = None
  BY DEF Init, NoSurfaceRec, NewSurface
<1>3. QED
  BY <1>1, <1>2 DEF SlotInv, SurfacesOK, ContextsOK, TargetsDisjoint, CallOK, PoolsOK

LEMMA InvNext ==
  ASSUME GbmMode
  PROVE  IInv /\ [Next]_vars => SlotInv'
<1> SUFFICES ASSUME IInv, [Next]_vars PROVE SlotInv'
  OBVIOUS
<1>1. CASE UNCHANGED vars
  BY <1>1 DEF vars, IInv, SlotInv, SurfacesOK, ContextsOK, TargetsDisjoint, CallOK,
              PoolsOK, FlightSlot
<1>2. CASE Next
  <2>1. \A s \in Surfaces : ~ExportSurface(s)
    BY DEF ExportSurface, GbmMode
  <2>2. CASE \E s \in Surfaces : CreateSurface(s) \/ SyncSurface(s)
    BY <2>2, InvFewer
  <2>3. CASE \E s \in Surfaces : DestroySurfaces(s)
    BY <2>3, InvDestroySurfaces
  <2>4. CASE \E c \in Contexts : CreateContextFails(c) \/ DestroyContext(c)
    BY <2>4, InvFewer
  <2>5. CASE \E c \in Contexts : CreateContext(c)
    BY <2>5, InvCreateContext DEF GbmMode
  <2>6. CASE \E c \in Contexts : EndPicture(c)
    BY <2>6, InvEndPicture
  <2>7. CASE \E c \in Contexts, s \in Surfaces : BeginPicture(c, s)
    BY <2>7, InvBeginPicture
  <2>8. CASE Prepare \/ Start \/ Submit \/ Wait \/ Attach
    BY <2>8, InvPrepare, InvStart, InvSubmit, InvWait, InvAttach DEF GbmMode
  <2>9. QED  BY <1>2, <2>1, <2>2, <2>3, <2>4, <2>5, <2>6, <2>7, <2>8 DEF Next
<1>3. QED  BY <1>1, <1>2

(* In the GBM-copy mode, with clients that decode onto their contexts' own *)
(* render targets, "the free pools never lie" for any number of surfaces,  *)
(* contexts, slots and references and whatever the kernel does: timeouts,  *)
(* corrupt frames, resizes, refused controls and failed mappings included. *)
THEOREM ExclusiveInGbmMode ==
  ASSUME GbmMode
  PROVE  Spec => []SlotsExclusive
<1>1. Spec => []SlotInv
  <2>1. TypeOK /\ CurrentSurfaceAlive /\ SlotInv /\ [Next]_vars => SlotInv'
    BY InvNext DEF IInv
  <2>2. QED  BY InvInit, <2>1, TypesCorrect, CurrentNeverDangles, PTL DEF Spec
<1>2. TypeOK /\ CurrentSurfaceAlive /\ SlotInv => SlotsExclusive
  BY InvImpliesExclusive DEF IInv
<1>3. QED  BY <1>1, <1>2, TypesCorrect, CurrentNeverDangles, PTL

-----------------------------------------------------------------------------
(***************************************************************************)
(* SlotsExclusive in the EXPBUF mode.  A surface keeps its slot over       *)
(* vaBeginPicture and is decoded into it again, so that the slot in flight *)
(* may have a holder: the current surface.  Whatever pushes the slot in    *)
(* flight back is then wrong, and ExpbufMode leaves it out.  It leaves out *)
(* JPEG and VPP contexts as well: one that lists a surface claims a slot   *)
(* of its own device's queue for it, and a decoder then takes the index    *)
(* for one of its own slots (README.md, section 5).                        *)
(*                                                                         *)
(* While a slot is in flight the pools agree with the surface table        *)
(* without the current surface.  That nothing else trusts the slot needs   *)
(* more: the AV1 table must not name a slot that is decoded into, which    *)
(* the client guarantees for what the kernel predicts from; so the two     *)
(* tables are related for the slots that surfaces hold.                    *)
(***************************************************************************)
ExpbufMode ==
  /\ ListedOnly /\ ExpbufWanted
  /\ \A c \in Contexts : Decoder(c)
  /\ {"qbuf_out", "qbuf_cap", "corrupt", "pull"} \cap Events = {}
  /\ "timeout" \in Events => NumCapAV1 = NumCap \/ \A c \in Contexts : Codec[c] # "AV1"

InWait == call.at \in {"wait", "attach"}

FlightTable ==
  IF InWait THEN Unheld(surf, {ctx[call.ctx].current}) ELSE surf

(* The references that enter the driver's table when the picture does.     *)
Entering(c) == IF call.ctx = c /\ call.at = "attach" THEN call.refresh ELSE {}

(* What is listed, referenced, held or in flight exists and can be mapped. *)
ListedOK(c, x) ==
  /\ Codec[c] # "AV1" => x.allocd <= NumCap
  /\ \A k \in Slots : k \in x.free \/ (\E r \in Refs : x.slotBuf[r] = k) =>
                        k < x.allocd /\ k < NumCap

BelowOK(c, f, p) ==
  /\ \A s \in Surfaces : InPool(f, s, c) => f[s].index < NumCap
  /\ p # None => p < NumCap

(* The kernel predicts from the slots of the driver's table that surfaces  *)
(* hold, and their pictures are in them; the references R are to name slot *)
(* p, which has the picture of the current surface.                        *)
KnownOK(c, x, f, p, R) ==
  /\ \A r \in Refs \ R, s \in Surfaces :
       x.slotBuf[r] # None /\ InPool(f, s, c) /\ f[s].index = x.slotBuf[r] =>
         x.kdpb[r] = x.slotBuf[r] /\ x.pixels[x.slotBuf[r]] = s
  /\ \A r \in R : x.kdpb[r] = p /\ x.pixels[p] = x.current

(* Nothing predicts from the surface about to be decoded onto.             *)
UnreferencedOK(x) ==
  x.current # NoSurface =>
    \A r \in Refs : x.kdpb[r] # None => x.pixels[x.kdpb[r]] # x.current

ExtraOK(c, x, f, p, R) ==
  /\ ListedOK(c, x) /\ BelowOK(c, f, p) /\ KnownOK(c, x, f, p, R)
  /\ p = None => UnreferencedOK(x)

ReusePoolsOK ==
  \A c \in live : /\ PoolOK(c, ctx[c], FlightTable, FlightSlot(c))
                  /\ ExtraOK(c, ctx[c], FlightTable, FlightSlot(c), Entering(c))

(* The current surface holds the slot in flight, or none.                  *)
ReuseOK ==
  InWait => LET s == ctx[call.ctx].current
            IN  /\ surf[s].index # None => surf[s].index = call.cap /\ surf[s].from = call.ctx
                /\ ~call.bad

ReuseInv ==
  /\ SurfacesOK /\ ContextsOK /\ TargetsDisjoint /\ CallOK
  /\ ReuseOK /\ ReusePoolsOK

(* The inductive invariant of the EXPBUF mode.                             *)
EInv == TypeOK /\ CurrentSurfaceAlive /\ ReuseInv

(* What Unheld does to one surface.                                        *)
LEMMA UnheldOf ==
  ASSUME NEW f \in SurfTable, \A s \in Surfaces : f[s].index # None => f[s].alive,
         NEW u \in Surfaces
  PROVE  /\ Unheld(f, {u})[u].index = None
         /\ \A s \in Surfaces : s # u => Unheld(f, {u})[s] = f[s]
<1>1. f[u] \in SurfaceRec
  BY DEF SurfTable
<1>2. Unheld(f, {u})[u].index = None
  <2>1. CASE f[u].alive
    BY <1>1, <2>1 DEF Unheld, SurfaceRec
  <2>2. CASE ~f[u].alive
    BY <2>2 DEF Unheld
  <2>3. QED  BY <2>1, <2>2
<1>3. \A s \in Surfaces : s # u => Unheld(f, {u})[s] = f[s]
  BY DEF Unheld
<1>4. QED  BY <1>2, <1>3

LEMMA ReuseImpliesExclusive == EInv => SlotsExclusive
<1> SUFFICES ASSUME EInv, NEW c \in live, NEW k \in Slots
             PROVE  /\ \A s \in Surfaces : Holds(s, c, k) => k \notin ctx[c].free
                    /\ \A s, t \in Surfaces : Holds(s, c, k) /\ Holds(t, c, k) => s = t
                    /\ InFlight(c, k) =>
                         /\ k \notin ctx[c].free
                         /\ \A s \in Surfaces : Holds(s, c, k) => s = ctx[c].current
  BY DEF SlotsExclusive
<1>1. PoolOK(c, ctx[c], FlightTable, FlightSlot(c)) /\ k # None
  BY SlotFacts DEF EInv, ReuseInv, ReusePoolsOK
<1>2. \A s \in Surfaces : Holds(s, c, k) => InPool(surf, s, c) /\ surf[s].index = k
  BY <1>1 DEF Holds, InPool
<1>3. InFlight(c, k) => FlightSlot(c) = k /\ InWait /\ call.ctx = c
  BY DEF InFlight, FlightSlot, InWait
<1>4. CASE ~InWait
  BY <1>1, <1>2, <1>3, <1>4 DEF PoolOK, HoldersOK, DistinctOK, FlightTable
<1>5. CASE InWait
  <2> DEFINE u == ctx[call.ctx].current
  <2>1. u \in Surfaces
    BY <1>5 DEF EInv, TypeOK, InWait
  <2>2. \A t \in Surfaces : t # u => FlightTable[t] = surf[t]
    BY <1>5 DEF FlightTable, Unheld
  <2>3. surf[u].index # None => /\ surf[u].index = call.cap /\ surf[u].from = call.ctx
                                /\ FlightSlot(call.ctx) = call.cap
    BY <1>5 DEF EInv, ReuseInv, ReuseOK, FlightSlot, InWait
  <2>4. \A s \in Surfaces : Holds(s, c, k) =>
          \/ s = u /\ call.ctx = c /\ FlightSlot(c) = k
          \/ s # u /\ InPool(FlightTable, s, c) /\ FlightTable[s].index = k
    <3> SUFFICES ASSUME NEW s \in Surfaces, Holds(s, c, k),
                        s # u \/ ~(call.ctx = c /\ FlightSlot(c) = k)
                 PROVE  s # u /\ InPool(FlightTable, s, c) /\ FlightTable[s].index = k
      OBVIOUS
    <3>1. InPool(surf, s, c) /\ surf[s].index = k
      BY <1>2
    <3>2. s # u
      BY <2>3, <3>1 DEF InPool
    <3>3. QED  BY <2>2, <3>1, <3>2 DEF InPool
  <2> HIDE DEF u
  <2>5. FlightSlot(c) # None => FlightSlot(c) \notin ctx[c].free
    BY <1>1 DEF PoolOK, FlightOK
  <2>6. \A s \in Surfaces : InPool(FlightTable, s, c) =>
          FlightTable[s].index \notin ctx[c].free /\ FlightTable[s].index # FlightSlot(c)
    BY <1>1 DEF PoolOK, HoldersOK
  <2>7. \A s, t \in Surfaces :
          InPool(FlightTable, s, c) /\ InPool(FlightTable, t, c)
            /\ FlightTable[s].index = FlightTable[t].index => s = t
    BY <1>1 DEF PoolOK, DistinctOK
  <2>8. InFlight(c, k) => u = ctx[c].current
    BY <1>3 DEF u
  <2>9. QED  BY <1>1, <1>3, <2>4, <2>5, <2>6, <2>7, <2>8
<1>6. QED  BY <1>4, <1>5

-----------------------------------------------------------------------------
(* How ExtraOK changes, and the steps outside a slot's flight: there       *)
(* ReuseInv is SlotInv and ExtraOK of each context.                        *)

LEMMA ReuseIdle ==
  ASSUME EInv, ~InWait
  PROVE  IInv /\ \A c \in live : ExtraOK(c, ctx[c], surf, None, {})
<1>1. \A c : FlightSlot(c) = None /\ FlightTable = surf /\ Entering(c) = {}
  BY DEF InWait, FlightSlot, FlightTable, Entering
<1>2. /\ \A c \in live : PoolOK(c, ctx[c], surf, FlightSlot(c))
      /\ \A c \in live : ExtraOK(c, ctx[c], surf, None, {})
  BY <1>1 DEF EInv, ReuseInv, ReusePoolsOK
<1>3. QED  BY <1>2 DEF EInv, IInv, ReuseInv, SlotInv, PoolsOK

LEMMA ReuseFromSlots ==
  ASSUME SlotInv', ~InWait',
         \A c \in live' : ExtraOK(c, ctx'[c], surf', None, {})
  PROVE  ReuseInv'
<1>1. \A c : FlightSlot(c)' = None /\ FlightTable' = surf' /\ Entering(c)' = {}
  BY DEF InWait, FlightSlot, FlightTable, Entering
<1>2. \A c \in live' : PoolOK(c, ctx'[c], surf', FlightSlot(c)')
  BY DEF SlotInv, PoolsOK
<1>3. ReusePoolsOK'
  BY <1>1, <1>2 DEF ReusePoolsOK
<1>4. ReuseOK'
  BY DEF ReuseOK
<1>5. QED  BY <1>3, <1>4 DEF ReuseInv, SlotInv

LEMMA ExtraFewer ==
  ASSUME NEW c, NEW x, NEW y, NEW f, NEW g, ExtraOK(c, x, f, None, {}),
         y.allocd = x.allocd, y.slotBuf = x.slotBuf,
         y.kdpb = x.kdpb, y.pixels = x.pixels,
         y.current = x.current \/ y.current = NoSurface,
         \A k \in y.free : k \in x.free \/ (k < x.allocd /\ k < NumCap),
         \A s \in Surfaces : InPool(g, s, c) =>
            InPool(f, s, c) /\ g[s].index = f[s].index
  PROVE  ExtraOK(c, y, g, None, {})
BY DEF ExtraOK, ListedOK, BelowOK, KnownOK, UnreferencedOK

(* A queue whose slots are all free, shown by nobody.                      *)
LEMMA ExtraNew ==
  ASSUME NEW c, NEW y, NEW g, Codec[c] # "AV1" => y.allocd <= NumCap,
         \A r \in Refs : y.slotBuf[r] = None,
         \A k \in y.free : k < y.allocd /\ k < NumCap,
         \A s \in Surfaces : ~InPool(g, s, c),
         UnreferencedOK(y)
  PROVE  ExtraOK(c, y, g, None, {})
BY SlotFacts DEF ExtraOK, ListedOK, BelowOK, KnownOK

(* A step of context c alone.                                              *)
LEMMA ExtraStep ==
  ASSUME EInv, ~InWait, NEW c \in live, NEW f, Derived(f, c),
         live' = live, ~InWait', SlotInv',
         \A s \in Surfaces : surf'[s].index = f[s].index /\ surf'[s].from = f[s].from,
         \A d \in live \ {c} : ctx'[d] = ctx[d],
         ExtraOK(c, ctx'[c], f, None, {})
  PROVE  ReuseInv'
<1>1. ExtraOK(c, ctx'[c], surf', None, {})
  <2> DEFINE y == ctx'[c]
  <2>1. ExtraOK(c, y, f, None, {})
    OBVIOUS
  <2> HIDE DEF y
  <2>2. ExtraOK(c, y, surf', None, {})
    BY <2>1, ExtraFewer DEF InPool
  <2>3. QED  BY <2>2 DEF y
<1>2. ASSUME NEW d \in live \ {c} PROVE ExtraOK(d, ctx'[d], surf', None, {})
  <2>1. ExtraOK(d, ctx[d], surf, None, {})
    BY ReuseIdle
  <2>2. \A s \in Surfaces : InPool(surf', s, d) =>
          InPool(surf, s, d) /\ surf'[s].index = surf[s].index
    BY DEF InPool, Derived
  <2>3. ExtraOK(d, ctx[d], surf', None, {})
    BY <2>1, <2>2, ExtraFewer
  <2>4. QED  BY <2>3
<1>3. QED  BY <1>1, <1>2, ReuseFromSlots

LEMMA ExtraFinish ==
  ASSUME EInv, ~InWait, NEW c \in live, NEW x \in ContextRec, NEW f, Derived(f, c),
         NEW st, NEW ret, ExtraOK(c, x, f, None, {}), SlotInv',
         Finish(c, x, f, st, ret)
  PROVE  ReuseInv'
<1>1. f \in SurfTable /\ c \in Contexts /\ ctx \in [Contexts -> ContextRec]
      /\ live \subseteq Contexts
  BY DEF EInv, TypeOK, Derived, SameAlive
<1>2. live' = live /\ ~InWait'
  BY DEF Finish, Idle, InWait
<1>3. \A s \in Surfaces : surf'[s].index = f[s].index /\ surf'[s].from = f[s].from
  BY <1>1 DEF Finish, SurfTable, SurfaceRec
<1>4. /\ ctx'[c] = [x EXCEPT !.current = NoSurface]
      /\ \A d \in live \ {c} : ctx'[d] = ctx[d]
  BY <1>1 DEF Finish
<1>5. ExtraOK(c, ctx'[c], f, None, {})
  <2> DEFINE y == ctx'[c]
  <2>1. /\ y.allocd = x.allocd /\ y.slotBuf = x.slotBuf /\ y.kdpb = x.kdpb
        /\ y.pixels = x.pixels /\ y.current = NoSurface /\ y.free = x.free
    BY <1>4 DEF ContextRec
  <2> HIDE DEF y
  <2>2. ExtraOK(c, y, f, None, {})
    BY <2>1, ExtraFewer
  <2>3. QED  BY <2>2 DEF y
<1>6. QED  BY <1>2, <1>3, <1>4, <1>5, ExtraStep

LEMMA ExtraFail ==
  ASSUME EInv, ~InWait, NEW c \in live, NEW x \in ContextRec, NEW f, Derived(f, c),
         ExtraOK(c, x, f, None, {}), SlotInv', Fail(c, x, f)
  PROVE  ReuseInv'
<1> DEFINE y == [x EXCEPT !.request = "none"]
<1>1. /\ y \in ContextRec /\ y.allocd = x.allocd /\ y.slotBuf = x.slotBuf
      /\ y.kdpb = x.kdpb /\ y.pixels = x.pixels /\ y.current = x.current
      /\ y.free = x.free
  BY DEF ContextRec
<1>2. Finish(c, y, f, "Skipped", "error")
  BY DEF Fail
<1> HIDE DEF y
<1>3. ExtraOK(c, y, f, None, {})
  BY <1>1, ExtraFewer
<1>4. QED  BY <1>1, <1>2, <1>3, ExtraFinish

LEMMA ExtraGoto ==
  ASSUME EInv, ~InWait, NEW c \in live, NEW x, NEW f, Derived(f, c),
         NEW next, next.at \notin {"wait", "attach"},
         ExtraOK(c, x, f, None, {}), SlotInv', Goto(c, x, f, next)
  PROVE  ReuseInv'
<1>1. c \in Contexts /\ ctx \in [Contexts -> ContextRec] /\ live \subseteq Contexts
  BY DEF EInv, TypeOK
<1>2. /\ live' = live /\ ~InWait' /\ surf' = f /\ ctx'[c] = x
      /\ \A d \in live \ {c} : ctx'[d] = ctx[d]
  BY <1>1 DEF Goto, InWait
<1>3. QED  BY <1>2, ExtraStep

(* Surfaces and contexts.                                                  *)
LEMMA ReuseFewer ==
  ASSUME EInv, ~InWait,
         \/ \E s \in Surfaces : CreateSurface(s) \/ SyncSurface(s)
         \/ \E c \in Contexts : CreateContextFails(c) \/ DestroyContext(c)
  PROVE  ReuseInv'
<1>1. IInv /\ SlotInv'
  BY ReuseIdle, InvFewer
<1>2. /\ call' = call /\ live' \subseteq live
      /\ \A c \in live' : ctx'[c] = ctx[c]
  BY <1>1 DEF CreateSurface, SyncSurface, CreateContextFails, DestroyContext, IInv, TypeOK
<1>3. \A t \in Surfaces : surf'[t].index # None =>
        surf'[t].index = surf[t].index /\ surf'[t].from = surf[t].from
  <2>1. surf \in [Surfaces -> SurfaceRec]
    BY <1>1 DEF IInv, TypeOK
  <2>2. ASSUME NEW s \in Surfaces, CreateSurface(s)
        PROVE  \A t \in Surfaces : surf'[t] = surf[t] \/ surf'[t].index = None
    BY <2>1, <2>2 DEF CreateSurface, NewSurface
  <2>3. ASSUME NEW s \in Surfaces, SyncSurface(s)
        PROVE  \A t \in Surfaces : surf'[t].index = surf[t].index /\ surf'[t].from = surf[t].from
    BY <2>1, <2>3 DEF SyncSurface, SurfaceRec
  <2>4. ASSUME NEW c \in Contexts, CreateContextFails(c) \/ DestroyContext(c)
        PROVE  \A t \in Surfaces : surf'[t] = surf[t] \/ surf'[t].index = None
    BY <1>1, <2>4, UnheldSlots
       DEF CreateContextFails, DestroyContext, ReleaseCtxCaptureSurfaces
  <2>5. QED  BY <2>2, <2>3, <2>4
<1>4. ASSUME NEW c \in live' PROVE ExtraOK(c, ctx'[c], surf', None, {})
  <2>1. ExtraOK(c, ctx[c], surf, None, {})
    BY <1>2, ReuseIdle
  <2>2. ExtraOK(c, ctx[c], surf', None, {})
    BY <1>3, <2>1, ExtraFewer DEF InPool
  <2>3. QED  BY <1>2, <2>2
<1>5. QED  BY <1>1, <1>2, <1>4, ReuseFromSlots DEF InWait

LEMMA NewQueue ==
  ASSUME NEW c \in Contexts, NEW T, NEW n \in CapGrants(c), NEW on
  PROVE  LET x == NewContext(c, T, n, on)
         IN  /\ Codec[c] # "AV1" => x.allocd <= NumCap
             /\ \A k \in x.free : k < x.allocd /\ k < NumCap
<1>1. n \in Nat /\ (Codec[c] # "AV1" => n <= NumCap)
  BY ConstantAssumption DEF CapGrants
<1>2. CASE Codec[c] \in M2MCodecs \cup CaptureDeferred
  BY <1>2, ConstantAssumption DEF NewContext, ClosedContext
<1>3. CASE Codec[c] \notin M2MCodecs \cup CaptureDeferred
  <2>1. /\ NewContext(c, T, n, on).allocd = n
        /\ NewContext(c, T, n, on).free = {k \in 0 .. n - 1 : k < NumCap}
    BY <1>3 DEF NewContext, ClosedContext, CaptureQueue
  <2>2. QED  BY <1>1, <2>1
<1>4. QED  BY <1>2, <1>3

LEMMA ReuseCreateContext ==
  ASSUME EInv, ListedOnly, ~InWait, NEW c \in Contexts, CreateContext(c)
  PROVE  ReuseInv'
<1>1. IInv /\ SlotInv'
  BY ReuseIdle, InvCreateContext
<1>2. /\ c \notin live /\ live' = live \cup {c} /\ call' = call
      /\ ctx \in [Contexts -> ContextRec] /\ live \subseteq Contexts
  BY <1>1 DEF CreateContext, IInv, TypeOK
<1>3. PICK T \in Listable(c) :
        /\ \E n \in CapGrants(c), on \in BOOLEAN :
             ctx' = [ctx EXCEPT ![c] = NewContext(c, T, n, on)]
        /\ surf' = surf \/ surf' = Unheld(surf, T)
  BY DEF CreateContext
<1>4. PICK n \in CapGrants(c), on \in BOOLEAN : ctx' = [ctx EXCEPT ![c] = NewContext(c, T, n, on)]
  BY <1>3
<1>5. ctx'[c] = NewContext(c, T, n, on) /\ \A d \in live : ctx'[d] = ctx[d]
  BY <1>2, <1>4
<1>6. \A t \in Surfaces : surf'[t].index # None =>
        surf'[t] = surf[t] /\ surf[t].from \in live
  BY <1>1, <1>3, UnheldSlots DEF IInv, SlotInv, SurfacesOK
<1>7. ExtraOK(c, ctx'[c], surf', None, {})
  <2> DEFINE x == NewContext(c, T, n, on)
  <2>1. /\ x.current = NoSurface /\ x.slotBuf = [r \in Refs |-> None]
        /\ Codec[c] # "AV1" => x.allocd <= NumCap
        /\ \A k \in x.free : k < x.allocd /\ k < NumCap
    BY NewContextFields, NewQueue
  <2> HIDE DEF x
  <2>2. \A t \in Surfaces : ~InPool(surf', t, c)
    BY <1>2, <1>6 DEF InPool
  <2>3. ExtraOK(c, x, surf', None, {})
    BY <2>1, <2>2, ExtraNew DEF UnreferencedOK
  <2>4. QED  BY <1>5, <2>3 DEF x
<1>8. ASSUME NEW d \in live PROVE ExtraOK(d, ctx'[d], surf', None, {})
  <2>1. ExtraOK(d, ctx[d], surf, None, {})
    BY ReuseIdle
  <2>2. ExtraOK(d, ctx[d], surf', None, {})
    BY <1>6, <2>1, ExtraFewer DEF InPool
  <2>3. QED  BY <1>5, <2>2
<1>9. QED  BY <1>1, <1>2, <1>7, <1>8, ReuseFromSlots DEF InWait

LEMMA DetachKernel ==
  ASSUME NEW c, ctx[c] \in ContextRec, NEW s
  PROVE  /\ DetachSurface(c, s).pixels = ctx[c].pixels
         /\ DetachSurface(c, s).kdpb = ctx[c].kdpb
<1> DEFINE x == ctx[c]
           k == surf[s].index
           held == s \in x.targets /\ k # None /\ k < x.allocd
           F == IF held /\ ~Av1ModelActive(c) THEN x.free \cup {k} ELSE x.free
           O == IF held /\ Av1ModelActive(c)
                THEN [x.owner EXCEPT ![k] = NoSurface] ELSE x.owner
           w == IF x.current = s THEN NoSurface ELSE x.current
<1>1. DetachSurface(c, s) =
        [x EXCEPT !.targets = x.targets \ {s}, !.free = F, !.owner = O, !.current = w]
  BY Zenon DEF DetachSurface
<1> HIDE DEF F, O, w
<1>2. QED  BY <1>1 DEF ContextRec

LEMMA ReuseDestroySurfaces ==
  ASSUME EInv, ~InWait, NEW s \in Surfaces, DestroySurfaces(s)
  PROVE  ReuseInv'
<1>1. IInv /\ SlotInv'
  BY ReuseIdle, InvDestroySurfaces
<1>2. /\ LockFree /\ live' = live /\ call' = call
      /\ \A c \in live : c \in Contexts /\ ctx[c] \in ContextRec
      /\ surf[s].index \in Slots \cup {None}
  BY <1>1 DEF DestroySurfaces, IInv, TypeOK, SurfaceRec
<1>3. /\ \A c \in live : ctx'[c] = DetachSurface(c, s)
      /\ \A t \in Surfaces : surf'[t] = surf[t] \/ surf'[t].index = None
  BY <1>1, <1>2 DEF DestroySurfaces, IInv, TypeOK, NoSurfaceRec, NewSurface
<1>4. ASSUME NEW c \in live PROVE ExtraOK(c, ctx'[c], surf', None, {})
  <2> DEFINE y == DetachSurface(c, s)
             k == surf[s].index
  <2>1. ExtraOK(c, ctx[c], surf, None, {})
    BY ReuseIdle
  <2>2. /\ y.current = ctx[c].current \/ y.current = NoSurface
        /\ y.allocd = ctx[c].allocd /\ y.slotBuf = ctx[c].slotBuf
        /\ \A j \in y.free : \/ j \in ctx[c].free
                             \/ j = k /\ k # None /\ s \in ctx[c].targets /\ k < ctx[c].allocd
    <3>1. ctx[c] \in ContextRec
      BY <1>2
    <3> DEFINE held == s \in ctx[c].targets /\ k # None /\ k < ctx[c].allocd
    <3> HIDE DEF y
    <3>2. /\ y.current = IF ctx[c].current = s THEN NoSurface ELSE ctx[c].current
          /\ y.allocd = ctx[c].allocd /\ y.slotBuf = ctx[c].slotBuf
          /\ y.free = IF held /\ ~Av1ModelActive(c) THEN ctx[c].free \cup {k}
                      ELSE ctx[c].free
          /\ y.owner = IF held /\ Av1ModelActive(c)
                      THEN [ctx[c].owner EXCEPT ![k] = NoSurface] ELSE ctx[c].owner
      BY <3>1, DetachFields DEF y
    <3>3. QED  BY <3>2
  <2>3. y.pixels = ctx[c].pixels /\ y.kdpb = ctx[c].kdpb
    BY <1>2, DetachKernel
  <2>4. k # None /\ s \in ctx[c].targets /\ k < ctx[c].allocd => k < NumCap
    <3> SUFFICES ASSUME k # None, s \in ctx[c].targets, k < ctx[c].allocd
                 PROVE  k < NumCap
      OBVIOUS
    <3>1. Decoder(c)
      BY <1>1, <1>2, SlotFacts DEF IInv, SlotInv, ContextsOK, Slots
    <3>2. InPool(surf, s, c)
      BY <1>1, <1>2, <3>1, HolderContext
    <3>3. QED  BY <2>1, <3>2 DEF ExtraOK, BelowOK
  <2> HIDE DEF y
  <2>5. ExtraOK(c, y, surf', None, {})
    BY <1>3, <2>1, <2>2, <2>3, <2>4, ExtraFewer DEF InPool
  <2>6. QED  BY <1>3, <2>5 DEF y
<1>5. QED  BY <1>1, <1>2, <1>4, ReuseFromSlots DEF InWait

(* vaBeginPicture leaves the surface its slot; the client does not name a  *)
(* surface that the kernel predicts from.                                  *)
LEMMA ReuseBeginPicture ==
  ASSUME EInv, ExpbufMode, ~InWait, NEW c \in Contexts, NEW s \in Surfaces,
         BeginPicture(c, s)
  PROVE  ReuseInv'
<1>1. /\ LockFree /\ c \in live /\ live' = live /\ call' = call /\ surf' = surf
      /\ Decoder(c) => s \in ctx[c].targets
      /\ IInv /\ ctx \in [Contexts -> ContextRec] /\ live \subseteq Contexts
      /\ ctx[c] \in ContextRec
  BY ReuseIdle DEF BeginPicture, ExpbufMode, Decoder, IInv, TypeOK
<1>2. PICK req \in {"ready", "none"} :
        ctx' = [ctx EXCEPT ![c] =
                  [ctx[c] EXCEPT !.current = s,
                     !.request = IF ctx[c].request = "none" /\ Codec[c] \notin M2MCodecs
                                 THEN req ELSE ctx[c].request]]
  BY DEF BeginPicture, ExpbufMode
<1>3. LET y == ctx'[c] x == ctx[c]
      IN  /\ SameQueue(y, x) /\ y.free = x.free /\ y.current = s
          /\ y.kdpb = x.kdpb /\ y.pixels = x.pixels
  BY <1>1, <1>2 DEF ContextRec, SameQueue
<1>4. \A d \in live \ {c} : ctx'[d] = ctx[d]
  BY <1>1, <1>2
<1>5. Derived(surf, c)
  BY <1>1, TablesDerived
<1>6. PoolOK(c, ctx'[c], surf, None)
  <2> DEFINE y == ctx'[c]
  <2>1. PoolOK(c, ctx[c], surf, None) /\ SameQueue(y, ctx[c]) /\ y.free = ctx[c].free
    BY <1>1, <1>3, IdlePools
  <2> HIDE DEF y
  <2>2. PoolOK(c, y, surf, None)
    BY <2>1, PoolSame
  <2>3. QED  BY <2>2 DEF y
<1>7. SlotInv'
  <2>1. \A d : FlightSlot(d) = None /\ FlightSlot(d)' = None
    BY <1>1 DEF FlightSlot, LockFree
  <2>2. CallOK'
    BY <1>1 DEF LockFree, CallOK, IInv, SlotInv
  <2>3. /\ ctx'[c].targets = ctx[c].targets
        /\ Decoder(c) \/ ctx'[c].allocd = 0
        /\ Decoder(c) /\ ctx'[c].current # NoSurface => ctx'[c].current \in ctx[c].targets
    BY <1>1, <1>3 DEF SameQueue, IInv, SlotInv, ContextsOK
  <2>4. PoolOK(c, ctx'[c], surf, FlightSlot(c)')
    BY <1>6, <2>1
  <2>5. SurfacesOK' /\ ContextsOK' /\ TargetsDisjoint' /\ PoolsOK'
    BY <1>1, <1>4, <1>5, <2>1, <2>3, <2>4, StepInv
  <2>6. QED  BY <2>2, <2>5 DEF SlotInv
<1>8. ExtraOK(c, ctx'[c], surf, None, {})
  <2>1. ExtraOK(c, ctx[c], surf, None, {})
    BY <1>1, ReuseIdle
  <2>2. ~Referenced(c, s)
    BY DEF BeginPicture
  <2>3. UnreferencedOK(ctx'[c])
    BY <1>3, <2>2 DEF UnreferencedOK, Referenced
  <2>4. QED
    BY <1>3, <2>1, <2>3 DEF ExtraOK, ListedOK, BelowOK, KnownOK, SameQueue
<1>9. QED  BY <1>1, <1>4, <1>5, <1>7, <1>8, ExtraStep DEF InWait

LEMMA ReuseEndPicture ==
  ASSUME EInv, ~InWait, NEW c \in Contexts, EndPicture(c)
  PROVE  ReuseInv'
<1> DEFINE next == [Idle EXCEPT !.at = "prepare", !.ctx = c]
<1>1. IInv /\ SlotInv'
  BY ReuseIdle, InvEndPicture
<1>2. c \in live /\ ctx[c] \in ContextRec /\ Derived(surf, c)
  BY <1>1, TablesDerived DEF EndPicture, IInv, TypeOK
<1>3. ExtraOK(c, ctx[c], surf, None, {})
  BY <1>2, ReuseIdle
<1>4. CASE \E st, ret : Finish(c, ctx[c], surf, st, ret)
  BY <1>1, <1>2, <1>3, <1>4, ExtraFinish
<1>5. CASE Goto(c, ctx[c], surf, next)
  <2>1. next.at = "prepare"
    BY DEF Idle
  <2> HIDE DEF next
  <2>2. QED  BY <1>1, <1>2, <1>3, <1>5, <2>1, ExtraGoto
<1>6. QED  BY <1>4, <1>5 DEF EndPicture

(* vaEndPicture up to the choice of a slot.                                *)
LEMMA StoppedQueue ==
  ASSUME IInv, NEW c \in live, NEW x \in ContextRec, PoolOK(c, x, surf, None)
  PROVE  LET y == CaptureStopped(x)
             f == ReleaseCtxCaptureSurfaces(x)
         IN  /\ y \in ContextRec /\ Derived(f, c)
             /\ \A r \in Refs : y.slotBuf[r] = None
             /\ \A s \in Surfaces : ~InPool(f, s, c)
<1> DEFINE y == CaptureStopped(x)
           f == ReleaseCtxCaptureSurfaces(x)
<1>1. Derived(f, c) /\ y \in ContextRec
  BY TablesDerived, ResetTypes DEF ReleaseCtxCaptureSurfaces
<1>2. \A r \in Refs : y.slotBuf[r] = None
  <2>1. CASE x.streamed
    BY <2>1 DEF CaptureStopped, DpbModelReset, StreamOff, ContextRec
  <2>2. CASE ~x.streamed
    BY <2>2 DEF CaptureStopped, PoolOK, RefsOK
  <2>3. QED  BY <2>1, <2>2
<1>3. ASSUME NEW s \in Surfaces, InPool(f, s, c) PROVE FALSE
  <2>1. f[s] = surf[s] /\ (s \notin x.targets \/ surf[s].index = None)
    BY <1>3, UnheldSlots DEF ReleaseCtxCaptureSurfaces, InPool
  <2>2. QED  BY <1>3, <2>1 DEF InPool, PoolOK, HoldersOK
<1>4. QED  BY <1>1, <1>2, <1>3

LEMMA RebuiltQueue ==
  ASSUME NEW c \in Contexts, NEW y \in ContextRec, NEW z \in OutputQueues(y),
         NEW n \in CapGrants(c) \cup {0}, NEW f,
         \A r \in Refs : y.slotBuf[r] = None,
         \A s \in Surfaces : ~InPool(f, s, c)
  PROVE  LET q == CaptureQueue(z, n)
         IN  /\ q \in ContextRec /\ ExtraOK(c, q, f, None, {})
             /\ q.targets = y.targets /\ q.current = y.current
             /\ q.slotBuf = y.slotBuf /\ q.allocd = n
             /\ \A k \in q.free : k < n
<1> DEFINE q == CaptureQueue(z, n)
<1>1. n \in 0 .. NumCapAV1 /\ (Codec[c] # "AV1" => n <= NumCap)
  BY SlotFacts, ConstantAssumption DEF CapGrants
<1>2. z \in ContextRec /\ q \in ContextRec
  BY <1>1, ResetTypes
<1>3. /\ z.slotBuf = y.slotBuf /\ z.targets = y.targets /\ z.current = y.current
  BY DEF OutputQueues, ContextRec
<1>4. /\ q.slotBuf = z.slotBuf /\ q.targets = z.targets /\ q.current = z.current
      /\ q.allocd = n /\ q.free = {k \in 0 .. n - 1 : k < NumCap}
      /\ q.pixels = [k \in Slots |-> NoSurface]
  BY <1>2 DEF CaptureQueue, ContextRec
<1>5. UnreferencedOK(q)
  <2>1. \A r \in Refs : q.kdpb[r] # None => q.kdpb[r] \in Slots
    BY <1>2 DEF ContextRec
  <2>2. QED  BY <1>4, <2>1 DEF UnreferencedOK
<1> HIDE DEF q
<1>6. ExtraOK(c, q, f, None, {})
  BY <1>1, <1>3, <1>4, <1>5, ExtraNew
<1>7. QED  BY <1>1, <1>2, <1>3, <1>4, <1>6 DEF q

LEMMA ExtraEnsureCapture ==
  ASSUME EInv, ~InWait, NEW c \in live, NEW x \in ContextRec,
         PoolOK(c, x, surf, None), ExtraOK(c, x, surf, None, {}),
         NEW next, next.at = "start", SlotInv',
         EnsureCapture(c, x, next)
  PROVE  ReuseInv'
<1> DEFINE y == CaptureStopped(x)
           f == ReleaseCtxCaptureSurfaces(x)
<1>1. IInv /\ Derived(surf, c) /\ c \in Contexts
  BY ReuseIdle, TablesDerived DEF IInv, TypeOK
<1>2. /\ y \in ContextRec /\ Derived(f, c)
      /\ \A r \in Refs : y.slotBuf[r] = None
      /\ \A s \in Surfaces : ~InPool(f, s, c)
  BY <1>1, StoppedQueue
<1>3. ExtraOK(c, y, f, None, {})
  <2>1. /\ y.allocd = x.allocd /\ y.free = x.free /\ y.current = x.current
        /\ y.pixels = x.pixels
        /\ \A r \in Refs : y.kdpb[r] = x.kdpb[r] \/ y.kdpb[r] = None
    BY DEF CaptureStopped, DpbModelReset, StreamOff, ContextRec
  <2> HIDE DEF y, f
  <2>2. UnreferencedOK(y)
    BY <2>1 DEF ExtraOK, UnreferencedOK
  <2>3. \A k \in y.free : k < y.allocd /\ k < NumCap
    <3>1. x.free \subseteq Slots
      BY DEF ContextRec
    <3>2. QED  BY <2>1, <3>1 DEF ExtraOK, ListedOK
  <2>4. Codec[c] # "AV1" => y.allocd <= NumCap
    BY <2>1 DEF ExtraOK, ListedOK
  <2>5. QED  BY <1>2, <2>2, <2>3, <2>4, ExtraNew
<1> HIDE DEF y, f
<1>4. CASE Goto(c, x, surf, next)
  BY <1>1, <1>4, ExtraGoto
<1>5. CASE Fail(c, y, f)
  BY <1>2, <1>3, <1>5, ExtraFail
<1>6. ASSUME NEW z \in OutputQueues(y), NEW n \in CapGrants(c) \cup {0},
             \/ Fail(c, CaptureQueue(z, n), f)
             \/ Goto(c, CaptureQueue(z, n), f, next)
      PROVE  ReuseInv'
  <2> DEFINE q == CaptureQueue(z, n)
  <2>1. q \in ContextRec /\ ExtraOK(c, q, f, None, {})
    BY <1>1, <1>2, RebuiltQueue
  <2>2. Fail(c, q, f) \/ Goto(c, q, f, next)
    BY <1>6
  <2> HIDE DEF q
  <2>3. QED  BY <1>2, <2>1, <2>2, ExtraFail, ExtraGoto
<1>7. QED  BY <1>4, <1>5, <1>6 DEF EnsureCapture, y, f

LEMMA ReusePrepare ==
  ASSUME EInv, Prepare
  PROVE  ReuseInv'
<1> DEFINE c == call.ctx
<1>1. ~InWait /\ IInv /\ SlotInv' /\ call.at = "prepare"
  BY ReuseIdle, InvPrepare DEF InWait, Prepare
<1>2. /\ c \in live /\ ctx[c] \in ContextRec /\ Derived(surf, c) /\ call \in CallRec
      /\ PoolOK(c, ctx[c], surf, None) /\ ExtraOK(c, ctx[c], surf, None, {})
  BY <1>1, CallFacts, TablesDerived, ReuseIdle DEF FlightSlot
<1>3. ASSUME NEW h \in Headers(c, ctx[c])
      PROVE  /\ h.x \in ContextRec /\ PoolOK(c, h.x, surf, None)
             /\ ExtraOK(c, h.x, surf, None, {})
  <2>1. SameQueue(h.x, ctx[c]) /\ h.x.free = ctx[c].free
    BY <1>2, HeadersQueue
  <2>2. h.x \in ContextRec /\ h.x.current = ctx[c].current
    BY <1>2, HeadersTypes
  <2>3. h.x.kdpb = ctx[c].kdpb /\ h.x.pixels = ctx[c].pixels
    <3>1. \A b : LET y == [ctx[c] EXCEPT !.active = b]
                 IN  y.kdpb = ctx[c].kdpb /\ y.pixels = ctx[c].pixels
      BY <1>2 DEF ContextRec
    <3>2. h.x = ctx[c] \/ \E b : h.x = [ctx[c] EXCEPT !.active = b]
      <4>1. CASE Codec[c] # "AV1"
        BY <1>3, <4>1 DEF Headers
      <4>2. CASE Codec[c] = "AV1"
        <5>1. PICK obu \in BOOLEAN : h.x = [ctx[c] EXCEPT !.active = ctx[c].active \/ obu]
          BY <1>3, <4>2 DEF Headers
        <5>2. QED  BY <5>1, Zenon
      <4>3. QED  BY <4>1, <4>2
    <3>3. QED  BY <3>1, <3>2
  <2>4. QED  BY <1>2, <2>1, <2>2, <2>3, PoolSame, ExtraFewer DEF SameQueue
<1>4. CASE Fail(c, ctx[c], surf)
  BY <1>1, <1>2, <1>4, ExtraFail
<1>5. ASSUME NEW h \in Headers(c, ctx[c]), Fail(c, h.x, surf) PROVE ReuseInv'
  BY <1>1, <1>2, <1>3, <1>5, ExtraFail
<1>6. ASSUME NEW h \in Headers(c, ctx[c]),
             EnsureCapture(c, h.x, [call EXCEPT !.at = "start", !.refresh = h.refresh])
      PROVE  ReuseInv'
  <2> DEFINE next == [call EXCEPT !.at = "start", !.refresh = h.refresh]
  <2>1. next.at = "start"
    BY <1>2 DEF CallRec
  <2> HIDE DEF next
  <2>2. EnsureCapture(c, h.x, next)
    BY <1>6 DEF next
  <2>3. QED  BY <1>1, <1>2, <1>3, <2>1, <2>2, ExtraEnsureCapture
<1>7. QED  BY <1>4, <1>5, <1>6 DEF Prepare

LEMMA ReuseStart ==
  ASSUME EInv, Start
  PROVE  ReuseInv'
<1> DEFINE c == call.ctx
           x == [ctx[c] EXCEPT !.streamed = TRUE]
<1>1. ~InWait /\ IInv /\ SlotInv' /\ call.at = "start"
  BY ReuseIdle, InvStart DEF InWait, Start
<1>2. /\ c \in live /\ ctx[c] \in ContextRec /\ Derived(surf, c) /\ call \in CallRec
      /\ ExtraOK(c, ctx[c], surf, None, {})
  BY <1>1, CallFacts, TablesDerived, ReuseIdle
<1>3. \A O : LET z == [x EXCEPT !.freeOut = O]
             IN  z \in {z} /\ ExtraOK(c, z, surf, None, {})
  <2> TAKE O
  <2> DEFINE z == [x EXCEPT !.freeOut = O]
  <2>1. /\ z.allocd = ctx[c].allocd /\ z.slotBuf = ctx[c].slotBuf
        /\ z.kdpb = ctx[c].kdpb /\ z.pixels = ctx[c].pixels
        /\ z.current = ctx[c].current /\ z.free = ctx[c].free
    BY <1>2 DEF ContextRec
  <2> HIDE DEF z
  <2>2. ExtraOK(c, z, surf, None, {})
    BY <1>2, <2>1, ExtraFewer
  <2>3. QED  BY <2>2 DEF z
<1>4. x \in ContextRec /\ ExtraOK(c, x, surf, None, {})
  <2>1. x \in ContextRec /\ x = [x EXCEPT !.freeOut = x.freeOut]
    BY <1>2 DEF ContextRec
  <2> HIDE DEF x
  <2>2. QED  BY <1>3, <2>1
<1> HIDE DEF x
<1>5. CASE Fail(c, ctx[c], surf)
  BY <1>1, <1>2, <1>5, ExtraFail
<1>6. CASE Fail(c, x, surf)
  BY <1>1, <1>2, <1>4, <1>6, ExtraFail
<1>7. ASSUME NEW o \in x.freeOut,
             Goto(c, [x EXCEPT !.freeOut = @ \ {o}], surf,
                  [call EXCEPT !.at = "submit", !.out = o])
      PROVE  ReuseInv'
  <2> DEFINE next == [call EXCEPT !.at = "submit", !.out = o]
             z == [x EXCEPT !.freeOut = @ \ {o}]
  <2>1. next.at = "submit" /\ ExtraOK(c, z, surf, None, {})
    BY <1>2, <1>3 DEF CallRec
  <2>2. Goto(c, z, surf, next)
    BY <1>7
  <2> HIDE DEF next, z
  <2>3. QED  BY <1>1, <1>2, <2>1, <2>2, ExtraGoto
<1>8. QED  BY <1>5, <1>6, <1>7 DEF Start, x

-----------------------------------------------------------------------------
(* A slot's flight.                                                        *)

(* The tables while context c decodes, and before.                         *)
LEMMA FlightHolders ==
  ASSUME EInv
  PROVE  /\ \A s \in Surfaces : FlightTable[s] = surf[s] \/ FlightTable[s].index = None
         /\ InWait => LET u == ctx[call.ctx].current
                      IN  /\ u \in Surfaces /\ FlightTable[u].index = None
                          /\ \A s \in Surfaces : s # u => FlightTable[s] = surf[s]
         /\ \A c \in live, s \in Surfaces :
              InPool(surf, s, c) /\ (InWait => c # call.ctx) => FlightTable[s] = surf[s]
<1>1. surf \in SurfTable /\ \A s \in Surfaces : surf[s].index # None => surf[s].alive
  BY DEF EInv, TypeOK, SurfTable, ReuseInv, SurfacesOK
<1>2. CASE ~InWait
  BY <1>2 DEF FlightTable
<1>3. CASE InWait
  <2> DEFINE u == ctx[call.ctx].current
  <2>1. u \in Surfaces
    BY <1>3 DEF EInv, TypeOK, InWait
  <2>2. FlightTable = Unheld(surf, {u})
    BY <1>3 DEF FlightTable
  <2>3. /\ FlightTable[u].index = None
        /\ \A s \in Surfaces : s # u => FlightTable[s] = surf[s]
    <3>1. PICK v \in Surfaces : v = u
      BY <2>1
    <3>2. FlightTable = Unheld(surf, {v})
      BY <2>2, <3>1
    <3>3. /\ FlightTable[v].index = None
          /\ \A s \in Surfaces : s # v => FlightTable[s] = surf[s]
      BY <1>1, <3>2, UnheldOf
    <3>4. QED  BY <3>1, <3>3
  <2>4. surf[u].index # None => surf[u].from = call.ctx
    BY <1>3 DEF EInv, ReuseInv, ReuseOK
  <2>5. QED  BY <1>3, <2>1, <2>3, <2>4 DEF InPool
<1>4. QED  BY <1>2, <1>3

(* A step of context c alone, in flight or not.                            *)
LEMMA ReuseStep ==
  ASSUME EInv, TypeOK', NEW c \in live, NEW f, Derived(f, c),
         call.at = "idle" \/ call.ctx = c, call'.at = "idle" \/ call'.ctx = c,
         live' = live,
         \A s \in Surfaces : /\ surf'[s].index = f[s].index
                             /\ surf'[s].from = f[s].from
                             /\ surf'[s].alive = f[s].alive,
         \A d \in live \ {c} : ctx'[d] = ctx[d],
         ctx'[c].targets = ctx[c].targets, Decoder(c),
         ctx'[c].current # NoSurface => ctx'[c].current \in ctx[c].targets,
         PoolOK(c, ctx'[c], FlightTable', FlightSlot(c)'),
         ExtraOK(c, ctx'[c], FlightTable', FlightSlot(c)', Entering(c)'),
         CallOK', ReuseOK'
  PROVE  ReuseInv'
<1>1. SurfacesOK'
  BY DEF SurfacesOK, Derived, EInv, ReuseInv
<1>2. ContextsOK'
  BY DEF ContextsOK, EInv, ReuseInv, Decoder
<1>3. TargetsDisjoint'
  <2>1. \A d \in live : ctx'[d].targets = ctx[d].targets
    OBVIOUS
  <2>2. QED  BY <2>1 DEF TargetsDisjoint, EInv, ReuseInv, Decoder
<1>4. /\ \A d \in live \ {c} : FlightSlot(d) = None /\ FlightSlot(d)' = None
      /\ \A d \in live \ {c} : Entering(d) = {} /\ Entering(d)' = {}
  BY DEF FlightSlot, Entering
<1>5. \A s \in Surfaces : FlightTable'[s] = surf'[s] \/ FlightTable'[s].index = None
  <2>1. surf' \in SurfTable /\ \A s \in Surfaces : surf'[s].index # None => surf'[s].alive
    BY <1>1 DEF TypeOK, SurfTable, SurfacesOK
  <2>3. CASE InWait'
    <3> DEFINE u == ctx'[call'.ctx].current
    <3>1. FlightTable' = Unheld(surf', {u}) /\ u \in Surfaces
      BY <2>3 DEF FlightTable, Unheld, TypeOK, InWait
    <3>2. PICK v \in Surfaces : v = u
      BY <3>1
    <3>3. FlightTable' = Unheld(surf', {v})
      BY <3>1, <3>2
    <3>4. /\ Unheld(surf', {v})[v].index = None
          /\ \A s \in Surfaces : s # v => Unheld(surf', {v})[s] = surf'[s]
      BY <2>1, UnheldOf
    <3>5. QED  BY <3>3, <3>4
  <2>4. CASE ~InWait'
    BY <2>4 DEF FlightTable
  <2>5. QED  BY <2>3, <2>4
<1>6. ASSUME NEW d \in live \ {c}
      PROVE  PoolOK(d, ctx'[d], FlightTable', None) /\ ExtraOK(d, ctx'[d], FlightTable', None, {})
  <2>1. PoolOK(d, ctx[d], FlightTable, None) /\ ExtraOK(d, ctx[d], FlightTable, None, {})
    BY <1>4 DEF EInv, ReuseInv, ReusePoolsOK
  <2>2. ASSUME NEW s \in Surfaces, InPool(FlightTable', s, d)
        PROVE  InPool(FlightTable, s, d) /\ FlightTable'[s].index = FlightTable[s].index
    <3>1. InPool(surf', s, d) /\ FlightTable'[s].index = surf'[s].index
      BY <1>5, <2>2 DEF InPool
    <3>2. InPool(surf, s, d) /\ surf'[s].index = surf[s].index
      BY <3>1 DEF InPool, Derived
    <3>3. FlightTable[s] = surf[s]
      BY <3>2, FlightHolders DEF InWait
    <3>4. QED  BY <3>1, <3>2, <3>3 DEF InPool
  <2>3. PoolOK(d, ctx[d], FlightTable', None)
    BY <2>1, <2>2, PoolFewer
  <2>4. ExtraOK(d, ctx[d], FlightTable', None, {})
    BY <2>1, <2>2, ExtraFewer
  <2>5. QED  BY <2>3, <2>4
<1>7. ReusePoolsOK'
  <2> SUFFICES ASSUME NEW d \in live
               PROVE  /\ PoolOK(d, ctx'[d], FlightTable', FlightSlot(d)')
                      /\ ExtraOK(d, ctx'[d], FlightTable', FlightSlot(d)', Entering(d)')
    BY DEF ReusePoolsOK
  <2>1. QED  BY <1>4, <1>6
<1>8. QED  BY <1>1, <1>2, <1>3, <1>7 DEF ReuseInv

(* An exit of vaEndPicture from a flight.                                  *)
LEMMA ReuseFinish ==
  ASSUME EInv, TypeOK', NEW c \in live, Decoder(c), call.at # "idle", call.ctx = c,
         NEW x \in ContextRec, NEW f, Derived(f, c), NEW st, NEW ret,
         x.targets = ctx[c].targets, PoolOK(c, x, f, None),
         ListedOK(c, x), BelowOK(c, f, None), KnownOK(c, x, f, None, {}),
         Finish(c, x, f, st, ret)
  PROVE  ReuseInv'
<1>1. /\ f \in SurfTable /\ c \in Contexts
      /\ ctx \in [Contexts -> ContextRec] /\ live \subseteq Contexts
  BY DEF EInv, TypeOK, Derived, SameAlive
<1>2. live' = live /\ call'.at = "idle" /\ call'.bad = FALSE
  BY DEF Finish, Idle
<1>3. \A s \in Surfaces : /\ surf'[s].index = f[s].index
                          /\ surf'[s].from = f[s].from
                          /\ surf'[s].alive = f[s].alive
  BY <1>1 DEF Finish, SurfTable, SurfaceRec
<1>4. /\ ctx'[c] = [x EXCEPT !.current = NoSurface]
      /\ \A d \in live \ {c} : ctx'[d] = ctx[d]
  BY <1>1 DEF Finish
<1>5. FlightTable' = surf' /\ FlightSlot(c)' = None /\ Entering(c)' = {} /\ ~InWait'
  BY <1>2 DEF FlightTable, FlightSlot, Entering, InWait
<1> DEFINE y == ctx'[c]
<1>6. /\ y.targets = x.targets /\ y.allocd = x.allocd /\ y.free = x.free
      /\ y.slotBuf = x.slotBuf /\ y.owner = x.owner /\ y.streamed = x.streamed
      /\ y.active = x.active /\ y.current = NoSurface
      /\ y.kdpb = x.kdpb /\ y.pixels = x.pixels
  BY <1>4 DEF ContextRec
<1> HIDE DEF y
<1>7. PoolOK(c, y, surf', None)
  <2>1. PoolOK(c, y, f, None)
    BY <1>6, PoolSame DEF SameQueue
  <2>2. QED  BY <1>3, <2>1, PoolFewer DEF InPool
<1>8. ExtraOK(c, y, surf', None, {})
  BY <1>3, <1>6 DEF ExtraOK, ListedOK, BelowOK, KnownOK, UnreferencedOK, InPool
<1>9. CallOK' /\ ReuseOK'
  BY <1>2, <1>5 DEF CallOK, ReuseOK
<1>10. /\ PoolOK(c, ctx'[c], FlightTable', FlightSlot(c)')
       /\ ExtraOK(c, ctx'[c], FlightTable', FlightSlot(c)', Entering(c)')
       /\ ctx'[c].targets = ctx[c].targets /\ ctx'[c].current = NoSurface
  BY <1>5, <1>6, <1>7, <1>8 DEF y
<1>11. \A d \in live \ {c} : ctx'[d] = ctx[d]
  BY <1>4
<1>12. QED
  BY <1>2, <1>3, <1>9, <1>10, <1>11, ReuseStep

LEMMA ReuseCall ==
  ASSUME EInv, call.at # "idle"
  PROVE  LET c == call.ctx
         IN  /\ c \in live /\ c \in Contexts /\ ctx[c] \in ContextRec /\ Decoder(c)
             /\ ctx[c].current \in Surfaces /\ ctx[c].current \in ctx[c].targets
             /\ ctx[c].current # NoSurface /\ surf[ctx[c].current].alive
             /\ PoolOK(c, ctx[c], FlightTable, FlightSlot(c))
             /\ ExtraOK(c, ctx[c], FlightTable, FlightSlot(c), Entering(c))
             /\ call \in CallRec /\ Derived(surf, c)
<1> DEFINE c == call.ctx
<1>1. c \in live /\ ctx[c].current \in Surfaces /\ call \in CallRec
  BY DEF EInv, TypeOK
<1>2. c \in Contexts /\ ctx[c] \in ContextRec /\ surf \in SurfTable
  BY <1>1 DEF EInv, TypeOK, SurfTable
<1>3. ctx[c].current # NoSurface /\ Decoder(c)
  BY <1>1, ConstantAssumption DEF EInv, ReuseInv, CallOK
<1>4. ctx[c].current \in ctx[c].targets /\ surf[ctx[c].current].alive
  BY <1>1, <1>3 DEF EInv, ReuseInv, ContextsOK, CurrentSurfaceAlive
<1>5. /\ PoolOK(c, ctx[c], FlightTable, FlightSlot(c))
      /\ ExtraOK(c, ctx[c], FlightTable, FlightSlot(c), Entering(c))
  BY <1>1 DEF EInv, ReuseInv, ReusePoolsOK
<1>6. Derived(surf, c)
  BY <1>2 DEF Derived, SameAlive, EInv, ReuseInv, SurfacesOK
<1>7. QED  BY <1>1, <1>2, <1>3, <1>4, <1>5, <1>6

(* A step into a flight, or on in it.                                      *)
LEMMA ReuseGoto ==
  ASSUME EInv, TypeOK', call.at # "idle", NEW c, c = call.ctx,
         NEW x \in ContextRec, NEW u \in Surfaces, u = ctx[c].current,
         x.targets = ctx[c].targets, x.current = u, x.streamed,
         NEW next, next.ctx = c, next.at \in {"wait", "attach"}, ~next.bad,
         surf[u].index # None => surf[u].index = next.cap /\ surf[u].from = c,
         PoolOK(c, x, Unheld(surf, {u}), next.cap),
         ExtraOK(c, x, Unheld(surf, {u}), next.cap,
                 IF next.at = "attach" THEN next.refresh ELSE {}),
         Goto(c, x, surf, next)
  PROVE  ReuseInv'
<1>1. /\ c \in live /\ c \in Contexts /\ Decoder(c) /\ Derived(surf, c)
      /\ ctx \in [Contexts -> ContextRec] /\ live \subseteq Contexts
      /\ u \in ctx[c].targets
  BY ReuseCall DEF EInv, TypeOK
<1>2. /\ live' = live /\ surf' = surf /\ call' = next /\ ctx'[c] = x
      /\ \A d \in live \ {c} : ctx'[d] = ctx[d]
  BY <1>1 DEF Goto
<1>3. InWait' /\ call'.ctx = c /\ ctx'[call'.ctx].current = u
  BY <1>2 DEF InWait
<1>4. /\ FlightTable' = Unheld(surf, {u}) /\ FlightSlot(c)' = next.cap
      /\ Entering(c)' = IF next.at = "attach" THEN next.refresh ELSE {}
  BY <1>2, <1>3 DEF FlightTable, FlightSlot, Entering, Unheld
<1>5. CallOK' /\ ReuseOK'
  BY <1>1, <1>2, <1>3 DEF CallOK, ReuseOK, Decoder
<1>6. /\ PoolOK(c, ctx'[c], FlightTable', FlightSlot(c)')
      /\ ExtraOK(c, ctx'[c], FlightTable', FlightSlot(c)', Entering(c)')
  BY <1>2, <1>4
<1>7. QED  BY <1>1, <1>2, <1>3, <1>5, <1>6, ReuseStep

(* The slots decode_submit may choose from are slots of its context's      *)
(* queue, the one the current surface holds included.                      *)
LEMMA ReuseChoices ==
  ASSUME EInv, ExpbufMode, call.at = "submit"
  PROVE  LET c == call.ctx
             X == ctx[c]
             u == X.current
         IN  /\ surf[u].index # None => InPool(surf, u, c)
             /\ \A k \in CaptureChoices(X) : k \in Slots /\ k # None /\ k < X.allocd
<1> DEFINE c == call.ctx
           X == ctx[c]
           u == X.current
<1>1. ~InWait /\ IInv
  BY ReuseIdle DEF InWait
<1>2. /\ c \in live /\ c \in Contexts /\ X \in ContextRec /\ Decoder(c)
      /\ u \in Surfaces /\ u \in X.targets
  BY <1>1, ReuseCall
<1>3. PoolOK(c, X, surf, None) /\ ExtraOK(c, X, surf, None, {})
  BY <1>1, <1>2, CallFacts, ReuseIdle DEF FlightSlot
<1>4. surf[u].index # None => InPool(surf, u, c)
  <2>1. SurfacesOK /\ ContextsOK /\ TargetsDisjoint /\ surf[u].index \in Slots \cup {None}
    BY <1>1, <1>2 DEF IInv, SlotInv, TypeOK, SurfaceRec
  <2>2. ASSUME surf[u].index # None PROVE surf[u].from = c
    <3> DEFINE d == surf[u].from
    <3>1. d \in live /\ InPool(surf, u, d)
      BY <1>2, <2>1, <2>2 DEF SurfacesOK, InPool
    <3>2. u \in ctx[d].targets /\ surf[u].index < ctx[d].allocd
      BY <1>1, <1>2, <3>1 DEF IInv, SlotInv, PoolsOK, PoolOK, HoldersOK
    <3>3. Decoder(d)
      BY <2>1, <2>2, <3>1, <3>2, SlotFacts, ConstantAssumption DEF ContextsOK, Slots
    <3>4. QED  BY <1>2, <2>1, <3>1, <3>2, <3>3 DEF TargetsDisjoint
  <2>3. QED  BY <2>2 DEF InPool
<1>5. \A k \in CaptureChoices(X) : k \in Slots /\ k # None /\ k < X.allocd
  <2>1. CaptureChoices(X) = IF surf[u].index # None THEN {surf[u].index} ELSE X.free
    BY DEF CaptureChoices, ExpbufMode
  <2>2. surf[u].index # None => surf[u].index < X.allocd
    BY <1>2, <1>3, <1>4 DEF PoolOK, HoldersOK
  <2>3. X.free \subseteq Slots /\ surf[u].index \in Slots \cup {None}
    BY <1>2 DEF ContextRec, EInv, TypeOK, SurfaceRec
  <2>4. QED  BY <1>3, <2>1, <2>2, <2>3, SlotFacts DEF ExtraOK, ListedOK
<1>6. QED  BY <1>4, <1>5

LEMMA ReuseSubmit ==
  ASSUME EInv, TypeOK', ExpbufMode, Submit
  PROVE  ReuseInv'
<1> DEFINE c == call.ctx
           o == call.out
           X == ctx[c]
           u == X.current
           g == Unheld(surf, {u})
<1>1. ~InWait /\ IInv /\ call.at = "submit" /\ ~call.bad
  BY ReuseIdle DEF InWait, Submit, IInv, SlotInv, CallOK
<1>2. /\ c \in live /\ c \in Contexts /\ X \in ContextRec /\ Decoder(c)
      /\ u \in Surfaces /\ u \in X.targets /\ surf[u].alive /\ Derived(surf, c)
      /\ call \in CallRec /\ X.streamed /\ o \in OutSlots /\ u # NoSurface
  BY <1>1, ReuseCall DEF EInv, ReuseInv, CallOK, TypeOK
<1>3. PoolOK(c, X, surf, None) /\ ExtraOK(c, X, surf, None, {})
  BY <1>1, <1>2, CallFacts, ReuseIdle DEF FlightSlot
<1>4. surf[u].index # None => InPool(surf, u, c)
  BY <1>1, ReuseChoices
<1>5. /\ g[u].index = None
      /\ \A s \in Surfaces : s # u => g[s] = surf[s]
  <2>1. surf \in SurfTable /\ \A s \in Surfaces : surf[s].index # None => surf[s].alive
    BY DEF EInv, TypeOK, SurfTable, ReuseInv, SurfacesOK
  <2>2. PICK v \in Surfaces : v = u
    BY <1>2
  <2>3. /\ Unheld(surf, {v})[v].index = None
        /\ \A s \in Surfaces : s # v => Unheld(surf, {v})[s] = surf[s]
    BY <2>1, UnheldOf
  <2>4. QED  BY <2>2, <2>3
<1>6. \A s \in Surfaces : InPool(g, s, c) => InPool(surf, s, c) /\ g[s].index = surf[s].index
                                             /\ s # u
  BY <1>2, <1>5 DEF InPool
<1>7. \A k \in CaptureChoices(X) : k \in Slots /\ k # None /\ k < X.allocd
  BY <1>1, ReuseChoices
<1>8. CASE Fail(c, OutPoolPush(X, o), surf)
  <2> DEFINE y == OutPoolPush(X, o)
  <2>1. /\ y \in ContextRec /\ SameQueue(y, X) /\ y.free = X.free
        /\ y.current = X.current /\ y.kdpb = X.kdpb /\ y.pixels = X.pixels
    BY <1>2, PushTypes DEF OutPoolPush, SameQueue, ContextRec
  <2>2. Fail(c, y, surf)
    BY <1>8
  <2> HIDE DEF y, X
  <2>3. PoolOK(c, y, surf, None) /\ ExtraOK(c, y, surf, None, {})
    BY <1>3, <2>1, PoolSame, ExtraFewer DEF SameQueue
  <2>4. SlotInv'
    BY <1>1, <1>2, <2>1, <2>2, <2>3, FailInv DEF SameQueue, X
  <2>5. QED  BY <1>1, <1>2, <2>1, <2>2, <2>3, <2>4, ExtraFail DEF X
<1>9. ASSUME NEW k \in CaptureChoices(X), NEW x,
             x = IF surf[u].index = k /\ ExpbufWanted THEN X
                 ELSE [X EXCEPT !.free = @ \ {k}],
             Goto(c, x, surf, [call EXCEPT !.at = "wait", !.cap = k])
      PROVE  ReuseInv'
  <2> DEFINE next == [call EXCEPT !.at = "wait", !.cap = k]
  <2>1. k \in Slots /\ k # None /\ k < X.allocd
    BY <1>7
  <2>2. /\ next.ctx = c /\ next.at = "wait" /\ next.cap = k /\ ~next.bad
    BY <1>1, <1>2 DEF CallRec
  <2>3. Goto(c, x, surf, next)
    BY <1>9
  <2> HIDE DEF next
  <2>4. /\ x \in ContextRec /\ SameQueue(x, X) /\ x.current = u /\ x.streamed
        /\ x.kdpb = X.kdpb /\ x.pixels = X.pixels /\ x.free \subseteq X.free
    BY <1>2, <1>9 DEF ContextRec, SameQueue
  <2>5. surf[u].index # None => surf[u].index = k /\ surf[u].from = c
    BY <1>4, <1>9 DEF CaptureChoices, ExpbufMode, InPool
  <2>6. PoolOK(c, x, g, k) /\ k < NumCap
    <3>1. CASE surf[u].index = k
      <4>1. x = X /\ InPool(surf, u, c)
        BY <1>4, <1>9, <2>1, <3>1 DEF ExpbufMode
      <4>2. \A r \in Refs : X.slotBuf[r] # k
        <5> SUFFICES ASSUME NEW r \in Refs, X.slotBuf[r] = k PROVE FALSE
          OBVIOUS
        <5>1. X.kdpb[r] = k /\ X.pixels[k] = u
          BY <1>2, <1>3, <2>1, <3>1, <4>1 DEF ExtraOK, KnownOK
        <5>2. QED  BY <1>2, <1>3, <2>1, <5>1 DEF ExtraOK, UnreferencedOK
      <4>3. k \notin X.free /\ k < NumCap
        BY <1>2, <1>3, <3>1, <4>1 DEF PoolOK, HoldersOK, ExtraOK, BelowOK
      <4>4. \A s \in Surfaces : InPool(g, s, c) => g[s].index # k
        BY <1>2, <1>3, <1>6, <3>1, <4>1 DEF PoolOK, DistinctOK
      <4> HIDE DEF g
      <4>5. HoldersOK(c, X, g, k) /\ DistinctOK(c, g)
        BY <1>3, <1>6, <4>4 DEF PoolOK, HoldersOK, DistinctOK
      <4>6. RefsOK(c, X, g, k)
        BY <1>3, <1>6, <4>2 DEF PoolOK, RefsOK
      <4>7. QED  BY <2>1, <4>1, <4>3, <4>5, <4>6 DEF PoolOK, FlightOK
    <3>2. CASE surf[u].index # k
      <4>1. k \in X.free /\ x.free = X.free \ {k}
        BY <1>2, <1>9, <3>2 DEF CaptureChoices, ContextRec
      <4>2. PoolOK(c, x, surf, k)
        BY <1>3, <2>1, <2>4, <4>1, PoolTake
      <4>3. PoolOK(c, x, g, k)
        BY <1>6, <4>2, PoolFewer
      <4>4. QED  BY <1>3, <2>1, <4>1, <4>3 DEF ExtraOK, ListedOK
    <3>3. QED  BY <3>1, <3>2
  <2>7. ExtraOK(c, x, g, k, {})
    <3> HIDE DEF g, X
    <3>1. ListedOK(c, x) /\ KnownOK(c, x, g, k, {})
      BY <1>3, <1>6, <2>4 DEF ExtraOK, ListedOK, KnownOK, SameQueue
    <3>2. BelowOK(c, g, k)
      BY <1>3, <1>6, <2>6 DEF ExtraOK, BelowOK
    <3>3. QED  BY <2>1, <3>1, <3>2 DEF ExtraOK
  <2>8. x.targets = X.targets
    BY <2>4 DEF SameQueue
  <2> HIDE DEF g
  <2>9. PoolOK(c, x, g, next.cap) /\ ExtraOK(c, x, g, next.cap,
                 IF next.at = "attach" THEN next.refresh ELSE {})
    BY <2>2, <2>6, <2>7
  <2>10. PICK v \in Surfaces, d \in live : v = u /\ d = c
    BY <1>2
  <2>11. /\ d = call.ctx /\ v = ctx[d].current /\ x.targets = ctx[d].targets
         /\ x.current = v
         /\ next.ctx = d /\ next.at \in {"wait", "attach"}
         /\ surf[v].index # None => surf[v].index = next.cap /\ surf[v].from = d
         /\ Goto(d, x, surf, next)
    BY <2>2, <2>3, <2>4, <2>5, <2>8, <2>10
  <2>12. /\ PoolOK(d, x, Unheld(surf, {v}), next.cap)
         /\ ExtraOK(d, x, Unheld(surf, {v}), next.cap,
                    IF next.at = "attach" THEN next.refresh ELSE {})
    BY <2>9, <2>10 DEF g
  <2>13. QED  BY <1>1, <2>2, <2>4, <2>11, <2>12, ReuseGoto
<1>10. \A k \in CaptureChoices(X) :
         LET x == IF surf[u].index = k /\ ExpbufWanted THEN X ELSE [X EXCEPT !.free = @ \ {k}]
         IN  x.allocd = X.allocd
  BY <1>2 DEF ContextRec
<1>11. "qbuf_out" \notin Events /\ "qbuf_cap" \notin Events
  BY DEF ExpbufMode
<1>12. \/ Fail(c, OutPoolPush(X, o), surf)
       \/ \E k \in CaptureChoices(X) :
            LET x == IF surf[u].index = k /\ ExpbufWanted THEN X ELSE [X EXCEPT !.free = @ \ {k}]
            IN  \/ k >= x.allocd
                \/ Goto(c, x, surf, [call EXCEPT !.at = "wait", !.cap = k])
  BY <1>11, Zenon DEF Submit
<1>13. CASE \E k \in CaptureChoices(X) :
            LET x == IF surf[u].index = k /\ ExpbufWanted THEN X ELSE [X EXCEPT !.free = @ \ {k}]
            IN  \/ k >= x.allocd
                \/ Goto(c, x, surf, [call EXCEPT !.at = "wait", !.cap = k])
  <2>1. PICK k \in CaptureChoices(X) :
            LET x == IF surf[u].index = k /\ ExpbufWanted THEN X ELSE [X EXCEPT !.free = @ \ {k}]
            IN  \/ k >= x.allocd
                \/ Goto(c, x, surf, [call EXCEPT !.at = "wait", !.cap = k])
    BY <1>13
  <2>2. PICK x : x = IF surf[u].index = k /\ ExpbufWanted THEN X
                    ELSE [X EXCEPT !.free = @ \ {k}]
    OBVIOUS
  <2>3. k < x.allocd /\ k \in Int /\ x.allocd \in Int
    <3>1. X.allocd \in Int /\ k \in Int
      BY <1>2, <1>7, <2>1, SlotFacts DEF ContextRec, Slots
    <3>2. QED  BY <1>7, <1>10, <2>1, <2>2, <3>1
  <2>4. Goto(c, x, surf, [call EXCEPT !.at = "wait", !.cap = k])
    <3>1. k >= x.allocd \/ Goto(c, x, surf, [call EXCEPT !.at = "wait", !.cap = k])
      BY <2>1, <2>2
    <3>2. QED  BY <2>3, <3>1
  <2>5. QED  BY <1>9, <2>2, <2>4
<1>14. QED  BY <1>8, <1>12, <1>13

(* The kernel's writes: what surfaces, pools and the driver's table keep.  *)
LEMMA DecodedKernel ==
  ASSUME NEW x \in ContextRec, NEW k \in Slots, NEW R, NEW o,
         NEW z \in Dequeued(Decoded(x, k, R), o)
  PROVE  /\ SameQueue(z, x) /\ z.free = x.free /\ z.current = x.current
         /\ \A r \in Refs : z.kdpb[r] = IF r \in R THEN k ELSE x.kdpb[r]
         /\ z.pixels[k] = x.current
         /\ \A j \in Slots : j # k /\ x.pixels[j] # x.current => z.pixels[j] = x.pixels[j]
<1> DEFINE y == Decoded(x, k, R)
<1>1. SameQueue(y, x) /\ y.free = x.free /\ y.current = x.current
  BY WaitQueue, CurrentKept
<1>2. /\ y.pixels = [j \in Slots |-> IF j = k THEN x.current
                                     ELSE IF x.pixels[j] = x.current THEN NoSurface
                                          ELSE x.pixels[j]]
      /\ y.kdpb = [r \in Refs |-> IF r \in R THEN k ELSE x.kdpb[r]]
  BY DEF Decoded, ContextRec
<1>3. /\ z.free = y.free /\ z.allocd = y.allocd /\ z.slotBuf = y.slotBuf
      /\ z.owner = y.owner /\ z.pixels = y.pixels /\ z.current = y.current
      /\ z.kdpb = y.kdpb /\ z.targets = y.targets /\ z.streamed = y.streamed
      /\ z.active = y.active
  <2>1. /\ y.targets = y.targets /\ DOMAIN y = DOMAIN x
        /\ DOMAIN x = {"targets", "current", "allocd", "free", "outAllocd", "freeOut",
             "done", "streamed", "request", "active", "slotBuf", "owner", "kdpb", "pixels"}
    BY DEF Decoded, ContextRec
  <2>2. (\E F, D : z = [y EXCEPT !.freeOut = F, !.done = D]) \/ \E D : z = [y EXCEPT !.done = D]
    BY Zenon DEF Dequeued
  <2> HIDE DEF y
  <2>3. QED  BY <2>1, <2>2
<1> HIDE DEF y
<1>4. QED  BY <1>1, <1>2, <1>3 DEF SameQueue

LEMMA ReuseWait ==
  ASSUME EInv, TypeOK', ExpbufMode, Wait
  PROVE  ReuseInv'
<1> DEFINE c == call.ctx
           k == call.cap
           X == ctx[c]
           u == X.current
           g == Unheld(surf, {u})
<1>1. InWait /\ call.at = "wait" /\ ~call.bad
  BY DEF InWait, Wait, EInv, ReuseInv, CallOK
<1>2. /\ c \in live /\ c \in Contexts /\ X \in ContextRec /\ Decoder(c)
      /\ u \in Surfaces /\ u \in X.targets /\ surf[u].alive /\ Derived(surf, c)
      /\ call \in CallRec /\ X.streamed /\ k \in Slots /\ k # None
  BY <1>1, ReuseCall, SlotFacts DEF EInv, ReuseInv, CallOK, TypeOK
<1>3. PoolOK(c, X, g, k) /\ ExtraOK(c, X, g, k, {})
  <2>1. FlightSlot(c) = k /\ Entering(c) = {} /\ FlightTable = g
    BY <1>1, <1>2 DEF FlightSlot, Entering, FlightTable
  <2>2. QED  BY <1>1, <2>1, ReuseCall
<1>4. /\ g[u].index = None
      /\ \A s \in Surfaces : s # u => g[s] = surf[s]
  <2>1. FlightTable = g
    BY <1>1 DEF FlightTable
  <2> HIDE DEF g
  <2>2. QED  BY <1>1, <2>1, FlightHolders
<1>5. surf[u].index # None => surf[u].index = k /\ surf[u].from = c
  BY <1>1 DEF EInv, ReuseInv, ReuseOK
<1> HIDE DEF g
<1>6. \A s \in Surfaces : InPool(surf, s, c) =>
        \/ s = u /\ surf[s].index = k
        \/ s # u /\ InPool(g, s, c) /\ g[s].index = surf[s].index
  BY <1>4, <1>5 DEF InPool
<1>7. k < X.allocd /\ k < NumCap /\ k \notin X.free
  BY <1>2, <1>3 DEF PoolOK, FlightOK, ExtraOK, BelowOK
<1>8. ASSUME "timeout" \in Events, Fail(c, DecodeReset(Spoiled(X, k)), surf)
      PROVE  ReuseInv'
  <2> DEFINE y == [DecodeReset(Spoiled(X, k)) EXCEPT !.request = "none"]
  <2>1. y \in ContextRec
    <3>1. DecodeReset(Spoiled(X, k)) \in ContextRec
      BY <1>2, ResetTypes
    <3>2. QED  BY <3>1 DEF ContextRec
  <2>2. /\ y.targets = X.targets /\ y.allocd = X.allocd
        /\ y.slotBuf = [r \in Refs |-> None]
        /\ y.free = {j \in 0 .. X.allocd - 1 :
                       \A s \in X.targets : surf[s].alive => surf[s].index # j}
    BY <1>2 DEF DecodeReset, RebuildFreePools, DpbModelReset, StreamOff, Spoiled, ContextRec
  <2>3. Finish(c, y, surf, "Skipped", "error")
    BY <1>8 DEF Fail
  <2> HIDE DEF y
  <2>4. HoldersOK(c, y, surf, None)
    <3> SUFFICES ASSUME NEW s \in Surfaces, InPool(surf, s, c)
                 PROVE  /\ s \in y.targets /\ surf[s].index < y.allocd
                        /\ surf[s].index \notin y.free
      BY DEF HoldersOK, InPool
    <3>1. s \in X.targets /\ surf[s].index < X.allocd
      BY <1>2, <1>3, <1>6, <1>7 DEF PoolOK, HoldersOK
    <3>2. surf[s].alive
      BY DEF EInv, ReuseInv, SurfacesOK, InPool
    <3>3. QED  BY <2>2, <3>1, <3>2
  <2>5. DistinctOK(c, surf)
    <3>1. \A s \in Surfaces : InPool(g, s, c) => g[s].index # k
      BY <1>3 DEF PoolOK, HoldersOK
    <3>2. \A s, t \in Surfaces :
            InPool(g, s, c) /\ InPool(g, t, c) /\ g[s].index = g[t].index => s = t
      BY <1>3 DEF PoolOK, DistinctOK
    <3>3. QED  BY <1>6, <3>1, <3>2 DEF DistinctOK
  <2>6. PoolOK(c, y, surf, None)
    BY <2>2, <2>4, <2>5 DEF PoolOK, RefsOK, FlightOK
  <2>7. ListedOK(c, y)
    <3>1. Codec[c] # "AV1" => X.allocd <= NumCap
      BY <1>3 DEF ExtraOK, ListedOK
    <3>2. Codec[c] = "AV1" => NumCapAV1 = NumCap
      BY <1>2, <1>8 DEF ExpbufMode
    <3>3. X.allocd \in Int /\ X.allocd <= NumCapAV1 /\ NumCap \in Int /\ NumCapAV1 \in Int
      BY <1>2, ConstantAssumption DEF ContextRec
    <3>4. X.allocd <= NumCap
      BY <3>1, <3>2, <3>3
    <3>5. \A j \in Slots : j \in y.free => j < y.allocd /\ j < NumCap
      BY <2>2, <3>3, <3>4
    <3>6. QED  BY <2>2, <3>1, <3>5, SlotFacts DEF ListedOK
  <2>8. BelowOK(c, surf, None)
    BY <1>3, <1>6, <1>7 DEF ExtraOK, BelowOK
  <2>9. KnownOK(c, y, surf, None, {})
    BY <2>2 DEF KnownOK
  <2>10. QED
    BY <1>1, <1>2, <2>1, <2>2, <2>3, <2>6, <2>7, <2>8, <2>9, ReuseFinish
<1>9. ASSUME NEW req \in {"ready", "none", "stuck"},
             NEW x \in Dequeued(Decoded(X, k, call.refresh), call.out),
             Goto(c, [x EXCEPT !.request = req], surf,
                  [call EXCEPT !.at = "attach", !.bad = FALSE])
      PROVE  ReuseInv'
  <2> DEFINE R == call.refresh
             z == [x EXCEPT !.request = req]
             next == [call EXCEPT !.at = "attach", !.bad = FALSE]
  <2>1. R \in SUBSET Refs /\ call.out \in OutSlots
    BY <1>1, <1>2 DEF CallRec, EInv, TypeOK
  <2>2. x \in ContextRec
    BY <1>2, <2>1, ResetTypes
  <2>3. /\ SameQueue(x, X) /\ x.free = X.free /\ x.current = u
        /\ \A r \in Refs : x.kdpb[r] = IF r \in R THEN k ELSE X.kdpb[r]
        /\ x.pixels[k] = u
        /\ \A j \in Slots : j # k /\ X.pixels[j] # u => x.pixels[j] = X.pixels[j]
    BY <1>2, <1>9, DecodedKernel
  <2>4. /\ z \in ContextRec /\ SameQueue(z, x) /\ z.free = x.free
        /\ z.current = x.current /\ z.kdpb = x.kdpb /\ z.pixels = x.pixels
    BY <2>2 DEF ContextRec, SameQueue
  <2>5. /\ next.ctx = c /\ next.at = "attach" /\ next.cap = k /\ ~next.bad /\ next.refresh = R
    BY <1>2 DEF CallRec
  <2>6. Goto(c, z, surf, next)
    BY <1>9
  <2> HIDE DEF z, next
  <2>7. PoolOK(c, z, g, k)
    <3>1. SameQueue(z, X) /\ z.free = X.free
      BY <2>3, <2>4 DEF SameQueue
    <3> HIDE DEF X, k
    <3>2. QED  BY <1>3, <3>1, PoolSame
  <2>8. ExtraOK(c, z, g, k, R)
    <3>1. ListedOK(c, z) /\ BelowOK(c, g, k)
      BY <1>3, <2>3, <2>4 DEF ExtraOK, ListedOK, SameQueue
    <3>2. \A r \in R : z.kdpb[r] = k /\ z.pixels[k] = z.current
      BY <2>1, <2>3, <2>4
    <3>3. ASSUME NEW r \in Refs \ R, NEW s \in Surfaces, z.slotBuf[r] # None,
                 InPool(g, s, c), g[s].index = z.slotBuf[r]
          PROVE  z.kdpb[r] = z.slotBuf[r] /\ z.pixels[z.slotBuf[r]] = s
      <4>1. z.slotBuf[r] = X.slotBuf[r]
        BY <2>3, <2>4 DEF SameQueue
      <4>2. X.kdpb[r] = X.slotBuf[r] /\ X.pixels[X.slotBuf[r]] = s
        BY <1>3, <3>3, <4>1 DEF ExtraOK, KnownOK
      <4>3. X.slotBuf[r] # k
        BY <1>3, <3>3, <4>1 DEF PoolOK, RefsOK
      <4>4. X.slotBuf[r] \in Slots
        BY <1>2, <3>3, <4>1 DEF ContextRec
      <4>5. s # u
        BY <1>4, <3>3 DEF InPool
      <4>6. QED  BY <2>3, <2>4, <3>3, <4>1, <4>2, <4>3, <4>4, <4>5
    <3>4. QED  BY <1>2, <3>1, <3>2, <3>3 DEF ExtraOK, KnownOK
  <2>9. PICK v \in Surfaces, d \in live : v = u /\ d = c
    BY <1>2
  <2>10. /\ d = call.ctx /\ v = ctx[d].current /\ z.targets = ctx[d].targets
         /\ z.current = v /\ z.streamed
         /\ next.ctx = d /\ next.at \in {"wait", "attach"}
         /\ surf[v].index # None => surf[v].index = next.cap /\ surf[v].from = d
         /\ Goto(d, z, surf, next)
    BY <1>2, <1>5, <2>3, <2>4, <2>5, <2>6, <2>9 DEF SameQueue
  <2>11. /\ PoolOK(d, z, Unheld(surf, {v}), next.cap)
         /\ ExtraOK(d, z, Unheld(surf, {v}), next.cap,
                    IF next.at = "attach" THEN next.refresh ELSE {})
    BY <2>5, <2>7, <2>8, <2>9 DEF g
  <2>12. QED  BY <1>1, <2>4, <2>5, <2>10, <2>11, ReuseGoto
<1>10. "corrupt" \notin Events
  BY DEF ExpbufMode
<1>11. QED  BY <1>8, <1>9, <1>10, Zenon DEF Wait

LEMMA ReuseAttach ==
  ASSUME EInv, TypeOK', ExpbufMode, Attach
  PROVE  ReuseInv'
<1> DEFINE c == call.ctx
           k == call.cap
           x == ctx[c]
           s == x.current
           R == call.refresh
           f == PullCapture(s, c, k)
           rel == ReleaseUnrefd(x, k, R)
           lost == {t \in Surfaces : \E j \in DOMAIN rel.loses :
                      rel.loses[j] = t /\ f[t].index = j}
           g == FlightTable
<1>1. InWait /\ call.at = "attach" /\ ~call.bad
  BY DEF InWait, Attach, EInv, ReuseInv, ReuseOK
<1>2. /\ c \in live /\ c \in Contexts /\ x \in ContextRec /\ Decoder(c)
      /\ s \in Surfaces /\ s \in x.targets /\ surf[s].alive /\ Derived(surf, c)
      /\ call \in CallRec /\ x.streamed /\ k \in Slots /\ k # None
      /\ R \in SUBSET Refs
  BY <1>1, ReuseCall, SlotFacts DEF EInv, ReuseInv, CallOK, TypeOK, CallRec
<1>3. PoolOK(c, x, g, k) /\ ExtraOK(c, x, g, k, R)
  <2>1. FlightSlot(c) = k /\ Entering(c) = R
    BY <1>1, <1>2 DEF FlightSlot, Entering
  <2>2. QED  BY <1>1, <2>1, ReuseCall
<1>4. k < x.allocd /\ k < NumCap /\ k \notin x.free
  BY <1>2, <1>3 DEF PoolOK, FlightOK, ExtraOK, BelowOK
<1>5. g[s].index = None /\ \A t \in Surfaces : t # s => g[t] = surf[t]
  BY <1>1, FlightHolders
<1>6. f \in SurfTable /\ Derived(f, c) /\ f[s].index = k /\ f[s].from = c /\ f[s].alive
      /\ \A t \in Surfaces : t # s => f[t] = surf[t]
  <2>1. surf \in SurfTable /\ surf[s] \in SurfaceRec
    BY <1>2 DEF EInv, TypeOK, SurfTable
  <2>2. SameAlive(f)
    BY <1>2, <2>1, PullAlive DEF EInv
  <2>3. \A t \in Surfaces : t # s => f[t] = surf[t]
    BY <2>1 DEF PullCapture, SurfTable
  <2>4. f[s] = [surf[s] EXCEPT !.index = k, !.from = c]
    BY <1>2, <2>1 DEF PullCapture, SurfTable
  <2>5. f[s].index = k /\ f[s].from = c /\ f[s].alive
    BY <1>2, <2>1, <2>4 DEF SurfaceRec
  <2> HIDE DEF f
  <2>6. Derived(f, c)
    BY <1>2, <2>2, <2>3, <2>5 DEF Derived
  <2>7. QED  BY <2>2, <2>3, <2>5, <2>6 DEF SameAlive
<1>7. k < NumCap /\ ~(k >= NumCap) /\ "pull" \notin Events
  BY <1>2, <1>4, SlotFacts, ConstantAssumption DEF ExpbufMode, Slots
<1>8. \/ Av1ModelActive(c) /\ Succeed(c, rel.x, Unheld(f, lost))
      \/ ~Av1ModelActive(c) /\ Succeed(c, x, f)
  BY <1>1, <1>7, Zenon DEF Attach
<1> HIDE DEF f, g
<1>9. \A t \in Surfaces : InPool(f, t, c) =>
        \/ t = s /\ f[t].index = k
        \/ t # s /\ InPool(g, t, c) /\ f[t].index = g[t].index /\ f[t].index # k
  BY <1>3, <1>5, <1>6 DEF InPool, PoolOK, HoldersOK
<1>10. CASE ~Av1ModelActive(c) /\ Succeed(c, x, f)
  <2>1. \A r \in Refs : x.slotBuf[r] = None
    BY <1>3, <1>10 DEF PoolOK, RefsOK, Av1ModelActive
  <2>2. HoldersOK(c, x, f, None)
    BY <1>2, <1>3, <1>4, <1>9 DEF HoldersOK, PoolOK, InPool
  <2>3. DistinctOK(c, f)
    BY <1>3, <1>9 DEF DistinctOK, PoolOK
  <2>4. PoolOK(c, x, f, None)
    BY <2>1, <2>2, <2>3 DEF PoolOK, FlightOK, RefsOK
  <2>5. /\ ListedOK(c, x) /\ BelowOK(c, f, None) /\ KnownOK(c, x, f, None, {})
    BY <1>3, <1>4, <1>9, <2>1 DEF ExtraOK, BelowOK, KnownOK
  <2>6. Finish(c, x, f, "Rendering", "success")
    BY <1>10 DEF Succeed
  <2>7. QED  BY <1>1, <1>2, <1>6, <2>4, <2>5, <2>6, ReuseFinish
<1>11. CASE Av1ModelActive(c) /\ Succeed(c, rel.x, Unheld(f, lost))
  <2> DEFINE h == Unheld(f, lost)
             y == rel.x
             slotBuf == [r \in Refs |-> IF r \in R THEN k ELSE x.slotBuf[r]]
             old == IF R = {} THEN {k}
                    ELSE {x.slotBuf[r] : r \in R} \ ({None, k} \cup {slotBuf[r] : r \in Refs})
  <2>1. x.active /\ Codec[c] = "AV1"
    BY <1>11 DEF Av1ModelActive
  <2>2. \A t \in Surfaces : f[t].index # None => f[t].alive
    BY <1>6 DEF Derived
  <2>3. PoolOK(c, y, h, None)
    <3>0. PICK k1, R1, x1 : k1 = k /\ R1 = R /\ x1 = x
      OBVIOUS
    <3>1. PICK s1 \in Surfaces : k1 = k /\ s1 = s /\ R1 = R /\ x1 = x
      BY <1>2, <3>0
    <3>2. /\ x1 \in ContextRec /\ k1 \in Slots /\ R1 \in SUBSET Refs /\ f \in SurfTable
          /\ x1.streamed /\ x1.active /\ Codec[c] = "AV1" /\ s1 = x1.current
          /\ s1 \in x1.targets /\ PoolOK(c, x1, g, k1) /\ f[s1].index = k1 /\ f[s1].alive
          /\ \A t \in Surfaces \ {s1} : f[t] = g[t]
      BY <1>2, <1>3, <1>5, <1>6, <2>1, <3>1
    <3>3. h = Unheld(f, {t \in Surfaces : \E j \in DOMAIN ReleaseUnrefd(x1, k1, R1).loses :
                          ReleaseUnrefd(x1, k1, R1).loses[j] = t /\ f[t].index = j})
      BY <3>1
    <3> HIDE DEF h, lost, rel, x, k, s, R
    <3>4. PoolOK(c, ReleaseUnrefd(x1, k1, R1).x, h, None)
      BY <2>2, <3>2, <3>3, ReleasePool
    <3>5. y = ReleaseUnrefd(x1, k1, R1).x
      BY <3>1 DEF rel
    <3>6. QED  BY <3>4, <3>5
  <2>4. y \in ContextRec
    BY <1>2, ReleaseTypes
  <2>5. /\ y.targets = x.targets /\ y.allocd = x.allocd
        /\ y.kdpb = x.kdpb /\ y.pixels = x.pixels
        /\ y.slotBuf = slotBuf /\ y.free = x.free \cup old
    BY <1>2 DEF ReleaseUnrefd, ContextRec
  <2>6. \A t \in Surfaces : h[t] = f[t] \/ h[t].index = None
    <3> HIDE DEF lost
    <3>1. \A t \in Surfaces :
            h[t] \in {f[t], [f[t] EXCEPT !.index = None, !.from = NoContext]}
      BY DEF Unheld
    <3>2. \A t \in Surfaces :
            [f[t] EXCEPT !.index = None, !.from = NoContext].index = None
      BY <1>6 DEF SurfTable, SurfaceRec
    <3>3. QED  BY <3>1, <3>2
  <2>7. SameAlive(h)
    <3> HIDE DEF lost
    <3>1. SameAlive(f)
      BY <1>6 DEF Derived
    <3>2. QED  BY <1>6, <3>1, UnheldType, UnheldAlive DEF SameAlive
  <2>8. Finish(c, y, h, "Rendering", "success")
    BY <1>11 DEF Succeed
  <2> HIDE DEF y, h, rel
  <2>9. Derived(h, c)
    BY <1>6, <2>6, <2>7 DEF Derived
  <2>10. \A t \in Surfaces : InPool(h, t, c) => InPool(f, t, c) /\ h[t].index = f[t].index
    BY <2>6 DEF InPool
  <2>11. /\ \A r \in Refs : slotBuf[r] = IF r \in R THEN k ELSE x.slotBuf[r]
         /\ \A j \in old : j = k \/ \E r \in Refs : x.slotBuf[r] = j
    BY <1>2
  <2> HIDE DEF slotBuf, old
  <2>12. ListedOK(c, y)
    <3>1. \A j \in Slots : \/ j = k
                           \/ j \in x.free \/ (\E r \in Refs : x.slotBuf[r] = j)
                           \/ ~(j \in y.free \/ (\E r \in Refs : y.slotBuf[r] = j))
      BY <2>5, <2>11
    <3>2. QED  BY <1>3, <1>4, <2>5, <3>1 DEF ExtraOK, ListedOK
  <2>13. BelowOK(c, h, None)
    BY <1>3, <1>4, <1>9, <2>10 DEF ExtraOK, BelowOK
  <2>14. KnownOK(c, y, h, None, {})
    <3> SUFFICES ASSUME NEW r \in Refs, NEW t \in Surfaces, slotBuf[r] # None,
                        InPool(h, t, c), h[t].index = slotBuf[r]
                 PROVE  x.kdpb[r] = slotBuf[r] /\ x.pixels[slotBuf[r]] = t
      BY <2>5 DEF KnownOK
    <3>1. InPool(f, t, c) /\ f[t].index = slotBuf[r]
      BY <2>10
    <3>2. CASE r \in R
      <4>1. slotBuf[r] = k /\ t = s
        BY <1>9, <2>11, <3>1, <3>2
      <4>2. QED  BY <1>3, <3>2, <4>1 DEF ExtraOK, KnownOK
    <3>3. CASE r \notin R
      <4>1. slotBuf[r] = x.slotBuf[r] /\ x.slotBuf[r] # k
        BY <1>3, <2>11, <3>3 DEF PoolOK, RefsOK
      <4>2. InPool(g, t, c) /\ g[t].index = x.slotBuf[r]
        BY <1>9, <3>1, <4>1
      <4>3. QED  BY <1>3, <3>3, <4>1, <4>2 DEF ExtraOK, KnownOK
    <3>4. QED  BY <3>2, <3>3
  <2>15. QED
    BY <1>1, <1>2, <2>3, <2>4, <2>5, <2>8, <2>9, <2>12, <2>13, <2>14, ReuseFinish
<1>12. QED  BY <1>8, <1>10, <1>11

(* vaExportSurfaceHandle takes a slot that is free, or shows the one the   *)
(* surface has.                                                            *)
LEMMA ReuseExport ==
  ASSUME EInv, ExpbufMode, NEW s \in Surfaces, ExportSurface(s)
  PROVE  ReuseInv'
<1>1. /\ LockFree /\ surf[s].alive /\ live' = live /\ call' = call
      /\ surf \in SurfTable /\ surf[s] \in SurfaceRec
      /\ ctx \in [Contexts -> ContextRec] /\ live \subseteq Contexts
  BY DEF ExportSurface, EInv, TypeOK, SurfTable
<1>2. ~InWait /\ IInv
  BY <1>1, ReuseIdle DEF InWait, LockFree
<1>3. PICK c \in OwningContexts(s) : \E x \in ClaimQueues(s, c) :
        ClaimAndExport(s, c, x, IF NeedsQueue(s, c)
                                THEN ReleaseCtxCaptureSurfaces(ctx[c]) ELSE surf)
  BY DEF ExportSurface
<1>4. PICK x \in ClaimQueues(s, c) :
        ClaimAndExport(s, c, x, IF NeedsQueue(s, c)
                                THEN ReleaseCtxCaptureSurfaces(ctx[c]) ELSE surf)
  BY <1>3
<1>5. c \in live /\ s \in ctx[c].targets /\ Decoder(c)
  <2>1. \E d \in live : s \in ctx[d].targets
    BY DEF ExportSurface, ExpbufMode
  <2>2. QED  BY <1>1, <1>3, <2>1 DEF OwningContexts, ExpbufMode
<1>6. PICK f : f = IF NeedsQueue(s, c) THEN ReleaseCtxCaptureSurfaces(ctx[c]) ELSE surf
  OBVIOUS
<1>7. /\ ctx[c] \in ContextRec /\ c \in Contexts
      /\ PoolOK(c, ctx[c], surf, None) /\ ExtraOK(c, ctx[c], surf, None, {})
  BY <1>1, <1>2, <1>5, IdlePools, ReuseIdle
<1>8. /\ x \in ContextRec /\ Derived(f, c)
      /\ x.targets = ctx[c].targets /\ x.current = ctx[c].current
      /\ PoolOK(c, x, f, None) /\ ExtraOK(c, x, f, None, {})
      /\ surf[s].index # None => x = ctx[c] /\ f = surf
      /\ surf[s].index = None => f[s].index = None
  <2>1. CASE ~NeedsQueue(s, c)
    <3>1. x = ctx[c] /\ f = surf
      BY <1>4, <1>6, <2>1 DEF ClaimQueues
    <3>2. QED  BY <1>2, <1>7, <3>1, TablesDerived
  <2>2. CASE NeedsQueue(s, c)
    <3> DEFINE y == CaptureStopped(ctx[c])
    <3>1. /\ y \in ContextRec /\ Derived(f, c)
          /\ \A r \in Refs : y.slotBuf[r] = None
          /\ \A t \in Surfaces : ~InPool(f, t, c)
      BY <1>2, <1>5, <1>6, <1>7, <2>2, StoppedQueue
    <3>2. y.targets = ctx[c].targets /\ y.current = ctx[c].current
      BY <1>7 DEF CaptureStopped, DpbModelReset, StreamOff, ContextRec
    <3>3. PICK z \in OutputQueues(y), n \in CapGrants(c) \cup {0} : x = CaptureQueue(z, n)
      BY <1>4, <2>2 DEF ClaimQueues
    <3> HIDE DEF y
    <3>4. /\ x \in ContextRec /\ ExtraOK(c, x, f, None, {})
          /\ x.targets = y.targets /\ x.current = y.current /\ x.slotBuf = y.slotBuf
      BY <1>7, <3>1, <3>3, RebuiltQueue
    <3>5. PoolOK(c, x, f, None)
      BY <3>1, <3>4, PoolUnheld
    <3>6. surf[s].index = None /\ f[s].index = None
      BY <1>2, <1>6, <2>2, UnheldSlots DEF NeedsQueue, ReleaseCtxCaptureSurfaces
    <3>7. QED  BY <3>1, <3>2, <3>4, <3>5, <3>6
  <2>3. QED  BY <2>1, <2>2
<1>9. ClaimAndExport(s, c, x, f)
  BY <1>4, <1>6
<1>10. f \in SurfTable /\ (\A t \in Surfaces : f[t].alive = surf[t].alive) /\ f[s] \in SurfaceRec
  BY <1>8 DEF Derived, SameAlive, SurfTable
(* What the claim leaves, whoever now holds a slot. *)
<1>11. ASSUME NEW y \in ContextRec, NEW h, Derived(h, c), y.targets = x.targets,
              y.current = x.current, PoolOK(c, y, h, None), ExtraOK(c, y, h, None, {}),
              ctx' = [ctx EXCEPT ![c] = y],
              \A t \in Surfaces : /\ surf'[t].index = h[t].index
                                  /\ surf'[t].from = h[t].from
                                  /\ surf'[t].alive = h[t].alive
       PROVE  ReuseInv'
  <2>1. ctx'[c] = y /\ \A d \in live \ {c} : ctx'[d] = ctx[d]
    BY <1>1, <1>7, <1>11
  <2>2. \A d : FlightSlot(d) = None /\ FlightSlot(d)' = None
    BY <1>1 DEF FlightSlot, LockFree
  <2>3. CallOK'
    BY <1>1, <1>2 DEF LockFree, CallOK, IInv, SlotInv
  <2>4. /\ ctx'[c].targets = ctx[c].targets
        /\ ctx'[c].current # NoSurface => ctx'[c].current \in ctx[c].targets
    BY <1>2, <1>5, <1>8, <1>11, <2>1 DEF IInv, SlotInv, ContextsOK
  <2>5. PoolOK(c, ctx'[c], h, FlightSlot(c)')
    BY <1>11, <2>1, <2>2
  <2>6. SurfacesOK' /\ ContextsOK' /\ TargetsDisjoint' /\ PoolsOK'
    BY <1>1, <1>2, <1>5, <1>11, <2>1, <2>2, <2>4, <2>5, StepInv
  <2>7. SlotInv' /\ ~InWait'
    BY <1>1, <2>3, <2>6 DEF SlotInv, InWait, LockFree
  <2>8. ExtraOK(c, ctx'[c], h, None, {})
    BY <1>11, <2>1
  <2>9. QED  BY <1>1, <1>2, <1>5, <1>11, <2>1, <2>7, <2>8, ExtraStep
<1>12. CASE surf' = f /\ ctx' = [ctx EXCEPT ![c] = x]
  BY <1>8, <1>11, <1>12
<1>13. ASSUME NEW k \in IF surf[s].index = None THEN x.free ELSE {surf[s].index}, NEW fd,
              ctx' = [ctx EXCEPT ![c] =
                        IF surf[s].index = None THEN [x EXCEPT !.free = @ \ {k}] ELSE x],
              surf' = [f EXCEPT ![s].index = k, ![s].expbuf = fd,
                                ![s].from = IF surf[s].index = None THEN c ELSE @]
       PROVE  ReuseInv'
  <2>1. /\ \A t \in Surfaces : t # s => surf'[t] = f[t]
        /\ surf'[s].index = k /\ surf'[s].alive = f[s].alive
        /\ surf'[s].from = IF surf[s].index = None THEN c ELSE f[s].from
    BY <1>1, <1>10, <1>13 DEF SurfTable, SurfaceRec
  <2>2. CASE surf[s].index # None
    <3>1. ctx' = [ctx EXCEPT ![c] = x] /\ f = surf /\ k = surf[s].index
      BY <1>8, <1>13, <2>2
    <3>2. \A t \in Surfaces : /\ surf'[t].index = f[t].index
                              /\ surf'[t].from = f[t].from
                              /\ surf'[t].alive = f[t].alive
      BY <1>1, <2>1, <2>2, <3>1
    <3>3. QED  BY <1>8, <1>11, <3>1, <3>2
  <2>3. CASE surf[s].index = None
    <3> DEFINE y == [x EXCEPT !.free = @ \ {k}]
    <3>1. /\ y \in ContextRec /\ y.targets = x.targets /\ y.current = x.current
          /\ y.free = x.free \ {k} /\ SameQueue(y, x)
          /\ y.kdpb = x.kdpb /\ y.pixels = x.pixels
      BY <1>8 DEF ContextRec, SameQueue
    <3>2. k \in x.free /\ ctx' = [ctx EXCEPT ![c] = y]
      BY <1>13, <2>3
    <3> HIDE DEF y
    <3>3. k \in Slots /\ k # None /\ k < x.allocd /\ k < NumCap
      BY <1>8, <3>2, SlotFacts DEF ContextRec, ExtraOK, ListedOK
    <3>4. /\ surf'[s].from = c
          /\ \A t \in Surfaces : InPool(f, t, c) => f[t].index # k /\ t # s
      BY <1>8, <2>1, <2>3, <3>2 DEF PoolOK, HoldersOK, InPool
    <3> DEFINE h == [t \in Surfaces |-> IF t = s THEN surf'[s] ELSE f[t]]
    <3>5. \A t \in Surfaces : h[t] = surf'[t]
      BY <2>1
    <3>6. surf' \in SurfTable
      <4>1. surf'[s] = [f[s] EXCEPT !.index = k, !.expbuf = fd, !.from = c]
        BY <1>1, <1>10, <1>13, <2>3 DEF SurfTable, SurfaceRec
      <4>2. TypeOK'
        BY TypesExportSurface DEF EInv
      <4>3. QED  BY <4>2 DEF TypeOK, SurfTable
    <3>7. Derived(surf', c)
      BY <1>8, <1>10, <2>1, <3>4, <3>6, <1>1 DEF Derived, SameAlive
    <3>8. PoolOK(c, y, surf', None)
      <4>1. HoldersOK(c, y, surf', None)
        BY <1>5, <1>8, <2>1, <3>1, <3>3, <3>4 DEF PoolOK, HoldersOK, InPool, SameQueue
      <4>2. DistinctOK(c, surf')
        BY <1>8, <2>1, <3>4 DEF PoolOK, DistinctOK, InPool
      <4>3. RefsOK(c, y, surf', None)
        BY <1>8, <2>1, <3>1, <3>2, <3>4 DEF PoolOK, RefsOK, InPool, SameQueue
      <4>4. QED  BY <4>1, <4>2, <4>3 DEF PoolOK, FlightOK
    <3>9. ExtraOK(c, y, surf', None, {})
      <4>1. \A r \in Refs : x.slotBuf[r] # k
        BY <1>8, <3>2, <3>3 DEF PoolOK, RefsOK
      <4>2. ListedOK(c, y)
        BY <1>8, <3>1 DEF ExtraOK, ListedOK, SameQueue
      <4>3. BelowOK(c, surf', None)
        BY <1>8, <2>1, <3>3 DEF ExtraOK, BelowOK, InPool
      <4>4. KnownOK(c, y, surf', None, {})
        BY <1>8, <2>1, <3>1, <4>1 DEF ExtraOK, KnownOK, InPool, SameQueue
      <4>5. UnreferencedOK(y)
        BY <1>8, <3>1 DEF ExtraOK, UnreferencedOK
      <4>6. QED  BY <4>2, <4>3, <4>4, <4>5 DEF ExtraOK
    <3>10. QED  BY <1>11, <3>1, <3>2, <3>7, <3>8, <3>9
  <2>4. QED  BY <2>2, <2>3
<1>14. QED  BY <1>9, <1>12, <1>13, Zenon DEF ClaimAndExport

LEMMA ReuseInit == Init => ReuseInv
<1> SUFFICES ASSUME Init PROVE ReuseInv
  OBVIOUS
<1>1. live = {} /\ ~InWait /\ SlotInv
  BY InvInit DEF Init, Idle, InWait
<1>2. QED  BY <1>1 DEF ReuseInv, SlotInv, ReuseOK, ReusePoolsOK

LEMMA ReuseNext ==
  ASSUME ExpbufMode
  PROVE  EInv /\ [Next]_vars => ReuseInv'
<1> SUFFICES ASSUME EInv, [Next]_vars PROVE ReuseInv'
  OBVIOUS
<1>1. TypeOK'
  BY TypesNext DEF EInv
<1>2. CASE UNCHANGED vars
  <2>1. \A c : Entering(c)' = Entering(c) /\ FlightSlot(c)' = FlightSlot(c)
    BY <1>2 DEF vars, Entering, FlightSlot
  <2>2. FlightTable' = FlightTable /\ (InWait' <=> InWait)
    BY <1>2 DEF vars, FlightTable, InWait, Unheld
  <2>3. ReusePoolsOK'
    BY <1>2, <2>1, <2>2 DEF vars, EInv, ReuseInv, ReusePoolsOK
  <2>4. QED
    BY <1>2, <2>2, <2>3 DEF vars, EInv, ReuseInv, SurfacesOK, ContextsOK, TargetsDisjoint,
                            CallOK, ReuseOK
<1>3. CASE Next
  <2>1. LockFree => ~InWait
    BY DEF LockFree, InWait
  <2>2. CASE \E s \in Surfaces : CreateSurface(s) \/ SyncSurface(s)
    BY <2>1, <2>2, ReuseFewer DEF CreateSurface, SyncSurface
  <2>3. CASE \E s \in Surfaces : DestroySurfaces(s)
    BY <2>1, <2>3, ReuseDestroySurfaces DEF DestroySurfaces
  <2>4. CASE \E s \in Surfaces : ExportSurface(s)
    BY <2>4, ReuseExport
  <2>5. CASE \E c \in Contexts : CreateContextFails(c) \/ DestroyContext(c)
    BY <2>1, <2>5, ReuseFewer DEF CreateContextFails, DestroyContext
  <2>6. CASE \E c \in Contexts : CreateContext(c)
    BY <2>1, <2>6, ReuseCreateContext DEF CreateContext, ExpbufMode
  <2>7. CASE \E c \in Contexts : EndPicture(c)
    BY <2>1, <2>7, ReuseEndPicture DEF EndPicture
  <2>8. CASE \E c \in Contexts, s \in Surfaces : BeginPicture(c, s)
    BY <2>1, <2>8, ReuseBeginPicture DEF BeginPicture
  <2>9. CASE Prepare \/ Start \/ Submit \/ Wait \/ Attach
    BY <1>1, <2>9, ReusePrepare, ReuseStart, ReuseSubmit, ReuseWait, ReuseAttach
  <2>10. QED  BY <1>3, <2>2, <2>3, <2>4, <2>5, <2>6, <2>7, <2>8, <2>9 DEF Next
<1>4. QED  BY <1>2, <1>3

LEMMA ReuseInductive ==
  ASSUME ExpbufMode
  PROVE  Spec => [](TypeOK /\ CurrentSurfaceAlive /\ ReuseInv)
<1>1. TypeOK /\ CurrentSurfaceAlive /\ ReuseInv /\ [Next]_vars => ReuseInv'
  BY ReuseNext DEF EInv
<1>2. QED  BY ReuseInit, <1>1, TypesCorrect, CurrentNeverDangles, PTL DEF Spec

(* In the EXPBUF mode too the free pools never lie: a surface that keeps   *)
(* its slot over many pictures shares it with nobody, and the slot is not  *)
(* free while the decoder writes it again - for any number of surfaces,    *)
(* decode contexts, slots and references, with resizes, failed STREAMONs   *)
(* and REQBUFS, refused parameters and completions that never come.  Left  *)
(* out, because they break it (README.md, section 5): the paths that push  *)
(* the slot in flight back, surfaces that no context lists, and JPEG and   *)
(* VPP contexts, from whose queue a surface they list would be given an    *)
(* index.                                                                  *)
THEOREM ExclusiveInExpbufMode ==
  ASSUME ExpbufMode
  PROVE  Spec => []SlotsExclusive
<1>1. TypeOK /\ CurrentSurfaceAlive /\ ReuseInv => SlotsExclusive
  BY ReuseImpliesExclusive DEF EInv
<1>2. QED  BY <1>1, ReuseInductive, PTL

-----------------------------------------------------------------------------
(***************************************************************************)
(* ExportedSlotKept.  Which slots a surface keeps is a matter of one step  *)
(* in a reachable state; that nothing frees a slot that is kept is         *)
(* SlotsExclusive after the step.  The AV1 model releases the surface of a *)
(* replaced reference and is left out, as JPEG and VPP contexts are: one   *)
(* that lists a decoder's surfaces releases them when it goes.             *)
(***************************************************************************)
ExportMode ==
  ExpbufMode /\ \A c \in Contexts : Codec[c] # "AV1"

(* A step leaves slot k of context c with surface s, or may take it.       *)
Keeps(s, c, k) ==
  \/ surf'[s].alive /\ surf'[s].index = k /\ surf'[s].from = c
  \/ ~surf'[s].alive
  \/ c \notin live'
  \/ call.at = "prepare" /\ surf'[s].index = None

LEMMA HolderFacts ==
  ASSUME EInv, NEW s \in Surfaces, NEW c \in Contexts, NEW k \in Slots, Holds(s, c, k)
  PROVE  /\ surf \in SurfTable /\ surf[s] \in SurfaceRec /\ k # None
         /\ surf[s].alive /\ surf[s].index = k /\ surf[s].from = c
         /\ c \in live /\ InPool(surf, s, c)
<1>1. k # None /\ surf \in [Surfaces -> SurfaceRec]
  BY SlotFacts DEF EInv, TypeOK
<1>2. c \in live
  BY <1>1 DEF Holds, EInv, ReuseInv, SurfacesOK
<1>3. QED  BY <1>1, <1>2 DEF Holds, InPool, SurfTable

LEMMA KeepsFinish ==
  ASSUME EInv, NEW s \in Surfaces, NEW c \in Contexts, NEW k \in Slots, Holds(s, c, k),
         NEW d, NEW x, NEW st, NEW ret, Finish(d, x, surf, st, ret)
  PROVE  Keeps(s, c, k)
<1>1. surf' = [surf EXCEPT ![x.current].status = st]
  BY DEF Finish
<1>2. /\ surf'[s].alive = surf[s].alive /\ surf'[s].index = surf[s].index
      /\ surf'[s].from = surf[s].from
  BY <1>1, HolderFacts DEF SurfTable, SurfaceRec
<1>3. QED  BY <1>2, HolderFacts DEF Keeps

(* A release of surfaces of which s is not one.                            *)
LEMMA KeepsUnheld ==
  ASSUME EInv, NEW s \in Surfaces, NEW c \in Contexts, NEW k \in Slots, Holds(s, c, k),
         NEW T, s \notin T, surf' = Unheld(surf, T)
  PROVE  Keeps(s, c, k)
<1>1. surf'[s] = surf[s]
  BY DEF Unheld
<1>2. QED  BY <1>1, HolderFacts DEF Keeps

(* Outside a flight the holder is a render target of its context, and of   *)
(* no other.                                                               *)
LEMMA HolderListed ==
  ASSUME EInv, ExportMode, ~InWait, NEW s \in Surfaces, NEW c \in Contexts,
         NEW k \in Slots, Holds(s, c, k)
  PROVE  /\ s \in ctx[c].targets /\ k < ctx[c].allocd
         /\ \A d \in live : s \in ctx[d].targets => d = c
<1>1. PoolOK(c, ctx[c], surf, FlightSlot(c)) /\ TargetsDisjoint /\ live \subseteq Contexts
  BY ReuseIdle, HolderFacts DEF IInv, SlotInv, PoolsOK, TypeOK
<1>2. s \in ctx[c].targets /\ k < ctx[c].allocd
  BY <1>1, HolderFacts DEF PoolOK, HoldersOK
<1>3. QED  BY <1>1, <1>2, HolderFacts DEF TargetsDisjoint, ExportMode, ExpbufMode

LEMMA KeepsContexts ==
  ASSUME EInv, ExportMode, NEW s \in Surfaces, NEW c \in Contexts, NEW k \in Slots,
         Holds(s, c, k), NEW d \in Contexts,
         CreateContext(d) \/ CreateContextFails(d) \/ DestroyContext(d)
  PROVE  Keeps(s, c, k)
<1>1. ~InWait
  BY DEF CreateContext, CreateContextFails, DestroyContext, InWait, LockFree
<1>2. /\ c \in live /\ s \in ctx[c].targets
      /\ \A e \in live : s \in ctx[e].targets => e = c
  BY <1>1, HolderListed, HolderFacts
<1>3. \A T \in Listable(d) : s \notin T
  BY <1>2 DEF Listable, ExportMode, ExpbufMode, Decoder
<1>4. CASE CreateContext(d)
  <2>1. PICK T \in Listable(d) : surf' = surf \/ surf' = Unheld(surf, T)
    BY <1>4 DEF CreateContext
  <2>2. CASE surf' = surf
    BY <2>2, HolderFacts DEF Keeps
  <2>3. QED  BY <1>3, <2>1, <2>2, KeepsUnheld
<1>5. CASE CreateContextFails(d)
  BY <1>3, <1>5, KeepsUnheld DEF CreateContextFails
<1>6. CASE DestroyContext(d)
  <2>1. CASE d = c
    BY <1>6, <2>1 DEF DestroyContext, Keeps
  <2>2. CASE d # c
    <3>1. s \notin ctx[d].targets
      BY <1>2, <1>6, <2>2 DEF DestroyContext
    <3>2. QED  BY <1>6, <3>1, KeepsUnheld DEF DestroyContext, ReleaseCtxCaptureSurfaces
  <2>3. QED  BY <2>1, <2>2
<1>7. QED  BY <1>4, <1>5, <1>6

LEMMA KeepsSurfaces ==
  ASSUME EInv, ExportMode, NEW s \in Surfaces, NEW c \in Contexts, NEW k \in Slots,
         Holds(s, c, k), NEW t \in Surfaces,
         CreateSurface(t) \/ DestroySurfaces(t) \/ SyncSurface(t)
           \/ \E d \in Contexts : BeginPicture(d, t)
  PROVE  Keeps(s, c, k)
<1>1. surf \in SurfTable /\ surf[s] \in SurfaceRec /\ surf[s].alive
  BY HolderFacts
<1>2. CASE CreateSurface(t)
  BY <1>1, <1>2, HolderFacts DEF CreateSurface, Keeps
<1>3. CASE DestroySurfaces(t)
  <2>1. CASE s = t
    BY <1>1, <1>3, <2>1 DEF DestroySurfaces, Keeps, NoSurfaceRec, NewSurface, SurfTable
  <2>2. CASE s # t
    BY <1>3, <2>2, HolderFacts DEF DestroySurfaces, Keeps
  <2>3. QED  BY <2>1, <2>2
<1>4. CASE SyncSurface(t)
  <2>1. /\ surf'[s].alive = surf[s].alive /\ surf'[s].index = surf[s].index
        /\ surf'[s].from = surf[s].from
    BY <1>1, <1>4 DEF SyncSurface, SurfTable, SurfaceRec
  <2>2. QED  BY <2>1, HolderFacts DEF Keeps
<1>5. CASE \E d \in Contexts : BeginPicture(d, t)
  <2>1. surf' = surf
    BY <1>5 DEF BeginPicture, ExportMode, ExpbufMode
  <2>2. QED  BY <2>1, HolderFacts DEF Keeps
<1>6. QED  BY <1>2, <1>3, <1>4, <1>5

LEMMA KeepsExport ==
  ASSUME EInv, ExportMode, NEW s \in Surfaces, NEW c \in Contexts, NEW k \in Slots,
         Holds(s, c, k), NEW t \in Surfaces, ExportSurface(t)
  PROVE  Keeps(s, c, k)
<1>1. ~InWait
  BY DEF ExportSurface, InWait, LockFree
<1>2. /\ s \in ctx[c].targets /\ k < ctx[c].allocd /\ k \in Nat
      /\ \A d \in live : s \in ctx[d].targets => d = c
  BY <1>1, HolderListed, SlotFacts DEF Slots
<1>3. PICK d \in OwningContexts(t) :
        \E x \in ClaimQueues(t, d) :
          ClaimAndExport(t, d, x, IF NeedsQueue(t, d)
                                  THEN ReleaseCtxCaptureSurfaces(ctx[d]) ELSE surf)
  BY DEF ExportSurface
<1>4. d \in live
  BY <1>3 DEF OwningContexts, ExportSurface, ExportMode, ExpbufMode
<1>5. PICK f : f = IF NeedsQueue(t, d) THEN ReleaseCtxCaptureSurfaces(ctx[d]) ELSE surf
  OBVIOUS
<1>6. f[s] = surf[s] /\ f \in SurfTable
  <2>1. NeedsQueue(t, d) => s \notin ctx[d].targets
    BY <1>2, <1>4 DEF NeedsQueue
  <2>2. NeedsQueue(t, d) => f[s] = surf[s]
    BY <1>5, <2>1 DEF ReleaseCtxCaptureSurfaces, Unheld
  <2>3. f \in SurfTable
    BY <1>5, HolderFacts, UnheldType DEF ReleaseCtxCaptureSurfaces
  <2>4. QED  BY <1>5, <2>2, <2>3
<1>7. PICK x : ClaimAndExport(t, d, x, f)
  BY <1>3, <1>5
<1>8. CASE surf' = f
  BY <1>6, <1>8, HolderFacts DEF Keeps
<1>9. ASSUME NEW j \in IF surf[t].index = None THEN x.free ELSE {surf[t].index}, NEW fd,
             surf' = [f EXCEPT ![t].index = j, ![t].expbuf = fd,
                               ![t].from = IF surf[t].index = None THEN d ELSE @]
      PROVE  Keeps(s, c, k)
  <2>1. CASE t # s
    BY <1>6, <1>9, <2>1, HolderFacts DEF Keeps, SurfTable
  <2>2. CASE t = s
    <3>1. j = k /\ surf[t].index # None
      BY <1>9, <2>2, HolderFacts
    <3>2. /\ surf'[s].alive = f[s].alive /\ surf'[s].index = k
          /\ surf'[s].from = f[s].from
      BY <1>6, <1>9, <2>2, <3>1 DEF SurfTable, SurfaceRec
    <3>3. QED  BY <1>6, <3>2, HolderFacts DEF Keeps
  <2>3. QED  BY <2>1, <2>2
<1>10. QED  BY <1>7, <1>8, <1>9, Zenon DEF ClaimAndExport

LEMMA KeepsPicture ==
  ASSUME EInv, ExportMode, NEW s \in Surfaces, NEW c \in Contexts, NEW k \in Slots,
         Holds(s, c, k), (\E d \in Contexts : EndPicture(d)) \/ Start \/ Submit \/ Wait
  PROVE  Keeps(s, c, k)
<1>1. CASE surf' = surf
  BY <1>1, HolderFacts DEF Keeps
<1>2. CASE \E d \in Contexts : EndPicture(d)
  BY <1>1, <1>2, KeepsFinish DEF EndPicture, Goto
<1>3. CASE Start
  BY <1>1, <1>3, KeepsFinish DEF Start, Goto, Fail
<1>4. CASE Submit
  BY <1>1, <1>4, KeepsFinish DEF Submit, Goto, Fail
<1>5. CASE Wait
  BY <1>1, <1>5, KeepsFinish DEF Wait, Goto, Fail
<1>6. QED  BY <1>2, <1>3, <1>4, <1>5

LEMMA KeepsPrepare ==
  ASSUME EInv, ExportMode, NEW s \in Surfaces, NEW c \in Contexts, NEW k \in Slots,
         Holds(s, c, k), Prepare
  PROVE  Keeps(s, c, k)
<1>1. call.at = "prepare" /\ surf \in SurfTable
  BY HolderFacts DEF Prepare
<1>2. PICK f : /\ f = surf \/ \E T : f = Unheld(surf, T)
               /\ surf' = f \/ \E d, x, st, ret : Finish(d, x, f, st, ret)
  <2>1. \A d, x, next : EnsureCapture(d, x, next) =>
          \E f : /\ f = surf \/ \E T : f = Unheld(surf, T)
                 /\ surf' = f \/ \E e, y, st, ret : Finish(e, y, f, st, ret)
    BY Zenon DEF EnsureCapture, Goto, Fail, ReleaseCtxCaptureSurfaces
  <2>2. QED  BY <2>1 DEF Prepare, Fail
<1>3. /\ f \in SurfTable /\ f[s] \in SurfaceRec
      /\ f[s] = surf[s] \/ f[s].index = None
  <2>1. ASSUME NEW T, f = Unheld(surf, T)
        PROVE  f \in SurfTable /\ (f[s] = surf[s] \/ f[s].index = None)
    <3>1. f \in SurfTable
      BY <1>1, <2>1, UnheldType
    <3>2. f[s] = surf[s] \/ f[s].index = None
      BY <2>1, HolderFacts DEF Unheld, SurfaceRec
    <3>3. QED  BY <3>1, <3>2
  <2>2. QED  BY <1>1, <1>2, <2>1 DEF SurfTable
<1>4. /\ surf'[s].alive = f[s].alive /\ surf'[s].index = f[s].index
      /\ surf'[s].from = f[s].from
  <2>1. CASE surf' = f
    BY <2>1
  <2>2. ASSUME NEW d, NEW x, NEW st, NEW ret, Finish(d, x, f, st, ret)
        PROVE  /\ surf'[s].alive = f[s].alive /\ surf'[s].index = f[s].index
               /\ surf'[s].from = f[s].from
    BY <1>3, <2>2 DEF Finish, SurfTable, SurfaceRec
  <2>3. QED  BY <1>2, <2>1, <2>2
<1>5. QED  BY <1>1, <1>3, <1>4, HolderFacts DEF Keeps

LEMMA KeepsAttach ==
  ASSUME EInv, ExportMode, NEW s \in Surfaces, NEW c \in Contexts, NEW k \in Slots,
         Holds(s, c, k), Attach
  PROVE  Keeps(s, c, k)
<1> DEFINE d == call.ctx
           u == ctx[d].current
           f == PullCapture(u, d, call.cap)
<1>1. /\ d \in live /\ d \in Contexts /\ u \in Surfaces /\ surf \in SurfTable
      /\ call.cap \in Slots /\ InWait
  BY HolderFacts DEF Attach, EInv, TypeOK, InWait
<1>2. ~Av1ModelActive(d)
  BY <1>1 DEF Av1ModelActive, ExportMode
<1>3. CASE \E x, st, ret : Finish(d, x, surf, st, ret)
  BY <1>3, KeepsFinish
<1>4. CASE \E x, st, ret : Finish(d, x, f, st, ret)
  <2>1. f \in SurfTable /\ f[s].alive = surf[s].alive
    BY <1>1, HolderFacts DEF PullCapture, SurfTable, SurfaceRec
  <2>2. f[s].index = k /\ f[s].from = c
    <3>1. CASE s # u
      BY <1>1, <3>1, HolderFacts DEF PullCapture, SurfTable
    <3>2. CASE s = u
      <4>1. surf[u].index = call.cap /\ surf[u].from = d
        BY <1>1, <3>2, HolderFacts DEF EInv, ReuseInv, ReuseOK
      <4>2. QED  BY <1>1, <3>2, <4>1, HolderFacts DEF PullCapture, SurfTable, SurfaceRec
    <3>3. QED  BY <3>1, <3>2
  <2> HIDE DEF f
  <2>3. PICK x, st, ret : Finish(d, x, f, st, ret)
    BY <1>4
  <2>4. /\ surf'[s].alive = f[s].alive /\ surf'[s].index = f[s].index
        /\ surf'[s].from = f[s].from
    BY <2>1, <2>3 DEF Finish, SurfTable, SurfaceRec
  <2>5. QED  BY <2>1, <2>2, <2>4, HolderFacts DEF Keeps
<1>5. QED
  <2>1. \/ \E x, st, ret : Finish(d, x, surf, st, ret)
        \/ \E x, st, ret : Finish(d, x, f, st, ret)
    BY <1>2, Zenon DEF Attach, Fail, Succeed
  <2>2. QED  BY <1>3, <1>4, <2>1

LEMMA KeepsNext ==
  ASSUME EInv, ExportMode, NEW s \in Surfaces, NEW c \in Contexts, NEW k \in Slots,
         Holds(s, c, k), [Next]_vars
  PROVE  Keeps(s, c, k)
<1>1. CASE UNCHANGED vars
  BY <1>1, HolderFacts DEF vars, Keeps
<1>2. CASE \E t \in Surfaces : CreateSurface(t) \/ DestroySurfaces(t) \/ SyncSurface(t)
  BY <1>2, KeepsSurfaces
<1>3. CASE \E t \in Surfaces : ExportSurface(t)
  BY <1>3, KeepsExport
<1>4. CASE \E d \in Contexts : CreateContext(d) \/ CreateContextFails(d) \/ DestroyContext(d)
  BY <1>4, KeepsContexts
<1>5. CASE \E d \in Contexts, t \in Surfaces : BeginPicture(d, t)
  BY <1>5, KeepsSurfaces
<1>6. CASE (\E d \in Contexts : EndPicture(d)) \/ Start \/ Submit \/ Wait
  BY <1>6, KeepsPicture
<1>7. CASE Prepare \/ Attach
  BY <1>7, KeepsPrepare, KeepsAttach
<1>8. QED  BY <1>1, <1>2, <1>3, <1>4, <1>5, <1>6, <1>7 DEF Next

(* What was exported stays exported: a surface whose dma-buf a client may  *)
(* show keeps its slot over any number of pictures and never sees it in    *)
(* the free pool, until it is destroyed or its queue goes.                 *)
THEOREM ExportedKept ==
  ASSUME ExportMode
  PROVE  Spec => ExportedSlotKept
<1> DEFINE E == TypeOK /\ CurrentSurfaceAlive /\ ReuseInv
           A == \A c \in Contexts, k \in Slots, s \in Surfaces :
                  surf[s].expbuf = <<c, k>> /\ Holds(s, c, k) =>
                    \/ surf'[s].index = k /\ (k \in ctx'[c].free => k \in ctx[c].free)
                    \/ ~surf'[s].alive
                    \/ c \notin live'
                    \/ call.at = "prepare" /\ surf'[s].index = None
<1>1. Spec => []E
  BY ReuseInductive DEF ExportMode
<1>2. E /\ E' /\ [Next]_vars => A
  <2> SUFFICES ASSUME EInv, EInv', [Next]_vars, NEW c \in Contexts, NEW k \in Slots,
                      NEW s \in Surfaces, Holds(s, c, k)
               PROVE  \/ surf'[s].index = k /\ (k \in ctx'[c].free => k \in ctx[c].free)
                      \/ ~surf'[s].alive
                      \/ c \notin live'
                      \/ call.at = "prepare" /\ surf'[s].index = None
    BY DEF EInv
  <2>1. Keeps(s, c, k)
    BY KeepsNext
  <2>2. SlotsExclusive'
    BY ReuseImpliesExclusive, PTL
  <2>3. CASE surf'[s].alive /\ surf'[s].index = k /\ surf'[s].from = c /\ c \in live'
    BY <2>2, <2>3 DEF SlotsExclusive, Holds
  <2>4. QED  BY <2>1, <2>3 DEF Keeps
<1>3. QED  BY <1>1, <1>2, PTL DEF Spec, ExportedSlotKept

=============================================================================
