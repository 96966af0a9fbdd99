--------------------------- MODULE M2MQueueProofs ---------------------------
(***************************************************************************)
(* The safety of the persistent M2M queues, for any formats, controls,     *)
(* failures and timeouts: M2MQueue's TypeOK, ResultAsAsked,                *)
(* CopiesThroughLiveMaps, CompleteSetupsReleased, SteadyFailureRecovers.   *)
(*                                                                         *)
(* A job that skips the set-up trusts what "valid" stands for; a teardown  *)
(* that returns at once trusts that there is nothing to release.  IInv     *)
(* says both, and HealInv what the next job finds after a failure.         *)
(***************************************************************************)
EXTENDS M2MQueue, TLAPS

Preparing == {"format", "buffers", "map_out", "map_cap"}
Running == {"copy", "start", "poll", "dequeue", "finish"}

(* "valid" is set at the end of the set-up, and from then on every pointer *)
(* that will be used is a live mapping.                                    *)
QueueInv ==
  /\ call.at \in Preparing => ~q.valid
  /\ call.at \in Running => q.valid
  /\ q.valid => /\ q.key \in Setups
                /\ q.out0 = "current" /\ q.cap = "current"
                /\ q.planes >= 2 => q.out1 = "current"
  /\ kind = "VPP" /\ call.at \in {"buffers", "map_out"} => kern.planes = 1
  /\ call.at = "map_cap" =>
       /\ q.out0 \in {"current", "failed"}
       /\ kind = "JPEG" => q.out0 = "current"
       /\ q.planes >= 2 => q.out1 = "current"

(* The device is set up as the key says, for the job in progress.          *)
SetInv ==
  "s_ctrl" \notin Events =>
    /\ q.valid => kern.set = q.key
    /\ call.at \in {"buffers", "map_out", "map_cap"} \cup Running => kern.set = call.job

(* The CAPTURE buffer is the device's only while a job runs, and what is   *)
(* in it then was made from this job's pixels.                             *)
BufferInv ==
  /\ kern.queued \cap kern.done = {}
  /\ call.at \in {"idle", "copy", "finish"} \cup Preparing =>
       "cap" \notin kern.queued \cup kern.done
  /\ call.at \in {"start", "poll", "dequeue", "finish"} => kern.fresh
  /\ call.at \in {"start", "poll", "dequeue"} /\ "cap" \in kern.done => kern.result = kern.set
  /\ call.at = "finish" => kern.result = kern.set

(* Until a set-up breaks off, a queue that is not valid maps nothing,      *)
(* except the OUTPUT side of the set-up that is about to map CAPTURE.      *)
Unmapped(z) == ~Mapped(z.out0) /\ ~Mapped(z.out1) /\ ~Mapped(z.cap)

LeakInv ==
  ~broke =>
    /\ ~lost
    /\ ~q.valid /\ call.at # "map_cap" => Unmapped(q)
    /\ call.at = "map_cap" => ~Mapped(q.cap)

IInv == TypeOK /\ QueueInv /\ SetInv /\ BufferInv /\ LeakInv

-----------------------------------------------------------------------------
(* What the helpers return.                                                *)

LEMMA Types ==
  /\ EmptyQueue \in Queue /\ ~EmptyQueue.valid /\ Unmapped(EmptyQueue)
  /\ AnySetup \in Setups
  /\ OpenedDevice \in Kernel
  /\ OpenedDevice.queued = {} /\ OpenedDevice.done = {}
  /\ NoCall \in Call /\ NoCall.at = "idle"
<1>1. AnySetup \in Setups
  <2>1. PICK f \in Formats, c \in Controls : TRUE
    BY M2MAssumption
  <2>2. [out |-> f, cap |-> f, ctrl |-> c] \in Setups
    BY <2>1 DEF Setups
  <2> QED
    BY <2>2 DEF AnySetup
<1>2. OpenedDevice \in Kernel /\ OpenedDevice.queued = {} /\ OpenedDevice.done = {}
  BY <1>1 DEF OpenedDevice, Kernel, Sides
<1>3. NoCall \in Call /\ NoCall.at = "idle"
  BY M2MAssumption DEF NoCall, Call, Steps
<1>4. EmptyQueue \in Queue /\ ~EmptyQueue.valid /\ Unmapped(EmptyQueue)
  BY DEF EmptyQueue, Queue, Pointer, Unmapped, Mapped
<1> QED
  BY <1>1, <1>2, <1>3, <1>4

(* A teardown of a valid queue leaves an empty one and an idle device; of  *)
(* one that is not valid it leaves everything.                             *)
LEMMA TeardownEffect ==
  ASSUME NEW z \in Queue, NEW k \in Kernel
  PROVE  /\ Teardown(z, k).q \in Queue
         /\ ~Teardown(z, k).q.valid
         /\ Teardown(z, k).k \in Kernel
         /\ z.valid => /\ Unmapped(Teardown(z, k).q)
                       /\ Teardown(z, k).k.queued = {}
                       /\ Teardown(z, k).k.done = {}
         /\ ~z.valid => Teardown(z, k).q = z /\ Teardown(z, k).k = k
<1>1. CASE ~z.valid
  BY <1>1 DEF Teardown
<1>2. CASE z.valid
  <2>1. [StreamOff(k, Sides) EXCEPT !.has = {}] \in Kernel
    BY DEF StreamOff, Kernel
  <2>2. /\ [StreamOff(k, Sides) EXCEPT !.has = {}].queued = {}
        /\ [StreamOff(k, Sides) EXCEPT !.has = {}].done = {}
    BY DEF StreamOff, Kernel
  <2> QED
    BY <1>2, <2>1, <2>2, Types DEF Teardown
<1> QED
  BY <1>1, <1>2

(* A job that failed: the queue is not valid, and what is left is          *)
(* harmless if it was harmless before.                                     *)
LEMMA FailKeeps ==
  ASSUME IInv, NEW z \in Queue, NEW k \in Kernel, NEW fault \in BOOLEAN,
         Fail(z, k, fault), kind' = kind, open' = open, lost' \in BOOLEAN,
         ~z.valid => k.queued \cap k.done = {} /\ "cap" \notin k.queued \cup k.done,
         ~broke' => ~lost' /\ (~z.valid => Unmapped(z))
  PROVE  IInv'
<1>1. /\ q' \in Queue /\ ~q'.valid /\ kern' \in Kernel
      /\ kern'.queued \cap kern'.done = {} /\ "cap" \notin kern'.queued \cup kern'.done
      /\ ~broke' => Unmapped(q')
  BY TeardownEffect DEF Fail
<1>2. call' \in Call /\ call'.at = "idle"
  BY Types DEF Fail, Call, NoCall
<1>3. TypeOK'
  BY <1>1, <1>2 DEF IInv, TypeOK, Fail
<1>4. QueueInv' /\ SetInv'
  BY <1>1, <1>2 DEF QueueInv, SetInv, Preparing, Running
<1>5. BufferInv'
  BY <1>1, <1>2 DEF BufferInv, Preparing
<1>6. LeakInv'
  BY <1>1, <1>2 DEF LeakInv
<1> QED
  BY <1>3, <1>4, <1>5, <1>6 DEF IInv

-----------------------------------------------------------------------------
(* The life of the context, and the beginning of a job.                    *)

LEMMA InitKeeps == Init => IInv
<1> SUFFICES ASSUME Init PROVE IInv
  OBVIOUS
<1>1. TypeOK
  BY Types, M2MAssumption DEF Init, TypeOK, NoCall
<1> QED
  BY <1>1, Types DEF Init, IInv, QueueInv, SetInv, BufferInv, LeakInv, Preparing, Running

LEMMA CreateContextKeeps ==
  ASSUME IInv, CreateContext
  PROVE  IInv'
<1>1. TypeOK'
  BY Types DEF IInv, TypeOK, CreateContext, NoCall
<1> QED
  BY <1>1, Types DEF IInv, CreateContext, QueueInv, SetInv, BufferInv, LeakInv, Preparing, Running

(* What the teardown does not release is what a broken set-up left.        *)
LEMMA DestroyContextKeeps ==
  ASSUME IInv, DestroyContext
  PROVE  IInv'
<1>1. TypeOK'
  BY Types DEF IInv, TypeOK, DestroyContext, NoCall
<1>2. LeakInv'
  <2>1. ~broke => ~lost /\ Unmapped(Teardown(q, kern).q)
    BY TeardownEffect DEF IInv, TypeOK, LeakInv, DestroyContext
  <2> QED
    BY <2>1, Types DEF LeakInv, DestroyContext, Unmapped
<1> QED
  BY <1>1, <1>2, Types DEF IInv, DestroyContext, QueueInv, SetInv, BufferInv, Preparing, Running

(* The key covers the whole set-up.                                        *)
LEMMA KeyIsSetup ==
  ASSUME NEW a \in Setups, NEW b \in Setups, SetupKey(a) = SetupKey(b)
  PROVE  a = b
BY DEF SetupKey, Setups

LEMMA EnterKeeps ==
  ASSUME IInv, NEW job \in Setups, Enter(job)
  PROVE  IInv'
<1>1. CASE SameSetup(job)
  <2>1. q' = q /\ q.valid /\ kern' = [kern EXCEPT !.fresh = FALSE] /\ q.key = job
    BY <1>1, KeyIsSetup DEF Enter, SameSetup, IInv, QueueInv
  <2>2. call' = [NoCall EXCEPT !.at = "copy", !.job = job]
    BY <1>1 DEF Enter
  <2>3. call' \in Call /\ call'.at = "copy" /\ call'.job = job
    BY <2>2, Types DEF Call, Steps
  <2>4. kern' \in Kernel /\ kern'.set = kern.set /\ kern'.queued = kern.queued
        /\ kern'.done = kern.done
    BY <2>1 DEF IInv, TypeOK, Kernel
  <2>5. TypeOK'
    BY <2>1, <2>3, <2>4 DEF IInv, TypeOK, Enter
  <2>6. QueueInv' /\ SetInv' /\ LeakInv'
    BY <2>1, <2>3, <2>4 DEF IInv, QueueInv, SetInv, LeakInv, Preparing, Running, Enter
  <2>7. BufferInv'
    BY <2>3, <2>4 DEF IInv, BufferInv, Enter, Preparing
  <2> QED
    BY <2>5, <2>6, <2>7 DEF IInv
<1>2. CASE ~SameSetup(job)
  <2>1. /\ q' = Teardown(q, kern).q
        /\ kern' = [Teardown(q, kern).k EXCEPT !.fresh = FALSE]
        /\ call' = [NoCall EXCEPT !.at = "format", !.job = job]
    BY <1>2 DEF Enter
  <2>2. call' \in Call /\ call'.at = "format" /\ call'.job = job
    BY <2>1, Types DEF Call, Steps
  <2>3. /\ q' \in Queue /\ ~q'.valid /\ kern' \in Kernel
        /\ kern'.queued = Teardown(q, kern).k.queued
        /\ kern'.done = Teardown(q, kern).k.done
    BY <2>1, TeardownEffect DEF IInv, TypeOK, Kernel
  <2>4. kern'.queued \cap kern'.done = {} /\ "cap" \notin kern'.queued \cup kern'.done
    BY <2>3, TeardownEffect DEF IInv, TypeOK, BufferInv, Enter
  <2>5. ~broke => ~lost /\ Unmapped(q')
    BY <2>1, TeardownEffect DEF IInv, TypeOK, LeakInv, Enter
  <2>6. TypeOK'
    BY <2>2, <2>3 DEF IInv, TypeOK, Enter
  <2>7. QueueInv' /\ SetInv' /\ BufferInv'
    BY <2>2, <2>3, <2>4 DEF QueueInv, SetInv, BufferInv, Preparing, Running
  <2>8. LeakInv'
    BY <2>2, <2>5 DEF LeakInv, Enter
  <2> QED
    BY <2>6, <2>7, <2>8 DEF IInv
<1> QED
  BY <1>1, <1>2

-----------------------------------------------------------------------------
(* The set-up.                                                             *)

(* A step that goes on to another one.                                     *)
LEMMA GotoEffect ==
  ASSUME TypeOK, NEW step \in Steps, call.at # "idle", Goto(step)
  PROVE  /\ call' \in Call /\ call'.at = step /\ call'.job = call.job
         /\ call'.job \in Setups /\ broke' = broke
BY DEF Goto, TypeOK, Call

(* Formats and control together are the whole set-up.                      *)
LEMMA SetupParts ==
  ASSUME NEW s \in Setups, NEW t \in Setups
  PROVE  /\ [s EXCEPT !.out = t.out, !.cap = t.cap] \in Setups
         /\ [[s EXCEPT !.out = t.out, !.cap = t.cap] EXCEPT !.ctrl = t.ctrl] = t
<1>1. /\ DOMAIN s = {"out", "cap", "ctrl"}
      /\ t = [out |-> t.out, cap |-> t.cap, ctrl |-> t.ctrl]
      /\ s = [out |-> s.out, cap |-> s.cap, ctrl |-> s.ctrl]
  BY DEF Setups
<1> QED
  BY <1>1 DEF Setups

LEMMA SetFormatKeeps ==
  ASSUME IInv, SetFormat
  PROVE  IInv'
<1> DEFINE job == call.job
           formatted == [kern EXCEPT !.set.out = job.out]
           both == [formatted EXCEPT !.set.cap = job.cap]
<1>1. /\ call.at = "format" /\ job \in Setups /\ TypeOK /\ q \in Queue /\ kern \in Kernel
      /\ ~q.valid /\ kind' = kind /\ open' = open /\ lost' = lost /\ lost' \in BOOLEAN
      /\ kern.queued \cap kern.done = {} /\ "cap" \notin kern.queued \cup kern.done
      /\ ~broke => ~lost /\ Unmapped(q)
  BY DEF IInv, TypeOK, QueueInv, BufferInv, LeakInv, SetFormat, Preparing
<1>2. /\ formatted \in Kernel /\ formatted.queued = kern.queued /\ formatted.done = kern.done
      /\ formatted.set = [kern.set EXCEPT !.out = job.out]
  BY <1>1 DEF Kernel, Setups
<1>3. ASSUME NEW k \in {kern, formatted}, NEW fault \in BOOLEAN, Fail(q, k, fault)
      PROVE  IInv'
  <2>1. /\ k \in Kernel
        /\ k.queued \cap k.done = {} /\ "cap" \notin k.queued \cup k.done
    BY <1>1, <1>2
  <2>2. ~broke' => ~broke
    BY <1>3 DEF Fail
  <2> QED
    BY <1>1, <1>3, <2>1, <2>2, FailKeeps
<1>4. ASSUME NEW p \in {1, 3}, kind = "VPP" => p = 1,
             NEW c \in {job.ctrl} \cup (IF "s_ctrl" \in Events THEN {kern.set.ctrl} ELSE {}),
             kern' = [both EXCEPT !.set.ctrl = c, !.planes = p],
             Goto("buffers"), q' = q
      PROVE  IInv'
  <2>1. /\ call' \in Call /\ call'.at = "buffers" /\ call'.job = job /\ call'.job \in Setups
        /\ broke' = broke
    BY <1>1, <1>4, GotoEffect DEF Steps
  <2>2. /\ both \in Kernel /\ both.queued = kern.queued /\ both.done = kern.done
        /\ both.set = [kern.set EXCEPT !.out = job.out, !.cap = job.cap]
    BY <1>1, <1>2 DEF Kernel, Setups
  <2>3. c \in Controls /\ ("s_ctrl" \notin Events => c = job.ctrl)
    BY <1>1 DEF Kernel, Setups
  <2>4. /\ kern' \in Kernel /\ kern'.queued = kern.queued /\ kern'.done = kern.done
        /\ kern'.planes = p
        /\ kern'.set = [both.set EXCEPT !.ctrl = c]
    BY <1>4, <2>2, <2>3 DEF Kernel, Setups
  <2>5. "s_ctrl" \notin Events => kern'.set = job
    <3>1. kern.set \in Setups
      BY <1>1 DEF Kernel
    <3> QED
      BY <1>1, <2>2, <2>3, <2>4, <3>1, SetupParts
  <2>6. TypeOK'
    BY <1>1, <1>4, <2>1, <2>4 DEF TypeOK
  <2>7. QueueInv' /\ SetInv'
    BY <1>1, <1>4, <2>1, <2>4, <2>5 DEF QueueInv, SetInv, Preparing, Running
  <2>8. BufferInv' /\ LeakInv'
    BY <1>1, <1>4, <2>1, <2>4 DEF BufferInv, LeakInv, Preparing
  <2> QED
    BY <2>6, <2>7, <2>8 DEF IInv
<1> QED
  <2>1. CASE \/ Fail(q, kern, ~Busy("out", job.out))
             \/ Fail(q, formatted, ~Busy("cap", job.cap))
    BY <2>1, <1>3 DEF Busy
  <2>2. CASE \E p \in IF kind = "VPP" THEN {1}
                      ELSE {3} \cup (IF "nv12m" \in Events THEN {1} ELSE {}) :
               \E c \in {job.ctrl} \cup (IF "s_ctrl" \in Events THEN {kern.set.ctrl} ELSE {}) :
                 /\ kern' = [both EXCEPT !.set.ctrl = c, !.planes = p]
                 /\ Goto("buffers") /\ q' = q
    BY <2>2, <1>4
  <2> QED
    BY <2>1, <2>2 DEF SetFormat

LEMMA RequestBuffersKeeps ==
  ASSUME IInv, RequestBuffers
  PROVE  IInv'
<1> DEFINE z == [q EXCEPT !.out0 = Aged(@), !.out1 = Aged(@)]
           k == [kern EXCEPT !.has = @ \cup {"out"}]
<1>1. /\ call.at = "buffers" /\ TypeOK /\ q \in Queue /\ kern \in Kernel
      /\ ~q.valid /\ kind' = kind /\ open' = open /\ lost' = lost /\ lost' \in BOOLEAN
      /\ kern.queued \cap kern.done = {} /\ "cap" \notin kern.queued \cup kern.done
      /\ ~broke => ~lost /\ Unmapped(q)
  BY DEF IInv, TypeOK, QueueInv, BufferInv, LeakInv, RequestBuffers, Preparing
<1>2. \A p \in Pointer : Aged(p) \in Pointer /\ (~Mapped(p) => Aged(p) = p)
  BY DEF Aged, Pointer, Mapped
<1>3. z \in Queue /\ ~z.valid /\ z.cap = q.cap /\ (Unmapped(q) => Unmapped(z))
  BY <1>1, <1>2 DEF Queue, Unmapped
<1>4. k \in Kernel /\ k.queued = kern.queued /\ k.done = kern.done
  BY <1>1 DEF Kernel, Sides
<1>5. CASE Fail(q, kern, TRUE) \/ Fail(z, k, TRUE)
  <2>1. broke'
    BY <1>1, <1>5 DEF Fail
  <2> QED
    BY <1>1, <1>3, <1>4, <1>5, <2>1, FailKeeps
<1>6. CASE q' = [z EXCEPT !.cap = Aged(@)] /\ kern' = [kern EXCEPT !.has = Sides] /\ Goto("map_out")
  <2>1. /\ call' \in Call /\ call'.at = "map_out" /\ call'.job = call.job /\ call'.job \in Setups
        /\ broke' = broke
    BY <1>1, <1>6, GotoEffect DEF Steps
  <2>2. q' \in Queue /\ ~q'.valid /\ (Unmapped(q) => Unmapped(q'))
    BY <1>2, <1>3, <1>6 DEF Queue, Unmapped
  <2>3. /\ kern' \in Kernel /\ kern'.queued = kern.queued /\ kern'.done = kern.done
        /\ kern'.planes = kern.planes /\ kern'.set = kern.set
    BY <1>1, <1>6 DEF Kernel
  <2>4. TypeOK'
    BY <1>1, <2>1, <2>2, <2>3 DEF TypeOK
  <2>5. QueueInv' /\ SetInv'
    BY <1>1, <2>1, <2>2, <2>3 DEF IInv, QueueInv, SetInv, Preparing, Running
  <2>6. BufferInv' /\ LeakInv'
    BY <1>1, <2>1, <2>2, <2>3 DEF BufferInv, LeakInv, Preparing
  <2> QED
    BY <2>4, <2>5, <2>6 DEF IInv
<1> QED
  BY <1>5, <1>6 DEF RequestBuffers

LEMMA MapOutputKeeps ==
  ASSUME IInv, MapOutput
  PROVE  IInv'
<1>1. /\ call.at = "map_out" /\ TypeOK /\ q \in Queue /\ kern \in Kernel
      /\ ~q.valid /\ kind' = kind /\ open' = open /\ lost \in BOOLEAN
      /\ kern.queued \cap kern.done = {} /\ "cap" \notin kern.queued \cup kern.done
      /\ ~broke => ~lost /\ Unmapped(q)
      /\ kind = "VPP" => kern.planes = 1
  BY DEF IInv, TypeOK, QueueInv, BufferInv, LeakInv, MapOutput, Preparing
<1>2. kind \in {"JPEG", "VPP"} /\ kern.planes \in {1, 3}
  BY <1>1 DEF TypeOK, Kernel
<1>3. ASSUME Fail(q, kern, TRUE), lost' = lost
      PROVE  IInv'
  <2>1. broke'
    BY <1>1, <1>3 DEF Fail
  <2> QED
    BY <1>1, <1>3, <2>1, FailKeeps
<1>4. ASSUME NEW p0 \in MmapResults,
             NEW p1 \in IF kern.planes >= 2 THEN MmapResults ELSE {q.out1},
             LET z == [q EXCEPT !.planes = kern.planes, !.out0 = p0, !.out1 = p1]
             IN  IF kind = "JPEG" /\ "failed" \in {p0} \cup (IF z.planes >= 2 THEN {p1} ELSE {})
                 THEN Fail(z, kern, TRUE)
                 ELSE q' = z /\ kern' = kern /\ Goto("map_cap"),
             lost' = (lost \/ Mapped(q.out0) \/ (kern.planes >= 2 /\ Mapped(q.out1)))
      PROVE  IInv'
  <2> DEFINE z == [q EXCEPT !.planes = kern.planes, !.out0 = p0, !.out1 = p1]
  <2>1. p0 \in {"current", "failed"} /\ p1 \in Pointer
        /\ (kern.planes >= 2 => p1 \in {"current", "failed"})
    BY <1>1 DEF MmapResults, Queue, Pointer
  <2>2. /\ z \in Queue /\ z.valid = q.valid /\ z.planes = kern.planes
        /\ z.out0 = p0 /\ z.out1 = p1 /\ z.cap = q.cap
    BY <1>1, <1>2, <2>1 DEF Queue, Pointer
  <2>3. lost' \in BOOLEAN
    BY <1>1, <1>4
  <2>4. CASE Fail(z, kern, TRUE)
    <3>1. broke'
      BY <1>1, <2>4 DEF Fail
    <3> QED
      BY <1>1, <2>2, <2>3, <2>4, <3>1, FailKeeps
  <2>5. CASE /\ ~(kind = "JPEG" /\ "failed" \in {p0} \cup (IF z.planes >= 2 THEN {p1} ELSE {}))
             /\ q' = z /\ kern' = kern /\ Goto("map_cap")
    <3>1. /\ call' \in Call /\ call'.at = "map_cap" /\ call'.job = call.job
          /\ call'.job \in Setups /\ broke' = broke
      BY <1>1, <2>5, GotoEffect DEF Steps
    <3>2. /\ kind = "JPEG" => q'.out0 = "current"
          /\ q'.planes >= 2 => q'.out1 = "current"
          /\ q'.out0 \in {"current", "failed"}
      BY <1>1, <1>2, <2>1, <2>2, <2>5
    <3>3. ~broke => ~lost' /\ ~Mapped(q'.cap)
      BY <1>1, <1>4, <2>2, <2>5 DEF Unmapped
    <3>4. TypeOK'
      BY <1>1, <2>2, <2>3, <2>5, <3>1 DEF TypeOK
    <3>5. QueueInv' /\ SetInv'
      BY <1>1, <2>2, <2>5, <3>1, <3>2 DEF IInv, QueueInv, SetInv, Preparing, Running
    <3>6. BufferInv' /\ LeakInv'
      BY <1>1, <2>5, <3>1, <3>3 DEF BufferInv, LeakInv, Preparing
    <3> QED
      BY <3>4, <3>5, <3>6 DEF IInv
  <2> QED
    BY <1>4, <2>4, <2>5
<1> QED
  BY <1>3, <1>4 DEF MapOutput

LEMMA MapCaptureKeeps ==
  ASSUME IInv, MapCapture
  PROVE  IInv'
<1>1. /\ call.at = "map_cap" /\ TypeOK /\ q \in Queue /\ kern \in Kernel
      /\ ~q.valid /\ kind' = kind /\ open' = open /\ lost \in BOOLEAN
      /\ kern.queued \cap kern.done = {} /\ "cap" \notin kern.queued \cup kern.done
      /\ ~broke => ~lost /\ ~Mapped(q.cap)
      /\ q.out0 \in {"current", "failed"} /\ (q.planes >= 2 => q.out1 = "current")
      /\ call.job \in Setups
  BY DEF IInv, TypeOK, QueueInv, BufferInv, LeakInv, MapCapture, Preparing
<1>2. ASSUME Fail(q, kern, TRUE), lost' = lost
      PROVE  IInv'
  <2>1. broke'
    BY <1>1, <1>2 DEF Fail
  <2> QED
    BY <1>1, <1>2, <2>1, FailKeeps
<1>3. ASSUME NEW p \in MmapResults, lost' = (lost \/ Mapped(q.cap)),
             p = "failed" \/ q.out0 = "failed", Fail([q EXCEPT !.cap = p], kern, TRUE)
      PROVE  IInv'
  <2>1. broke' /\ lost' \in BOOLEAN
    BY <1>1, <1>3 DEF Fail
  <2>2. [q EXCEPT !.cap = p] \in Queue
    BY <1>1 DEF MmapResults, Queue, Pointer
  <2> QED
    BY <1>1, <1>3, <2>1, <2>2, FailKeeps
<1>4. ASSUME NEW p \in MmapResults, lost' = (lost \/ Mapped(q.cap)),
             ~(p = "failed" \/ q.out0 = "failed"),
             q' = [q EXCEPT !.cap = p, !.key = call.job, !.valid = TRUE],
             kern' = kern, Goto("copy")
      PROVE  IInv'
  <2>1. /\ call' \in Call /\ call'.at = "copy" /\ call'.job = call.job
        /\ call'.job \in Setups /\ broke' = broke
    BY <1>1, <1>4, GotoEffect DEF Steps
  <2>2. p = "current"
    BY <1>4 DEF MmapResults
  <2>3. /\ q' \in Queue /\ q'.valid /\ q'.key = call.job /\ q'.cap = "current"
        /\ q'.out0 = "current" /\ q'.out1 = q.out1 /\ q'.planes = q.planes
    BY <1>1, <1>4, <2>2 DEF Queue, Pointer
  <2>4. TypeOK'
    BY <1>1, <1>4, <2>1, <2>3 DEF TypeOK
  <2>5. QueueInv'
    BY <1>1, <2>1, <2>3 DEF QueueInv, Preparing
  <2>6. SetInv'
    BY <1>1, <1>4, <2>1, <2>3 DEF IInv, SetInv
  <2>7. BufferInv' /\ LeakInv'
    BY <1>1, <1>4, <2>1, <2>3 DEF BufferInv, LeakInv
  <2> QED
    BY <2>4, <2>5, <2>6, <2>7 DEF IInv
<1> QED
  BY <1>2, <1>3, <1>4 DEF MapCapture

-----------------------------------------------------------------------------
(* The job on the queues.                                                  *)

(* A failure of a job whose queues were set up: they are torn down.        *)
LEMMA RunFails ==
  ASSUME IInv, call.at \in Running, NEW fault \in BOOLEAN, Fail(q, kern, fault),
         kind' = kind, open' = open, lost' = lost
  PROVE  IInv'
<1>1. q \in Queue /\ kern \in Kernel /\ q.valid /\ lost' \in BOOLEAN
  BY DEF IInv, TypeOK, QueueInv
<1>2. ~broke' => ~lost'
  BY DEF Fail, IInv, LeakInv
<1> QED
  BY <1>1, <1>2, FailKeeps

(* A step from one place of the job to another, by which the device does   *)
(* not become idle or busy in the wrong place.                             *)
LEMMA RunKeeps ==
  ASSUME IInv, call.at \in Running, call' \in Call, call'.at \in Running,
         call'.job = call.job, kern' \in Kernel, kern'.set = kern.set, BufferInv',
         kind' = kind, open' = open, q' = q, lost' = lost, broke' = broke
  PROVE  IInv'
<1>1. TypeOK'
  BY DEF IInv, TypeOK, Running
<1>2. QueueInv' /\ SetInv' /\ LeakInv'
  BY DEF IInv, QueueInv, SetInv, LeakInv, Preparing, Running
<1> QED
  BY <1>1, <1>2 DEF IInv

(* The pixels of this job arrive where the device will look for them.      *)
LEMMA CopyInKeeps ==
  ASSUME IInv, CopyIn
  PROVE  IInv'
<1>1. /\ call.at = "copy" /\ TypeOK /\ kern \in Kernel /\ q' = q
      /\ kind' = kind /\ open' = open /\ lost' = lost
      /\ kern.queued \cap kern.done = {} /\ "cap" \notin kern.queued \cup kern.done
  BY DEF IInv, TypeOK, BufferInv, CopyIn
<1>2. CopyPointers = {"current"}
  BY <1>1 DEF IInv, QueueInv, CopyPointers, Running
<1>3. /\ call' \in Call /\ call'.at = "start" /\ call'.job = call.job /\ broke' = broke
  BY <1>1, GotoEffect DEF CopyIn, Steps
<1>4. /\ kern' \in Kernel /\ kern'.fresh /\ kern'.set = kern.set
      /\ kern'.queued = kern.queued /\ kern'.done = kern.done
  BY <1>1, <1>2 DEF CopyIn, Kernel
<1>5. BufferInv'
  BY <1>1, <1>3, <1>4 DEF BufferInv, Preparing
<1> QED
  BY <1>1, <1>3, <1>4, <1>5, RunKeeps DEF Running

LEMMA StartKeeps ==
  ASSUME IInv, Start
  PROVE  IInv'
<1> DEFINE s == (IF kind = "JPEG" THEN JpegStart ELSE VppStart)[call.next]
           taken == s.op = "qbuf" /\ s.side \in kern.queued \cup kern.done
<1>1. /\ call.at = "start" /\ TypeOK /\ kern \in Kernel /\ call \in Call
      /\ kind' = kind /\ open' = open /\ lost' = lost
      /\ kern.queued \cap kern.done = {} /\ kern.fresh
      /\ "cap" \in kern.done => kern.result = kern.set
  BY DEF IInv, TypeOK, BufferInv, Start
<1>2. call.next \in {1, 2, 3, 4}
  BY <1>1 DEF Call
<1>3. s.side \in Sides
  BY <1>2 DEF JpegStart, VppStart, QBuf, StreamOn, Sides
<1>4. CASE Fail(q, kern, ~taken)
  BY <1>1, <1>4, RunFails DEF Running
<1>5. CASE /\ ~taken
           /\ kern' = IF s.op = "qbuf" THEN [kern EXCEPT !.queued = @ \cup {s.side}]
                      ELSE [kern EXCEPT !.on = @ \cup {s.side}]
           /\ call' = IF call.next = 4 THEN [call EXCEPT !.at = "poll"]
                      ELSE [call EXCEPT !.next = @ + 1]
           /\ UNCHANGED <<q, broke>>
  <2>1. /\ call' \in Call /\ call'.at \in {"start", "poll"} /\ call'.job = call.job
    BY <1>1, <1>2, <1>5 DEF Call, Steps
  <2>2. /\ kern' \in Kernel /\ kern'.set = kern.set /\ kern'.done = kern.done
        /\ kern'.fresh /\ kern'.result = kern.result
        /\ kern'.queued \in {kern.queued, kern.queued \cup {s.side}}
        /\ kern'.queued \cap kern'.done = {}
    <3>1. CASE s.op = "qbuf"
      <4>1. s.side \notin kern.done /\ kern' = [kern EXCEPT !.queued = @ \cup {s.side}]
        BY <1>5, <3>1
      <4> QED
        BY <1>1, <1>3, <4>1 DEF Kernel
    <3>2. CASE s.op # "qbuf"
      <4>1. kern' = [kern EXCEPT !.on = @ \cup {s.side}]
        BY <1>5, <3>2
      <4> QED
        BY <1>1, <1>3, <4>1 DEF Kernel
    <3> QED
      BY <3>1, <3>2
  <2>3. BufferInv'
    BY <1>1, <2>1, <2>2 DEF BufferInv, Preparing
  <2> QED
    BY <1>1, <1>5, <2>1, <2>2, <2>3, RunKeeps DEF Running
<1> QED
  BY <1>4, <1>5 DEF Start

LEMMA PollKeeps ==
  ASSUME IInv, Poll
  PROVE  IInv'
<1>1. /\ call.at = "poll" /\ TypeOK /\ kern \in Kernel /\ call \in Call /\ BufferInv
      /\ kind' = kind /\ open' = open /\ lost' = lost
  BY DEF IInv, TypeOK, Poll
<1>2. ASSUME call' \in Call, call'.at \in {"poll", "dequeue"}, call'.job = call.job,
             q' = q, kern' = kern, broke' = broke
      PROVE  IInv'
  <2>1. BufferInv'
    BY <1>1, <1>2 DEF BufferInv, Preparing
  <2> QED
    BY <1>1, <1>2, <2>1, RunKeeps DEF Running
<1>3. CASE Goto("dequeue") /\ UNCHANGED <<q, kern>>
  <2>1. call' \in Call /\ call'.at = "dequeue" /\ call'.job = call.job /\ broke' = broke
    BY <1>1, <1>3, GotoEffect DEF Steps
  <2> QED
    BY <1>2, <1>3, <2>1
<1>4. CASE /\ PollWaits(call.waited)
           /\ call' = [call EXCEPT !.waited = @ + 1]
           /\ UNCHANGED <<q, kern, broke>>
  <2>1. call.waited + 1 \in 0 .. PollTicks
    BY <1>1, <1>4, M2MAssumption DEF PollWaits, Call
  <2>2. call' \in Call /\ call'.at = "poll" /\ call'.job = call.job
    BY <1>1, <1>4, <2>1 DEF Call
  <2> QED
    BY <1>2, <1>4, <2>2
<1>5. CASE Fail(q, kern, TRUE)
  BY <1>1, <1>5, RunFails DEF Running
<1> QED
  BY <1>3, <1>4, <1>5 DEF Poll

LEMMA InterruptedKeeps ==
  ASSUME IInv, Interrupted
  PROVE  IInv'
<1>1. /\ call.at = "poll" /\ TypeOK /\ kern \in Kernel /\ call \in Call /\ BufferInv
      /\ UNCHANGED <<kind, open, q, kern, lost, broke>>
  BY DEF IInv, TypeOK, Interrupted
<1>2. call.signals + 1 \in 0 .. MaxSignals /\ 0 \in 0 .. PollTicks
  BY <1>1, M2MAssumption DEF Interrupted, Call
<1>3. call' \in Call /\ call'.at = "poll" /\ call'.job = call.job
  BY <1>1, <1>2 DEF Interrupted, Call
<1>4. BufferInv'
  BY <1>1, <1>3 DEF BufferInv, Preparing
<1> QED
  BY <1>1, <1>3, <1>4, RunKeeps DEF Running

(* Only a CAPTURE buffer that is there is copied out.                      *)
LEMMA DequeueKeeps ==
  ASSUME IInv, Dequeue
  PROVE  IInv'
<1>1. /\ call.at = "dequeue" /\ TypeOK /\ kern \in Kernel
      /\ kind' = kind /\ open' = open /\ lost' = lost
      /\ kern.queued \cap kern.done = {} /\ kern.fresh
      /\ "cap" \in kern.done => kern.result = kern.set
  BY DEF IInv, TypeOK, BufferInv, Dequeue
<1>2. CASE Fail(q, kern, TRUE)
  BY <1>1, <1>2, RunFails DEF Running
<1>3. CASE /\ "cap" \in kern.done
           /\ kern' = [kern EXCEPT !.done = @ \ {"cap"}]
           /\ Goto("finish")
           /\ q' = q
  <2>1. call' \in Call /\ call'.at = "finish" /\ call'.job = call.job /\ broke' = broke
    BY <1>1, <1>3, GotoEffect DEF Steps
  <2>2. /\ kern' \in Kernel /\ kern'.set = kern.set /\ kern'.fresh
        /\ kern'.queued = kern.queued /\ kern'.done = kern.done \ {"cap"}
        /\ kern'.result = kern.result
    BY <1>1, <1>3 DEF Kernel
  <2>3. BufferInv'
    BY <1>1, <1>3, <2>1, <2>2 DEF BufferInv, Preparing
  <2> QED
    BY <1>1, <1>3, <2>1, <2>2, <2>3, RunKeeps DEF Running
<1> QED
  BY <1>2, <1>3 DEF Dequeue

(* A STREAMOFF that fails leaves OUTPUT with the device, never CAPTURE:    *)
(* that was dequeued.                                                      *)
LEMMA FinishKeeps ==
  ASSUME IInv, Finish
  PROVE  IInv'
<1>1. /\ call.at = "finish" /\ TypeOK /\ kern \in Kernel /\ q' = q
      /\ kind' = kind /\ open' = open /\ lost' = lost
      /\ kern.queued \cap kern.done = {} /\ "cap" \notin kern.queued \cup kern.done
      /\ ~broke => ~lost
  BY DEF IInv, TypeOK, BufferInv, LeakInv, Finish
<1>2. PICK S \in SUBSET Sides :
         kern' = StreamsStopped(kern, S) /\ call' = NoCall /\ broke' = (broke \/ S # Sides)
  BY DEF Finish
<1>3. /\ kern' \in Kernel /\ kern'.set = kern.set
      /\ kern'.queued = kern.queued \ S /\ kern'.done = kern.done \ S
  BY <1>1, <1>2 DEF StreamsStopped, StreamOff, Kernel
<1>4. call' \in Call /\ call'.at = "idle" /\ broke' \in BOOLEAN
  BY <1>1, <1>2, Types DEF TypeOK
<1>5. q.valid
  BY <1>1 DEF IInv, QueueInv, Running
<1>6. TypeOK'
  BY <1>1, <1>3, <1>4 DEF TypeOK
<1>7. QueueInv' /\ SetInv'
  BY <1>1, <1>3, <1>4 DEF IInv, QueueInv, SetInv, Preparing, Running
<1>8. BufferInv' /\ LeakInv'
  BY <1>1, <1>2, <1>3, <1>4, <1>5 DEF BufferInv, LeakInv
<1> QED
  BY <1>6, <1>7, <1>8 DEF IInv

(* The device finishes at any time; CAPTURE is only with it while the      *)
(* pixels of this job are.                                                 *)
LEMMA CompleteKeeps ==
  ASSUME IInv, Complete
  PROVE  IInv'
<1>1. /\ TypeOK /\ BufferInv /\ kern \in Kernel
      /\ UNCHANGED <<kind, open, q, call, lost, broke>>
  BY DEF IInv, TypeOK, Complete
<1>2. PICK S \in SUBSET kern.queued :
         kern' = [kern EXCEPT !.queued = @ \ S, !.done = @ \cup S,
                    !.result = IF "cap" \in S
                               THEN (IF kern.fresh THEN kern.set ELSE NoSetup) ELSE @]
  BY DEF Complete
<1>3. /\ kern' \in Kernel /\ kern'.set = kern.set /\ kern'.fresh = kern.fresh
      /\ kern'.queued = kern.queued \ S /\ kern'.done = kern.done \cup S
      /\ "cap" \notin S => kern'.result = kern.result
      /\ "cap" \in S /\ kern.fresh => kern'.result = kern.set
      /\ kern'.planes = kern.planes
  BY <1>1, <1>2 DEF Kernel
<1>4. "cap" \in S => call.at \in {"start", "poll", "dequeue"}
  BY <1>1 DEF TypeOK, Call, Steps, BufferInv, Preparing
<1>5. TypeOK'
  BY <1>1, <1>3 DEF TypeOK
<1>6. QueueInv' /\ SetInv' /\ LeakInv'
  BY <1>1, <1>3 DEF IInv, QueueInv, SetInv, LeakInv
<1>7. BufferInv'
  BY <1>1, <1>3, <1>4 DEF BufferInv
<1> QED
  BY <1>5, <1>6, <1>7 DEF IInv

-----------------------------------------------------------------------------
(* What a job finds.                                                       *)

(* The start sequence queues CAPTURE here and OUTPUT next.                 *)
FirstQbuf == IF kind = "JPEG" THEN 1 ELSE 3

(* Until a set-up breaks off or a STREAMOFF fails, a job finds neither     *)
(* buffers of other formats nor a buffer that the device still has.        *)
HealInv ==
  ~broke =>
    /\ FailsOnlyByFault
    /\ ~q.valid /\ call.at \in {"idle", "format"} => kern.has = {}
    /\ call.at \in {"idle", "copy"} \cup Preparing => kern.queued \cup kern.done = {}
    /\ call.at = "start" =>
         /\ call.next <= FirstQbuf => kern.queued \cup kern.done = {}
         /\ call.next = FirstQbuf + 1 => "out" \notin kern.queued \cup kern.done

LEMMA TeardownFrees ==
  ASSUME NEW z \in Queue, NEW k \in Kernel, z.valid
  PROVE  Teardown(z, k).k.has = {}
BY DEF Teardown, StreamOff, Kernel

(* A failure of the job's own: nothing is left for the next one.           *)
LEMMA HealFail ==
  ASSUME NEW z \in Queue, NEW k \in Kernel, NEW fault, Fail(z, k, fault),
         ~broke' => /\ fault
                    /\ ~z.valid => k.has = {} /\ k.queued \cup k.done = {}
  PROVE  HealInv'
<1>1. /\ ~q'.valid
      /\ ~broke' => kern'.has = {} /\ kern'.queued \cup kern'.done = {}
  BY TeardownEffect, TeardownFrees DEF Fail
<1>2. call'.at = "idle" /\ call'.fault = fault
  BY DEF Fail, NoCall
<1> QED
  BY <1>1, <1>2 DEF HealInv, FailsOnlyByFault

(* A failure of a job whose queues were set up.                            *)
LEMMA HealRunFails ==
  ASSUME IInv, call.at \in Running, Fail(q, kern, TRUE)
  PROVE  HealInv'
<1>1. q \in Queue /\ kern \in Kernel /\ q.valid
  BY DEF IInv, TypeOK, QueueInv
<1> QED
  BY <1>1, HealFail

(* A set-up that breaks off after REQBUFS.                                 *)
LEMMA HealBreaks ==
  ASSUME broke'
  PROVE  HealInv'
BY DEF HealInv

LEMMA HealContexts ==
  ASSUME CreateContext \/ DestroyContext
  PROVE  HealInv'
<1>1. q' = EmptyQueue /\ kern' = OpenedDevice /\ call' = NoCall
  BY DEF CreateContext, DestroyContext
<1>2. kern'.has = {} /\ kern'.queued \cup kern'.done = {}
  BY <1>1 DEF OpenedDevice
<1>3. call'.at = "idle" /\ call'.ret = "success"
  BY <1>1 DEF NoCall
<1> QED
  BY <1>2, <1>3 DEF HealInv, FailsOnlyByFault

LEMMA HealEnter ==
  ASSUME IInv, HealInv, NEW job \in Setups, Enter(job)
  PROVE  HealInv'
<1>1. q \in Queue /\ kern \in Kernel /\ call.at = "idle" /\ broke' = broke
  BY DEF IInv, TypeOK, Enter
<1>2. CASE SameSetup(job)
  <2>1. call'.at = "copy" /\ q' = q /\ kern' = [kern EXCEPT !.fresh = FALSE]
    BY <1>2 DEF Enter, NoCall
  <2>2. kern'.queued = kern.queued /\ kern'.done = kern.done
    BY <1>1, <2>1 DEF Kernel
  <2> QED
    BY <1>1, <2>1, <2>2 DEF HealInv, FailsOnlyByFault
<1>3. CASE ~SameSetup(job)
  <2>1. /\ call'.at = "format" /\ q' = Teardown(q, kern).q
        /\ kern' = [Teardown(q, kern).k EXCEPT !.fresh = FALSE]
    BY <1>3 DEF Enter, NoCall
  <2>2. /\ kern'.has = Teardown(q, kern).k.has
        /\ kern'.queued = Teardown(q, kern).k.queued
        /\ kern'.done = Teardown(q, kern).k.done
    BY <1>1, <2>1, TeardownEffect DEF Kernel
  <2>3. ~broke => kern'.has = {} /\ kern'.queued \cup kern'.done = {}
    BY <1>1, <2>2, TeardownEffect, TeardownFrees DEF HealInv
  <2> QED
    BY <1>1, <2>1, <2>3 DEF HealInv, FailsOnlyByFault
<1> QED
  BY <1>2, <1>3

LEMMA HealSetFormat ==
  ASSUME IInv, HealInv, SetFormat
  PROVE  HealInv'
<1> DEFINE job == call.job
           formatted == [kern EXCEPT !.set.out = job.out]
           both == [formatted EXCEPT !.set.cap = job.cap]
<1>1. /\ call.at = "format" /\ q \in Queue /\ kern \in Kernel /\ ~q.valid /\ job \in Setups
      /\ ~broke => kern.has = {} /\ kern.queued \cup kern.done = {}
  BY DEF IInv, TypeOK, QueueInv, SetFormat, Preparing, HealInv
<1>2. /\ formatted \in Kernel /\ formatted.queued = kern.queued /\ formatted.done = kern.done
      /\ formatted.has = kern.has
  BY <1>1 DEF Kernel, Setups
<1>3. ASSUME NEW k \in {kern, formatted}, NEW fmt, NEW side, Fail(q, k, ~Busy(side, fmt))
      PROVE  HealInv'
  <2>1. /\ k \in Kernel
        /\ ~broke => k.has = {} /\ k.queued \cup k.done = {}
    BY <1>1, <1>2
  <2>2. ~broke' => ~broke
    BY <1>3 DEF Fail
  <2>3. ~broke => ~Busy(side, fmt)
    BY <1>1 DEF Busy
  <2> QED
    BY <1>1, <1>3, <2>1, <2>2, <2>3, HealFail
<1>4. ASSUME NEW p, NEW c, kern' = [both EXCEPT !.set.ctrl = c, !.planes = p],
             Goto("buffers")
      PROVE  HealInv'
  <2>1. kern'.queued = kern.queued /\ kern'.done = kern.done
    BY <1>1, <1>2, <1>4 DEF Kernel
  <2>2. call'.at = "buffers" /\ broke' = broke
    BY <1>1, <1>4 DEF IInv, TypeOK, Call, Goto
  <2> QED
    BY <1>1, <2>1, <2>2 DEF HealInv, FailsOnlyByFault
<1> QED
  <2>1. CASE \/ Fail(q, kern, ~Busy("out", job.out))
             \/ Fail(q, formatted, ~Busy("cap", job.cap))
    BY <2>1, <1>3
  <2>2. CASE \E p \in IF kind = "VPP" THEN {1}
                      ELSE {3} \cup (IF "nv12m" \in Events THEN {1} ELSE {}) :
               \E c \in {job.ctrl} \cup (IF "s_ctrl" \in Events THEN {kern.set.ctrl} ELSE {}) :
                 kern' = [both EXCEPT !.set.ctrl = c, !.planes = p] /\ Goto("buffers")
    BY <2>2, <1>4
  <2> QED
    BY <2>1, <2>2 DEF SetFormat

(* REQBUFS and the mappings: a step goes on, with no buffer with the       *)
(* device, or it breaks off.                                               *)
LEMMA HealMappings ==
  ASSUME IInv, HealInv, RequestBuffers \/ MapOutput \/ MapCapture
  PROVE  HealInv'
<1>1. /\ call.at \in {"buffers", "map_out", "map_cap"} /\ kern \in Kernel /\ call \in Call
      /\ ~broke => kern.queued \cup kern.done = {}
  BY DEF IInv, TypeOK, HealInv, RequestBuffers, MapOutput, MapCapture, Preparing
<1>2. ASSUME NEW z, NEW k, NEW fault, Fail(z, k, fault)
      PROVE  HealInv'
  BY <1>1, <1>2, HealBreaks DEF Fail
<1>3. ASSUME NEW step \in {"map_out", "map_cap", "copy"}, Goto(step),
             kern' = kern \/ kern' = [kern EXCEPT !.has = Sides]
      PROVE  HealInv'
  <2>1. kern'.queued = kern.queued /\ kern'.done = kern.done
    BY <1>1, <1>3 DEF Kernel
  <2>2. call'.at = step /\ broke' = broke
    BY <1>1, <1>3 DEF Call, Goto
  <2> QED
    BY <1>1, <2>1, <2>2 DEF HealInv, FailsOnlyByFault
<1>4. CASE RequestBuffers
  BY <1>2, <1>3, <1>4 DEF RequestBuffers
<1>5. CASE MapOutput
  BY <1>2, <1>3, <1>5 DEF MapOutput
<1>6. CASE MapCapture
  BY <1>2, <1>3, <1>6 DEF MapCapture
<1> QED
  BY <1>4, <1>5, <1>6

LEMMA HealCopyIn ==
  ASSUME IInv, HealInv, CopyIn
  PROVE  HealInv'
<1>1. /\ call.at = "copy" /\ kern \in Kernel /\ call \in Call
      /\ ~broke => kern.queued \cup kern.done = {}
  BY DEF IInv, TypeOK, HealInv, CopyIn
<1>2. kern'.queued = kern.queued /\ kern'.done = kern.done
  BY <1>1 DEF CopyIn, Kernel
<1>3. call'.at = "start" /\ broke' = broke
  BY <1>1 DEF CopyIn, Goto, Call
<1> QED
  BY <1>1, <1>2, <1>3 DEF HealInv, FailsOnlyByFault, Preparing

(* A buffer is queued that the device does not have: CAPTURE first, then   *)
(* OUTPUT.                                                                 *)
LEMMA HealStart ==
  ASSUME IInv, HealInv, Start
  PROVE  HealInv'
<1> DEFINE s == (IF kind = "JPEG" THEN JpegStart ELSE VppStart)[call.next]
           taken == s.op = "qbuf" /\ s.side \in kern.queued \cup kern.done
<1>1. /\ call.at = "start" /\ kern \in Kernel /\ call \in Call /\ kind' = kind
      /\ kind \in {"JPEG", "VPP"} /\ call.next \in {1, 2, 3, 4} /\ FirstQbuf \in {1, 3}
      /\ FirstQbuf' = FirstQbuf
      /\ ~broke => /\ call.next <= FirstQbuf => kern.queued \cup kern.done = {}
                   /\ call.next = FirstQbuf + 1 => "out" \notin kern.queued \cup kern.done
  BY DEF IInv, TypeOK, HealInv, Start, Call, FirstQbuf
<1>2. /\ s.op = "qbuf" <=> call.next \in {FirstQbuf, FirstQbuf + 1}
      /\ call.next = FirstQbuf => s.side = "cap"
      /\ call.next = FirstQbuf + 1 => s.side = "out"
  BY <1>1 DEF JpegStart, VppStart, QBuf, StreamOn, FirstQbuf
<1>3. ~broke => ~taken
  BY <1>1, <1>2
<1>4. CASE Fail(q, kern, ~taken)
  <2>1. CASE broke
    BY <1>4, <2>1, HealBreaks DEF Fail
  <2>2. CASE ~broke
    <3>1. Fail(q, kern, TRUE)
      BY <1>3, <1>4, <2>2
    <3> QED
      BY <1>1, <3>1, HealRunFails DEF Running
  <2> QED
    BY <2>1, <2>2
<1>5. CASE /\ kern' = IF s.op = "qbuf" THEN [kern EXCEPT !.queued = @ \cup {s.side}]
                      ELSE [kern EXCEPT !.on = @ \cup {s.side}]
           /\ call' = IF call.next = 4 THEN [call EXCEPT !.at = "poll"]
                      ELSE [call EXCEPT !.next = @ + 1]
           /\ UNCHANGED <<q, broke>>
  <2>1. kern'.done = kern.done
    BY <1>1, <1>5 DEF Kernel
  <2>2. /\ s.op # "qbuf" => kern'.queued = kern.queued
        /\ s.op = "qbuf" => kern'.queued = kern.queued \cup {s.side}
    BY <1>1, <1>5 DEF Kernel
  <2>3. /\ call.next = 4 => call'.at = "poll"
        /\ call.next # 4 => call'.at = "start" /\ call'.next = call.next + 1
    BY <1>1, <1>5 DEF Call
  <2> HIDE DEF s
  <2>4. CASE call.next = 4
    BY <1>5, <2>3, <2>4 DEF HealInv, FailsOnlyByFault, Preparing
  <2>5. CASE call.next # 4 /\ call.next < FirstQbuf
    BY <1>1, <1>2, <1>5, <2>1, <2>2, <2>3, <2>5 DEF HealInv, FailsOnlyByFault, Preparing
  <2>6. CASE call.next # 4 /\ call.next = FirstQbuf
    <3>1. ~broke => kern'.queued = {"cap"} /\ kern'.done = {}
      BY <1>1, <1>2, <2>1, <2>2, <2>6
    <3> QED
      BY <1>1, <1>5, <2>3, <2>6, <3>1 DEF HealInv, FailsOnlyByFault, Preparing
  <2>7. CASE call.next # 4 /\ call.next > FirstQbuf
    BY <1>1, <1>5, <2>3, <2>7 DEF HealInv, FailsOnlyByFault, Preparing
  <2> QED
    BY <1>1, <2>4, <2>5, <2>6, <2>7
<1> QED
  BY <1>4, <1>5 DEF Start

LEMMA HealEnd ==
  ASSUME IInv, HealInv, Poll \/ Dequeue \/ Finish
  PROVE  HealInv'
<1>1. /\ call.at \in {"poll", "dequeue", "finish"} /\ kern \in Kernel /\ call \in Call
      /\ call.at \in Running
  BY DEF IInv, TypeOK, Poll, Dequeue, Finish, Running
<1>2. ASSUME call'.at \in {"poll", "dequeue", "finish"}
      PROVE  HealInv'
  BY <1>2 DEF HealInv, FailsOnlyByFault, Preparing
<1>3. CASE Poll
  <2>1. CASE Fail(q, kern, TRUE)
    BY <1>1, <2>1, HealRunFails
  <2>2. CASE ~Fail(q, kern, TRUE)
    <3>1. call'.at \in {"poll", "dequeue"}
      BY <1>1, <1>3, <2>2 DEF Poll, Goto, Call
    <3> QED
      BY <1>2, <3>1
  <2> QED
    BY <2>1, <2>2
<1>4. CASE Dequeue
  <2>1. CASE Fail(q, kern, TRUE)
    BY <1>1, <2>1, HealRunFails
  <2>2. CASE Goto("finish")
    BY <1>1, <1>2, <2>2 DEF Goto, Call
  <2> QED
    BY <1>4, <2>1, <2>2 DEF Dequeue
<1>5. CASE Finish
  <2>1. PICK S \in SUBSET Sides :
           kern' = StreamsStopped(kern, S) /\ call' = NoCall /\ broke' = (broke \/ S # Sides)
    BY <1>5 DEF Finish
  <2>2. call'.at = "idle" /\ call'.ret = "success" /\ q' = q
    BY <1>5, <2>1 DEF NoCall, Finish
  <2>3. S = Sides => kern'.queued \cup kern'.done = {}
    BY <1>1, <2>1 DEF StreamsStopped, StreamOff, Kernel
  <2>4. q.valid
    BY <1>1 DEF IInv, QueueInv
  <2> QED
    BY <2>1, <2>2, <2>3, <2>4 DEF HealInv, FailsOnlyByFault
<1> QED
  BY <1>3, <1>4, <1>5

(* The device only works on what was queued.                               *)
LEMMA HealDevice ==
  ASSUME IInv, HealInv, Complete \/ Interrupted
  PROVE  HealInv'
<1>1. CASE Complete
  <2>1. PICK S \in SUBSET kern.queued :
           kern' = [kern EXCEPT !.queued = @ \ S, !.done = @ \cup S,
                      !.result = IF "cap" \in S
                                 THEN (IF kern.fresh THEN kern.set ELSE NoSetup) ELSE @]
    BY <1>1 DEF Complete
  <2>2. /\ kern'.queued \cup kern'.done = kern.queued \cup kern.done
        /\ kern'.has = kern.has
    BY <2>1 DEF IInv, TypeOK, Kernel
  <2>3. UNCHANGED <<kind, q, call, broke>>
    BY <1>1 DEF Complete
  <2> QED
    BY <2>2, <2>3 DEF HealInv, FailsOnlyByFault, FirstQbuf
<1>2. CASE Interrupted
  <2>1. call'.at = "poll"
    BY <1>2 DEF IInv, TypeOK, Interrupted, Call
  <2> QED
    BY <2>1 DEF HealInv, FailsOnlyByFault, Preparing
<1> QED
  BY <1>1, <1>2

-----------------------------------------------------------------------------
(* The theorems.                                                           *)

LEMMA StutterKeeps ==
  ASSUME IInv, UNCHANGED vars
  PROVE  IInv'
BY DEF IInv, TypeOK, QueueInv, SetInv, BufferInv, LeakInv, vars

LEMMA StepKeeps ==
  ASSUME IInv, [Next]_vars
  PROVE  IInv'
<1>1. CASE UNCHANGED vars
  BY <1>1, StutterKeeps
<1>2. CASE CreateContext
  BY <1>2, CreateContextKeeps
<1>3. CASE DestroyContext
  BY <1>3, DestroyContextKeeps
<1>4. CASE \E job \in Setups : JpegEncode(job) \/ VppRun(job)
  BY <1>4, EnterKeeps DEF JpegEncode, VppRun
<1>5. CASE DriverStep
  BY <1>5, SetFormatKeeps, RequestBuffersKeeps, MapOutputKeeps, MapCaptureKeeps,
     CopyInKeeps, StartKeeps, PollKeeps, DequeueKeeps, FinishKeeps DEF DriverStep
<1>6. CASE Complete
  BY <1>6, CompleteKeeps
<1>7. CASE Interrupted
  BY <1>7, InterruptedKeeps
<1> QED
  BY <1>1, <1>2, <1>3, <1>4, <1>5, <1>6, <1>7 DEF Next

(* What the queue, the device and the job say of each other holds at every *)
(* step, whatever fails.                                                   *)
THEOREM QueuesConsistent == Spec => []IInv
<1>1. Init => IInv
  BY InitKeeps
<1>2. IInv /\ [Next]_vars => IInv'
  BY StepKeeps
<1> QED
  BY <1>1, <1>2, PTL DEF Spec

(* Pixels are only copied through mappings of the buffers the queue has    *)
(* now, also when the set-up was skipped and however earlier ones failed   *)
(* (v4l2sl_jpeg_encode, v4l2sl_vpp_run).                                   *)
THEOREM LiveMaps == Spec => []CopiesThroughLiveMaps
<1>1. IInv => CopiesThroughLiveMaps
  BY DEF IInv, QueueInv, CopiesThroughLiveMaps, CopyPointers, Running
<1> QED
  BY <1>1, QueuesConsistent, PTL

(* As long as S_CTRL, whose result nobody looks at, does not fail, the     *)
(* frame a job copies out was made from its own pixels with its own        *)
(* formats and control.                                                    *)
THEOREM ResultsAsAsked ==
  ASSUME "s_ctrl" \notin Events
  PROVE  Spec => []ResultAsAsked
<1>1. IInv => ResultAsAsked
  BY DEF IInv, SetInv, BufferInv, ResultAsAsked, Running
<1> QED
  BY <1>1, QueuesConsistent, PTL

(* A set-up that was completed is always released: only one that broke off *)
(* leaks its mappings.                                                     *)
THEOREM OnlyBrokenSetupsLeak == Spec => []CompleteSetupsReleased
<1>1. IInv => CompleteSetupsReleased
  BY DEF IInv, LeakInv, CompleteSetupsReleased
<1> QED
  BY <1>1, QueuesConsistent, PTL

(* "A setup change or any steady-state failure triggers a full teardown    *)
(* and renegotiation on the next picture" (struct v4l2sl_m2m_state), and   *)
(* that is enough: as long as no set-up breaks off half-way and no         *)
(* STREAMOFF fails, every failed job failed by its own fault, whatever the *)
(* jobs before it did.                                                     *)
THEOREM SteadyFailuresRecover == Spec => []SteadyFailureRecovers
<1>1. Init => HealInv
  <2> SUFFICES ASSUME Init PROVE HealInv
    OBVIOUS
  <2>1. kern.has = {} /\ kern.queued \cup kern.done = {}
    BY DEF Init, OpenedDevice
  <2>2. call.at = "idle" /\ call.ret = "success"
    BY DEF Init, NoCall
  <2> QED
    BY <2>1, <2>2 DEF HealInv, FailsOnlyByFault
<1>2. IInv /\ HealInv /\ [Next]_vars => HealInv'
  <2> SUFFICES ASSUME IInv, HealInv, [Next]_vars PROVE HealInv'
    OBVIOUS
  <2>1. CASE UNCHANGED vars
    BY <2>1 DEF HealInv, FailsOnlyByFault, FirstQbuf, vars
  <2>2. CASE \E job \in Setups : JpegEncode(job) \/ VppRun(job)
    BY <2>2, HealEnter DEF JpegEncode, VppRun
  <2>3. CASE DriverStep
    BY <2>3, HealSetFormat, HealMappings, HealCopyIn, HealStart, HealEnd DEF DriverStep
  <2> QED
    BY <2>1, <2>2, <2>3, HealContexts, HealDevice DEF Next
<1>3. HealInv => SteadyFailureRecovers
  BY DEF HealInv, SteadyFailureRecovers
<1> QED
  BY <1>1, <1>2, <1>3, QueuesConsistent, PTL DEF Spec

=============================================================================
