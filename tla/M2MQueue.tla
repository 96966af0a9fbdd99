------------------------------ MODULE M2MQueue ------------------------------
(***************************************************************************)
(* The persistent queues of the JPEG encoder and of the VPP: one context,  *)
(* its device fd, the struct v4l2sl_m2m_state that remembers the last      *)
(* set-up, and one job at a time.  A job whose key is the remembered one   *)
(* skips the set-up; any failure tears the queues down, but m2m_teardown   *)
(* looks at "valid" first, which only a complete set-up has set.           *)
(*                                                                         *)
(* The lock is held for a whole job.  It is split into steps all the same, *)
(* because the device and the clock move during it.                        *)
(***************************************************************************)
EXTENDS Integers

CONSTANTS
  Kinds,       \* the kinds of context: "JPEG", "VPP" or both
  Formats,     \* frame size and pixel format of one side of a job
  Controls,    \* quality, or rotation and flips
  Events,      \* what the kernel may refuse in this instance
  PollTicks,   \* the 2 s of poll(), in steps of the clock
  MaxSignals,  \* bound: signals that interrupt one poll
  NoSetup

AllEvents ==
  { "nv12m",     \* the driver knows NV12 in one plane only
    "s_fmt", "reqbufs", "querybuf", "mmap", "qbuf", "streamon", "dqbuf",
    "streamoff", \* STREAMOFF after a finished job fails; nobody looks
    "s_ctrl",    \* S_CTRL fails; nobody looks
    "out_first"} \* the OUTPUT buffer is done before the CAPTURE buffer

ASSUME M2MAssumption ==
  /\ Kinds \subseteq {"JPEG", "VPP"} /\ Kinds # {}
  /\ Events \subseteq AllEvents
  /\ Formats # {} /\ Controls # {}
  /\ PollTicks \in Nat /\ MaxSignals \in Nat

VARIABLES
  kind,   \* what the context was created for
  open,   \* the context exists
  q,      \* struct v4l2sl_m2m_state
  kern,   \* the device behind the fd
  call,   \* the job in progress; when idle, how the last one ended
  lost,   \* some mapping is alive that no pointer leads to
  broke   \* history: a set-up has failed after REQBUFS, or a STREAMOFF has

vars == <<kind, open, q, kern, call, lost, broke>>

Sides == {"out", "cap"}
Setups == [out: Formats, cap: Formats, ctrl: Controls]

(***************************************************************************)
(* A pointer is null, failed (MAP_FAILED), a mapping of the buffers that   *)
(* the queue has now, or a mapping of buffers it no longer has.            *)
(***************************************************************************)
Pointer == {"null", "failed", "current", "stale"}
Mapped(p) == p \in {"current", "stale"}

Queue == [valid: BOOLEAN, key: Setups \cup {NoSetup}, planes: {0, 1, 3},
          out0: Pointer, out1: Pointer, cap: Pointer]

EmptyQueue == [valid |-> FALSE, key |-> NoSetup, planes |-> 0,
               out0 |-> "null", out1 |-> "null", cap |-> "null"]

(***************************************************************************)
(* kern.fresh is not in the code: the OUTPUT buffer holds the pixels of    *)
(* this job.  kern.result: what the CAPTURE buffer was made from.          *)
(***************************************************************************)
Kernel == [has: SUBSET Sides, set: Setups, planes: {1, 3},
           on: SUBSET Sides, queued: SUBSET Sides, done: SUBSET Sides,
           fresh: BOOLEAN, result: Setups \cup {NoSetup}]

AnySetup == CHOOSE s \in Setups : TRUE

OpenedDevice == [has |-> {}, set |-> AnySetup, planes |-> 1, on |-> {},
                 queued |-> {}, done |-> {}, fresh |-> FALSE, result |-> NoSetup]

Steps == {"idle", "format", "buffers", "map_out", "map_cap", "copy",
          "start", "poll", "dequeue", "finish"}

Call == [at: Steps, job: Setups \cup {NoSetup}, next: 1 .. 4,
         waited: 0 .. PollTicks, signals: 0 .. MaxSignals,
         fault: BOOLEAN, ret: {"success", "error"}]

NoCall == [at |-> "idle", job |-> NoSetup, next |-> 1, waited |-> 0,
           signals |-> 0, fault |-> FALSE, ret |-> "success"]

Init ==
  /\ kind \in Kinds
  /\ open = FALSE
  /\ q = EmptyQueue
  /\ kern = OpenedDevice
  /\ call = NoCall
  /\ lost = FALSE
  /\ broke = FALSE

-----------------------------------------------------------------------------
(* STREAMOFF: the queue gives its buffers back.                            *)
StreamOff(k, S) == [k EXCEPT !.on = @ \ S, !.queued = @ \ S, !.done = @ \ S]

(* Mutants: teardown leaves the queue marked valid; it forgets the chroma  *)
(* plane.                                                                  *)
TeardownStaysValid(z, k) ==
  [q |-> [EmptyQueue EXCEPT !.valid = z.valid, !.key = z.key, !.planes = z.planes],
   k |-> [StreamOff(k, Sides) EXCEPT !.has = {}]]

TeardownKeepsChroma(z, k) ==
  IF ~z.valid THEN [q |-> z, k |-> k]
  ELSE [q |-> [EmptyQueue EXCEPT !.out1 = z.out1],
        k |-> [StreamOff(k, Sides) EXCEPT !.has = {}]]

(* v4l2sl_m2m_teardown: nothing at all unless the set-up was complete; else*)
(* stop, free the buffers, unmap and forget everything.                    *)
Teardown(z, k) ==
  IF ~z.valid THEN [q |-> z, k |-> k]
  ELSE [q |-> EmptyQueue, k |-> [StreamOff(k, Sides) EXCEPT !.has = {}]]

CreateContext ==
  /\ ~open
  /\ open' = TRUE
  /\ q' = EmptyQueue
  /\ kern' = OpenedDevice
  /\ call' = NoCall
  /\ UNCHANGED <<kind, lost, broke>>

(* v4l2sl_release_context_device: tear down, close.  A mapping survives    *)
(* the fd it was made from.                                                *)
DestroyContext ==
  /\ open /\ call.at = "idle"
  /\ LET t == Teardown(q, kern).q
     IN  lost' = (lost \/ Mapped(t.out0) \/ Mapped(t.out1) \/ Mapped(t.cap))
  /\ open' = FALSE
  /\ q' = EmptyQueue
  /\ kern' = OpenedDevice
  /\ call' = NoCall
  /\ UNCHANGED <<kind, broke>>

-----------------------------------------------------------------------------
(* Every failure ends in "fail:", that is in a teardown.                   *)
Fail(z, k, fault) ==
  /\ broke' = (broke \/ call.at \in {"buffers", "map_out", "map_cap"})
  /\ q' = Teardown(z, k).q
  /\ kern' = Teardown(z, k).k
  /\ call' = [NoCall EXCEPT !.ret = "error", !.fault = fault]

Goto(step) == call' = [call EXCEPT !.at = step] /\ broke' = broke

(* Mutant: the key does not cover the control.                             *)
SetupKeySizes(job) == <<job.out, job.cap>>

(* What is compared with the remembered key: all of the set-up.            *)
SetupKey(job) == <<job.out, job.cap, job.ctrl>>

SameSetup(job) == q.valid /\ SetupKey(q.key) = SetupKey(job)

(* Start a job: keep the queues, or tear them down and negotiate.          *)
Enter(job) ==
  /\ open /\ call.at = "idle"
  /\ IF SameSetup(job)
     THEN q' = q /\ kern' = [kern EXCEPT !.fresh = FALSE]
     ELSE /\ q' = Teardown(q, kern).q
          /\ kern' = [Teardown(q, kern).k EXCEPT !.fresh = FALSE]
  /\ call' = [NoCall EXCEPT !.at = IF SameSetup(job) THEN "copy" ELSE "format",
                            !.job = job]
  /\ UNCHANGED <<kind, open, lost, broke>>

(* Both sides of a JPEG job have the picture's size.                       *)
JpegEncode(job) == kind = "JPEG" /\ job.out = job.cap /\ Enter(job)

VppRun(job) == kind = "VPP" /\ Enter(job)

(* A driver refuses another format while the queue has buffers.            *)
Busy(side, fmt) == side \in kern.has /\ kern.set[side] # fmt

(* S_FMT on both sides, then the control, whose result is not looked at.   *)
(* JPEG asks for NV12M and falls back to NV12; the VPP has one plane.      *)
SetFormat ==
  /\ call.at = "format"
  /\ LET job == call.job
         formatted == [kern EXCEPT !.set.out = job.out]
         both == [formatted EXCEPT !.set.cap = job.cap]
     IN
     \/ /\ "s_fmt" \in Events \/ Busy("out", job.out)
        /\ Fail(q, kern, ~Busy("out", job.out))
     \/ /\ ~Busy("out", job.out)
        /\ "s_fmt" \in Events \/ Busy("cap", job.cap)
        /\ Fail(q, formatted, ~Busy("cap", job.cap))
     \/ /\ ~Busy("out", job.out) /\ ~Busy("cap", job.cap)
        /\ \E p \in IF kind = "VPP" THEN {1}
                    ELSE {3} \cup (IF "nv12m" \in Events THEN {1} ELSE {}) :
           \E c \in {job.ctrl} \cup (IF "s_ctrl" \in Events THEN {kern.set.ctrl} ELSE {}) :
             kern' = [both EXCEPT !.set.ctrl = c, !.planes = p]
        /\ Goto("buffers")
        /\ q' = q
  /\ UNCHANGED <<kind, open, lost>>

Aged(p) == IF p = "current" THEN "stale" ELSE p

(* REQBUFS on OUTPUT, then on CAPTURE.  Buffers that a failed set-up left  *)
(* behind are replaced.                                                    *)
RequestBuffers ==
  /\ call.at = "buffers"
  /\ LET z == [q EXCEPT !.out0 = Aged(@), !.out1 = Aged(@)]
     IN
     \/ "reqbufs" \in Events /\ Fail(q, kern, TRUE)
     \/ "reqbufs" \in Events /\ Fail(z, [kern EXCEPT !.has = @ \cup {"out"}], TRUE)
     \/ /\ q' = [z EXCEPT !.cap = Aged(@)]
        /\ kern' = [kern EXCEPT !.has = Sides]
        /\ Goto("map_out")
  /\ UNCHANGED <<kind, open, lost>>

MmapResults == {"current"} \cup (IF "mmap" \in Events THEN {"failed"} ELSE {})

(* QUERYBUF and mmap of the OUTPUT planes; the pointers are overwritten.   *)
(* JPEG tests for MAP_FAILED here, the VPP after the CAPTURE side.         *)
MapOutput ==
  /\ call.at = "map_out"
  /\ \/ "querybuf" \in Events /\ Fail(q, kern, TRUE) /\ lost' = lost
     \/ \E p0 \in MmapResults, p1 \in IF kern.planes >= 2 THEN MmapResults ELSE {q.out1} :
          /\ LET z == [q EXCEPT !.planes = kern.planes, !.out0 = p0, !.out1 = p1]
             IN  IF kind = "JPEG" /\ "failed" \in {p0} \cup (IF z.planes >= 2 THEN {p1} ELSE {})
                 THEN Fail(z, kern, TRUE)
                 ELSE q' = z /\ kern' = kern /\ Goto("map_cap")
          /\ lost' = (lost \/ Mapped(q.out0) \/ (kern.planes >= 2 /\ Mapped(q.out1)))
  /\ UNCHANGED <<kind, open>>

(* The same for CAPTURE; only now is the set-up valid.                     *)
MapCapture ==
  /\ call.at = "map_cap"
  /\ \/ "querybuf" \in Events /\ Fail(q, kern, TRUE) /\ lost' = lost
     \/ \E p \in MmapResults :
          /\ IF p = "failed" \/ q.out0 = "failed"
             THEN Fail([q EXCEPT !.cap = p], kern, TRUE)
             ELSE /\ q' = [q EXCEPT !.cap = p, !.key = call.job, !.valid = TRUE]
                  /\ kern' = kern
                  /\ Goto("copy")
          /\ lost' = (lost \/ Mapped(q.cap))
  /\ UNCHANGED <<kind, open>>

(* The pixels go through out_map[0], chroma through out_map[1] when there  *)
(* is a second plane.                                                      *)
CopyPointers == {q.out0} \cup IF q.planes >= 2 THEN {q.out1} ELSE {}

CopyIn ==
  /\ call.at = "copy"
  /\ kern' = [kern EXCEPT !.fresh = (CopyPointers = {"current"})]
  /\ Goto("start")
  /\ UNCHANGED <<kind, open, q, lost>>

QBuf(side) == [op |-> "qbuf", side |-> side]
StreamOn(side) == [op |-> "streamon", side |-> side]

JpegStart == <<QBuf("cap"), QBuf("out"), StreamOn("out"), StreamOn("cap")>>
VppStart == <<StreamOn("out"), StreamOn("cap"), QBuf("cap"), QBuf("out")>>

(* One ioctl of the start sequence.  A buffer that was not given back      *)
(* cannot be queued.                                                       *)
Start ==
  /\ call.at = "start"
  /\ LET s == (IF kind = "JPEG" THEN JpegStart ELSE VppStart)[call.next]
         taken == s.op = "qbuf" /\ s.side \in kern.queued \cup kern.done
     IN
     \/ /\ s.op \in Events \/ taken
        /\ Fail(q, kern, ~taken)
     \/ /\ ~taken
        /\ kern' = IF s.op = "qbuf" THEN [kern EXCEPT !.queued = @ \cup {s.side}]
                   ELSE [kern EXCEPT !.on = @ \cup {s.side}]
        /\ call' = IF call.next = 4 THEN [call EXCEPT !.at = "poll"]
                   ELSE [call EXCEPT !.next = @ + 1]
        /\ UNCHANGED <<q, broke>>
  /\ UNCHANGED <<kind, open, lost>>

(* The device: it works once both queues stream and have a buffer.         *)
Complete ==
  /\ kern.on = Sides
  /\ \E S \in {Sides} \cup IF "out_first" \in Events THEN {{"out"}, {"cap"}} ELSE {} :
       /\ S \subseteq kern.queued
       /\ "cap" \in S => "out" \in S \cup kern.done
       /\ "out" \in S => "cap" \in kern.queued
       /\ kern' = [kern EXCEPT !.queued = @ \ S, !.done = @ \cup S,
                     !.result = IF "cap" \in S
                                THEN (IF kern.fresh THEN kern.set ELSE NoSetup) ELSE @]
  /\ UNCHANGED <<kind, open, q, call, lost, broke>>

PollRetries(waited) == FALSE  \* mutant: a timeout is retried like a signal

PollTimedOut(waited) == waited = PollTicks
PollWaits(waited) == waited < PollTicks

(* poll() for POLLIN or POLLOUT: either queue ends it; so does the clock.  *)
Poll ==
  /\ call.at = "poll"
  /\ \/ kern.done # {} /\ Goto("dequeue") /\ UNCHANGED <<q, kern>>
     \/ /\ kern.done = {} /\ PollWaits(call.waited)
        /\ call' = [call EXCEPT !.waited = @ + 1]
        /\ UNCHANGED <<q, kern, broke>>
     \/ kern.done = {} /\ PollTimedOut(call.waited) /\ Fail(q, kern, TRUE)
  /\ UNCHANGED <<kind, open, lost>>

(* v4l2sl_poll_intr: a signal starts the whole timeout again.              *)
Interrupted ==
  /\ call.at = "poll" /\ call.signals < MaxSignals
  /\ call' = [call EXCEPT !.waited = 0, !.signals = @ + 1]
  /\ UNCHANGED <<kind, open, q, kern, lost, broke>>

(* DQBUF of CAPTURE; the fd does not block, so that a frame that is not    *)
(* there yet is an error.                                                  *)
Dequeue ==
  /\ call.at = "dequeue"
  /\ \/ /\ "dqbuf" \in Events \/ "cap" \notin kern.done
        /\ Fail(q, kern, TRUE)
     \/ /\ "cap" \in kern.done
        /\ kern' = [kern EXCEPT !.done = @ \ {"cap"}]
        /\ Goto("finish")
        /\ q' = q
  /\ UNCHANGED <<kind, open, lost>>

(* Mutant: the queues are left streaming.                                  *)
StreamsKept(k, S) == k

(* The copy out, and STREAMOFF on both queues, whose result is ignored.    *)
StreamsStopped(k, S) == StreamOff(k, S)

Finish ==
  /\ call.at = "finish"
  /\ \E S \in {Sides} \cup IF "streamoff" \in Events THEN SUBSET Sides ELSE {} :
       /\ kern' = StreamsStopped(kern, S)
       /\ call' = NoCall
       /\ broke' = (broke \/ S # Sides)
  /\ UNCHANGED <<kind, open, q, lost>>

DriverStep ==
  \/ SetFormat \/ RequestBuffers \/ MapOutput \/ MapCapture \/ CopyIn
  \/ Start \/ Poll \/ Dequeue \/ Finish

Next ==
  \/ CreateContext \/ DestroyContext
  \/ \E job \in Setups : JpegEncode(job) \/ VppRun(job)
  \/ DriverStep \/ Complete \/ Interrupted

(***************************************************************************)
(* The thread that runs the job goes on while it can; client, device and   *)
(* signals promise nothing.                                                *)
(***************************************************************************)
Spec == Init /\ [][Next]_vars /\ WF_vars(DriverStep)

-----------------------------------------------------------------------------
(* What must hold.                                                         *)

(* Every record has its shape.                                             *)
TypeOK ==
  /\ kind \in {"JPEG", "VPP"} /\ open \in BOOLEAN /\ lost \in BOOLEAN
  /\ broke \in BOOLEAN
  /\ q \in Queue /\ kern \in Kernel /\ call \in Call
  /\ call.at # "idle" => call.job \in Setups

(* A job that is copied out was made by the device from this job's pixels, *)
(* with this job's formats and control: the key that lets a job skip the   *)
(* set-up covers all of it, and no leftover of an earlier job is taken.    *)
ResultAsAsked ==
  call.at = "finish" => kern.result = call.job

(* Pixels are only copied through mappings of the buffers the queue has    *)
(* now (v4l2sl_jpeg_encode, v4l2sl_vpp_run after a skipped set-up), and    *)
(* every record keeps its shape meanwhile.                                 *)
CopiesThroughLiveMaps ==
  /\ TypeOK
  /\ call.at \in {"copy", "finish"} => CopyPointers \cup {q.cap} = {"current"}

(* "On failure m2m_teardown; the next frame negotiates again"              *)
(* (docs/modules/jpeg.md): what an earlier job left behind never makes a   *)
(* job fail.                                                               *)
FailsOnlyByFault ==
  call.at = "idle" /\ call.ret = "error" => call.fault

(* "A setup change or any steady-state failure triggers a full teardown    *)
(* and renegotiation on the next picture" (struct v4l2sl_m2m_state): until *)
(* a set-up breaks off half-way, a job fails only by its own faults, be it *)
(* the first one, the same again or one with other formats.                *)
SteadyFailureRecovers == ~broke => FailsOnlyByFault

(* "Persistent M2M queues hold V4L2 MMAP mappings - release them while the *)
(* device fd is still open" (v4l2sl_release_context_device).               *)
MappingsReleased == ~lost

(* ... which holds for the queues of every set-up that was completed: only *)
(* one that broke off leaks.                                               *)
CompleteSetupsReleased == lost => broke

(* Every job returns, whatever the device does, as long as the poll is not *)
(* interrupted for ever (v4l2sl_poll_intr restarts its timeout).           *)
EveryJobReturns == call.at # "idle" ~> call.at = "idle"

=============================================================================
