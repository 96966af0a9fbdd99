# A TLA+ model of vaapi-v4l2-bridge

`vaapi-v4l2-bridge` is a libva backend: it turns VA-API calls into requests to
the stateless V4L2 decoders (and to two stateful M2M devices) of an RK3588.
The hard part of it is less the translation of parameters than the book-keeping
around it: which V4L2 buffer belongs to whom, which of a surface's memories
holds the newest picture, what the driver still knows of a device it has set up,
and what is left of all this when an ioctl fails half-way or a client thread
destroys something in the middle of a picture. This directory models that
book-keeping, and the parts of the translation that are algorithms. Paths such as `device.c` below stand
for `src/src/v4l2stateless_device.c`, and `driver.c` for `src/src/v4l2stateless.c`.

## 1. The system

| Part | State | Operations | What makes it correct |
|---|---|---|---|
| Slot pools (`device.c`, `.h`) | per context: `free_cap_bufs`, `free_out_bufs`, `capture_bufs_allocd`, `streamed`; per surface: `buf_index` | push, pop, `decode_submit`, `decode_reset`, `ensure_capture`, `rebuild_free_pools`, claim at export | a slot is in exactly one place |
| Decode pipeline (`driver.c`, the codec files) | `current_surface`, `request_fd`, surface `status` | `vaBeginPicture`, `vaRenderPicture`, `vaEndPicture`, `vaSyncSurface` | one request in flight, every exit restores the pools |
| AV1 reference model (`av1.c`) | `slot_buf`, `buf_owner`, `model_active` | `av1_release_unrefd`, `dpb_model_reset` | no reference of the kernel is reused |
| Pixel backings (`driver.c`, `device.c`, `gbm.c`) | `cpu_ptr`, memfd and its mapping, bo, `cap_view`, `last_writer`, borrows | pull, put, get, derive, export, VPP, JPEG | readers see the newest picture; images stay mapped |
| Parameter buffers (`driver.c`) | buffer lists of the contexts, orphans, `pending_buffers` | create, render, end, destroy, terminate | a translator gets what was rendered; nothing leaks |
| Set-up of a decoder (`device.c`, the codec files) | `g_ctrls`, `cap_*`, `output_bufs_allocd`, `out_planes_len`, `streamed` against the device's own state | sequence control, `ensure_capture`, STREAMON, QBUF, REINIT | a picture is decoded under its own header into buffers that fit; failures heal |
| JPEG and VPP queues (`jpeg.c`, `vpp.c`) | `v4l2sl_m2m_state`, the device's two queues | encode, run, teardown | a skipped set-up is the right one; one failure does not cause the next |
| Device probing (`probe.c`) | the cache file, temporary files | scan, load, store | every process finds the devices of this boot |
| AV1 derivation (`av1.c`) | `ctx->av1` | frame-header parser, refresh inference, skip mode, tile grid | the flags are those of the bitstream; needed references stay |
| Other translation (`h264.c`, `hevc.c`, `format.c`, `driver.c`) | none | collection by type, Annex B, reference lists | the kernel gets the client's references and the whole bitstream |
| Format conversion (`format.c`, `driver.c`) | none | get, put, create image | every component arrives at its place |
| Configs, profiles, attribute queries | tables | look-ups | out of scope |

The parts meet in the surface: contexts, images and exports all name it, it
carries a bare slot index that does not say whose slot it is, and it may be
listed by, or be the target of, several contexts. Every stateful entry point
of decoding holds one global lock (`g_v4l2sl_lock`), `vaEndPicture` across its
3 s wait too. So there is no interleaving inside an entry point, and every
interleaving *between* them: threads may create, destroy, export and read
between one picture's `vaBeginPicture` and its `vaEndPicture`. The failures
are those of the kernel: a refused buffer, no completion in 3 s, a frame
flagged corrupt, an OUTPUT buffer that comes back late, a `REQBUFS` that
grants less or fails, a `mmap` that fails. Only the probe runs without the lock,
and its cache file is shared by processes. `PROJECT.json` lists the hazards
one by one, each at its line.

## 2. Modules

    DecodeSlots          slots, contexts, surfaces, one picture's way through
      DecodeSlotsProofs      types; SlotsExclusive in both modes; exported slots
        DecodeSlotsAccounting  no slot is lost; the refinement of SlotPool
      PoolRefinement         DecodeSlots implements SlotPool
        MCDecodeSlots          codecs of the runs
    SlotPool             the abstract pool: one claimant per slot
    Renegotiation        what one context remembers of its device
      MCRenegotiation
      RenegotiationProofs    no stale memory of the device; one refusal, one picture
    SurfaceBackings      where one surface's pixels are
      SurfaceBackingsProofs  last_writer, the mapping and its borrows, readers
      MCSurfaceBackings
    PictureBuffers       the buffers of a picture, from creation to reclamation
      MCPictureBuffers
      PictureBuffersProofs   what a translator gets; what vaTerminate frees
    M2MQueue             the queues of the JPEG encoder and the VPP
      MCM2MQueue
      M2MQueueProofs     its invariant and theorems
    ProbeCache           the device scan and its cache file
      MCProbeCache
      ProbeCacheProofs       devices are found; the cache spares probes
    Av1Header            the frame-header parser
      Av1Inference       skip mode, refresh inference, tile grid
    PictureInputs        collection, bitstream, reference lists
    PixelFormats         fourccs, image layouts, converters
      Translation        the last four, one input after the other
        MCTranslation
        TranslationProofs    images of every size; libaom's reference tables

In each module a definition marked "mutant" is a plausible bug in the code of
the definition it precedes. It is used by no specification; put in the place
of that definition it makes a property fail, which shows that the property
speaks about that code.

### DecodeSlots

`surf[s]` and `ctx[c]` are the C structures, reduced to what decides the fate
of a slot. A free list is a LIFO array that refuses duplicates; it is a set
here, and a pop takes any member, which covers the LIFO order.
Some fields are not in the code and observe it: `surf[s].from` (whose slot the
index is), `ctx[c].kdpb` (the reference table inside the kernel AV1 driver),
`ctx[c].pixels` (whose picture the memory of a slot shows) and `ctx[c].done`
(OUTPUT buffers the kernel has finished with and nobody has dequeued).

An entry point is one action (`CreateSurface`, `DestroySurfaces`,
`CreateContext`, `CreateContextFails`, `DestroyContext`, `BeginPicture`,
`SyncSurface`, `ExportSurface`), except `vaEndPicture`, whose exits are too
many: `EndPicture`, `Prepare` (collect, parse, sequence control,
`ensure_capture`), `Start` (STREAMON, controls, an OUTPUT slot), `Submit` (a
CAPTURE slot, both QBUFs), `Wait` (queue, poll, dequeue, reinit, or reset) and
`Attach` (`pull_capture` and the AV1 release). They are chained by `call` and
exclude all other actions, as the lock does.

An export claims a slot from the first context that lists the surface
(`OwningContexts`), whatever that context does; which one is first is left open,
and so is whether `VIDIOC_EXPBUF` finds such a buffer on the device of a JPEG or
VPP context (`ExpbufFd`).

The translators of the five codecs are one here; what differs between them is
kept: which queues exist at creation (`CaptureDeferred`), who streams on at
once (`StreamsAtCreate`), which of them tests `done_cap < 0` before
`done_cap == -2` (`CorruptFails`), and AV1's frame header and release. AV1 is
not advertised unless `V4L2SL_ADVERTISE_AV1` is set, but `vaCreateConfig`
accepts its profile all the same.

`Events` says which failures an instance contains. Assumptions about the
environment:

* a client does not decode onto a surface it still predicts from (VA-API);
* with `ListedOnly`, a client decodes onto, and exports, surfaces it listed in
  `render_targets`, and lists each for one decoder at most. libva does not
  enforce this; without it slots leak (section 5);
* a corrupt frame does not enter the kernel's reference table; `REQBUFS`
  grants the number asked for or a smaller one (`SmallCap`); an OUTPUT buffer
  bound to a request that was never queued cannot be dequeued;
* a request that cannot be queued, a timeout and a failed DQBUF of CAPTURE all
  end in `decode_reset` and are one event ("timeout"); the slot's memory is
  then undefined (`Spoiled`).

### SurfaceBackings

One NV12 surface with its four backings. What a backing shows is its age:
`cur`, `old`, `blank`, `absent`, or `garbled`: copied out of the memfd in
another geometry than it was written in. A geometry (`stride`, `aligned_h`,
`cap_fourcc`) is named by the bytes it takes, one of `1 .. MaxSize`, since the
mapping only tells growth apart; `geom` is the surface's, and `layout`, which is
not in the code, that of the picture in the memfd. `EnsureCapture` is
`v4l2sl_ensure_capture` of any context that lists the surface, whenever it sets
up a new queue: the surface loses its slot, and `BindCaptureExport` grows its
memfd and overwrites its geometry. Event `bind` allows it where the memfd does
not hold the newest picture in another geometry, event `relayout` everywhere
(section 5). Which sizes a queue may get is left open, as is whether images of a
CAPTURE slot lose it; two geometries of one size count as one. `mm` is the memfd
mapping: `memfd_map`, its size, `memfd_retired`, `memfd_borrows`, and the
regions that are mapped; addresses are numbers drawn from `Regions`, of which
there are enough for every pointer that can be alive. `read` remembers what
the last reader saw. Assumptions: a client destroys its derived images before
the surface, and not through `vaDestroyBuffer`; one picture at a time per
surface; a failed decode leaves the old pixels.

### PictureBuffers

`list[b]` is the list a buffer is on, or `Lost` when its list is gone.
`asked` and `givenUp` belong to the client: what it rendered since its
`vaBeginPicture`, and whether it dropped the picture after an error.
`EarlyDestroy` and `LateDestroy` are two client habits: destroying a buffer
between rendering it and ending the picture, and destroying a context before
its buffers. IDs come from counters and are used once.

### SlotPool and PoolRefinement

`SlotPool` is what the pools promise without queues, lists or tables: a slot of
a context is free, in flight, held by one surface, kept by the AV1 table, or
does not exist, and changes hands one step at a time (`Handover`) unless the
whole queue is rebuilt. `PoolRefinement` maps a state of `DecodeSlots` to it by
adding up what the free list, the slot in flight, each surface and the AV1
table say, each for itself. If two of them name one slot, the sum is no state
of `SlotPool`; if a slot goes from one surface to another without a decode, the
step is none of its steps. So `ImplementsPool` says more than
`SlotsExclusive`: also that no step moves a slot past the pool.

### Renegotiation

One context (`drv`), the device behind it (`krn`), and the picture under way.
Each field of `drv` is a memory of the device that lets the driver skip an
ioctl: `seq` is the last sequence control (`g_ctrls`, `g_ctrl_valid`), `cap` and
`capAlloc` the CAPTURE queue, `outAlloc`, `mapped` and `len` the OUTPUT queue,
`streamed` both. `krn` is what the device really has. `vaEndPicture` is one
action per ioctl that may be refused. `streak` counts pictures lost in a row
with nothing refused in between: 2 means that the driver is stuck. Sizes are 1
or 2 and depths 8 or 10, since only "larger" and "other fourcc" matter.
Assumptions about the kernel: rkvdec ties the CAPTURE fourcc to the H.264 or
HEVC SPS in force, and refuses an H.264 SPS that changes it while CAPTURE has
buffers; hantro's AV1 refuses a plane length that is not the buffer's.

### M2MQueue

One context, its `v4l2sl_m2m_state` (`q`), the device (`kern`) and the job in
progress (`call`). A job is split into the steps between which the device, the
clock or a signal may move; the lock only keeps a second job out. A pointer is
null, failed, a mapping of the buffers the queue has now, or a mapping of
buffers it no longer has; so a stale mapping is told from a live one.
`kern.result` is what the CAPTURE buffer was made from: the formats and control
in force when the device ran, or `NoSetup` if the pixels were an earlier job's.
The pixels themselves are left out.

### ProbeCache

Processes and their threads run `v4l2sl_scan_all_cached` without a lock. Files
are inodes: a name leads to one, an open stream keeps one, a rename moves a
name. A file is empty until it is closed, because its text fits the stream's
buffer. `Crash` kills a process anywhere, `Reboot` renumbers the nodes and may
or may not clear `/tmp`, `Appear` creates a node that was late. The boot's ID is
read before the cache is looked for and again before it is stored, and either
may fail.

### Av1Header, Av1Inference, PictureInputs, PixelFormats, Translation

Operators without state, except `ctx->av1`, which the inference carries from
picture to picture. `Av1Header` has both sides: the header as an encoder writes
it (external, from the AV1 specification) and the driver's reading of it, bit
by bit, because the question is whether a guess that is off by a bit can agree
by accident. `Av1Inference` names a picture by its display order and takes its
order hint modulo `2^OrderHintBits`, so that a wrap is a wrap. `PictureInputs`
keeps a slice's bytes as distinct values. `PixelFormats` counts memory in
components and describes a converter by its copies, from address to address;
how ten-bit samples are packed into bytes is left out. `Translation` gives each
operator one input after another, and runs the inference along whole streams
of an SVT-AV1 encoder (external) with any cut of the mini-GOPs.

## 3. Runs

The sizes below are the smallest at which what a run asks about can happen:
an empty pool (more surfaces than slots), a slot wanted by two surfaces, a
pool larger than the free list, a surface of one context met by another, two
images alive while a mapping moves. A third surface or slot repeats these
situations, and for most properties the theorems of section 4 remove the
bounds: all of them but `EveryJobReturns`, `InitReturns` and, of `translation`, all but `ImagesTrue` (section 4.7).

| Run | Instance | Checks |
|---|---|---|
| `two_decoders` | VP8 and H.264 contexts, 2 surfaces, 2 slots, GBM mode, 7 kinds of failure (0.7 M states) | `SlotsAccounted`, `ImplementsPool`, `RetargetedSlotReturned` |
| `decode_and_jpeg` | MPEG-2 and JPEG contexts, 2 surfaces, 2 slots, 12 kinds of failure, `REQBUFS(0)` included (0.5 M) | `SlotsExclusive`, `CurrentSurfaceAlive`, `NoForeignOverwrite` |
| `expbuf_h264` | H.264, 3 surfaces, 2 slots, EXPBUF mode (0.7 M) | `SlotsExclusive`, `OutputAccounted`, `ExportedSlotKept` |
| `av1_gbm` | AV1, 3 surfaces, 3 slots and one that cannot be mapped, 2 references, any refresh flags (0.3 M) | `TypeOK`, `SlotsMappable`, `KernelRefsNotFree`, `ImplementsPool` |
| `backings_gbm` | GBM mode, 3 images, 2 sizes, all clients, queues set up at any time, nothing fails (43 k) | `GetImageFresh`, `DisplayFresh`, `ImagesMapped`, `BorrowsCounted` |
| `backings_faults` | GBM mode, the same, and allocations, mappings and uploads may fail (0.2 M) | `LastWriterTruthful` |
| `backings_expbuf` | EXPBUF mode, decode only, surfaces listed by other contexts (177) | `TypeOK`, `DeriveFresh` |
| `picture_buffers` | 2 contexts, 3 buffers, 3 pending at most (0.2 M) | `TranslatesWhatWasRendered`, `AllReclaimed` |
| `m2m_queues` | JPEG or VPP, 2 formats a side, 2 controls, 10 kinds of failure, a poll of 2 ticks and 2 signals | `ResultAsAsked`, `CopiesThroughLiveMaps`, `SteadyFailureRecovers`, `CompleteSetupsReleased`, `EveryJobReturns` |
| `renegotiation` | H.264 and MPEG-2 that change size, HEVC that changes size and depth, AV1 that changes depth, 13 kinds of refusal | `SequenceInForce`, `CaptureFits`, `FailuresHeal` |
| `probe_cache` | 2 processes, 2 boots of 3 nodes, one late node, boot IDs one process cannot read, writes that fail (0.6 M) | `InitFindsDevices`, `LaterProcessesDoNotProbe`, `InitReturns` |
| `translation` | 10 sets of inputs and the streams of 4 KEY positions up to the wrap of the hints (31 k) | `HeaderFlagsTrue`, `SkipModeNearest`, `ReferencesKept`, `BitstreamWhole`, `ReferencesListed`, `ImagesTrue` |

The limits `MaxSliceParams` and `MaxSliceDatas` are 2 and 3 instead of 32 and
256, and the OUTPUT buffer has 16 bytes, so that one tile too many and one byte
too many happen. Order hints have 7 bits, as SVT-AV1 and libaom write them, and
the refresh field its 8. Half-way renegotiations need at most two pictures, and
the stale memory of a third would be one of those two.

A passing run leaves out the events under which its properties are known to
fail; section 5 names them. `backings_gbm` has two sizes, that is one growth of
the mapping, because the second growth unmaps an image. Deadlock is checked
everywhere except in `PictureBuffers`, whose system stops after `vaTerminate`.
Surfaces, images, contexts and buffers are symmetric where no definition tells
them apart and no liveness is checked.

### 3.1 Liveness and fairness

Two modules state weak fairness. In `M2MQueue` it is that of `DriverStep`: the
thread inside `v4l2sl_jpeg_encode` or `v4l2sl_vpp_run` goes on while it can, and
the clock of its `poll` runs. Neither the device, nor the client, nor the signals
promise anything; `EveryJobReturns` holds because the poll times out, and
because only `MaxSignals` signals interrupt it: `v4l2sl_poll_intr` starts its
timeout again, and with signals for ever a job would not return. In `ProbeCache`
it is that of each thread's scan and store: a thread inside `vaInitialize` runs.
Crashes, reboots and other processes are not fair. No step waits for another
process, which is why weak fairness is enough; a driver that waited for the
writer of the cache would hang on one that died (the mutant `MissedWaits`).

Recovery in `Renegotiation` is stated without fairness, by counting
(`FailuresHeal`): the driver loses at most one picture to what it remembers.
This is stronger than "eventually": one picture is what closing a request costs.

## 4. Proofs

TLAPS checks the following for every value of the constants that satisfies the
named assumptions of the modules (`ConstantAssumption`, `NamesAssumption`,
`BackingsAssumption`, `BuffersAssumption`, `M2MAssumption`,
`StreamsAssumption`, `LayoutAssumption`, `InodesAssumption`, `ProbeAssumption`):
for any number of surfaces, contexts, slots, references, images, buffers,
processes, boots, formats and controls, every assignment of codecs and every
set of failures that a theorem does not exclude. Each hypothesis is a constant
formula that the runs of the property satisfy (`DerivedImagesFresh` apart, the
GBM mode of a property that is run in EXPBUF mode); what it excludes is in
section 5, where TLC shows the property failing. `PROJECT.json` lists the theorems.

### 4.1 Slots

* `TypesCorrect` (`Spec => []TypeOK`). `TypeOK` is inductive. The work is in
  the helpers: each returns a context record (`ResetTypes`, `UnheldType`, ...),
  and each exit of `vaEndPicture` is typed once and cited by every step.
* `CurrentNeverDangles` (`Spec => []CurrentSurfaceAlive`), relative to
  `TypeOK`. Every action either leaves all `current_surface` and lifetimes as
  they are or only clears (`KeepsCurrent`); the two that do not are
  `BeginPicture`, which checks its surface, and `DestroySurfaces`, which
  detaches it from every context.
* `ExclusiveInGbmMode` (`GbmMode` gives `Spec => []SlotsExclusive`), where
  `GbmMode` is `~ExpbufWanted /\ ListedOnly`. `SlotsExclusive` is not
  inductive: each way back into a pool trusts something it does not say. A
  destroyed or re-targeted surface trusts that its index belongs to the
  context that lists it, `rebuild_free_pools` that every holder is a render
  target, `av1_release_unrefd` that the owner it recorded is the only holder.
  `SlotInv` adds these: holders are listed, in range and distinct; render
  targets of decoders are disjoint; the slot in flight is neither free nor
  held; a slot in the AV1 table is not free and, if held, held by its recorded
  owner. `IInv` is `TypeOK /\ CurrentSurfaceAlive /\ SlotInv`.
* `ExclusiveInExpbufMode` (`ExpbufMode` gives `Spec => []SlotsExclusive`).
  Here a surface keeps its slot over `vaBeginPicture` and is decoded into it
  again, so the slot in flight may have a holder, and `SlotInv` is false.
  `ReuseInv` states the pools against `FlightTable`, the surface table without
  the current surface while its picture is under way; what the pools then no
  longer say of that surface, `ReuseOK` does: it holds the slot in flight or
  none, and the picture is good. That the AV1 table does not name a slot that is
  written again needs the client, which decodes onto nothing the kernel
  predicts from, and so `KnownOK`: for the slots that surfaces hold, the
  driver's table is the kernel's, and the pictures are in them. `ExpbufMode`
  leaves out the events that push the slot in flight back (`qbuf_out`,
  `qbuf_cap`, `corrupt`, `pull`), a timeout if AV1 is granted more slots
  than are listed, and JPEG and VPP contexts, because one that lists a surface
  gives it a slot of its own device when it is exported: section 5 has the
  violation each of them causes. Resizes, other timeouts, refused parameters,
  failed STREAMONs, exports and `REQBUFS`, and AV1 with and without frame
  headers remain, over any number of decode contexts.
* `ExportedKept` (`ExportMode` gives `Spec => ExportedSlotKept`), an action
  property from the same invariant. That nothing puts a kept slot on the free
  list is `SlotsExclusive` after the step; the rest is `Keeps`, what each entry
  point may do to the slot of a surface. `ExportMode` is `ExpbufMode` without
  AV1.
* `OutputSlotsAccounted` and `KernelReferencesNotFree` (`GbmMode` with
  `OutMode`, or with `Av1Quiet`) come from one more invariant, `RInv`, about
  single records: what is listed exists; an OUTPUT slot is free, done, in the
  hand of the call or bound to its request; and while the reference model is
  active, the driver's table and the kernel's name the same slots, except for
  the frame under way. `OutMode` excludes a failed QBUF of CAPTURE, and a resize
  that meets a late OUTPUT buffer; `Av1Quiet` excludes, for AV1 only, what
  resets or bypasses the driver's model alone: a resize, a timeout, a failed
  pull, a frame without a header.
* `OutputSlotsAccountedExpbuf` (`ExpbufMode` with `OutMode`). `RInv` follows
  from `SlotInv` and cannot be used; `OutputsMet` keeps only what it says of
  OUTPUT slots, and takes from `ReuseInv` that the slot a surface brings along
  exists in its queue, so that its QBUF is not the one that fails. With a JPEG
  or VPP context among those that list the surface that is not so (section 5).
* `NoSlotLost` (`SteadyPools` gives `Spec => []SlotsAccounted`) is the converse
  of `SlotsExclusive`: every listed slot is somewhere. `SteadyPools` is `GbmMode`,
  `Av1Quiet`, decoders only, and no failing `REQBUFS(0)`; timeouts, resizes,
  corrupt frames, refused buffers and destroyed surfaces are all allowed to the
  other codecs. The invariant, `SInv`, adds to the two above that indices are
  below `NumCap` (`Mappable`), that the slot in flight shows the current
  surface's picture (`PixelsOK`) and that each context's slots are accounted for
  (`AccountsOK`).
* `PoolImplemented` (`SteadyPools` gives `Spec => ImplementsPool`): every
  step of `DecodeSlots` is a step of `SlotPool` or a stutter. A step changes
  what one context's pool amounts to (`OneContextSteps`), so that the
  refinement is proved pool by pool (`StepOfPool`); each exit of `vaEndPicture`
  is an `Exchange` of slots that stay accounted for, or a `Rebuild`.
* `HeldPicturesStay` (`GbmMode` gives `Spec => NoForeignOverwrite`) and
  `RetargetedSlotsReturn` (and decoders only: `RetargetedSlotReturned`) are
  action properties that follow from the same invariants.
* `SlotsStayMappable` (`GbmMode` and `Av1Quiet` give `Spec => []SlotsMappable`)
  follows from `RInv`, `SlotInv` and `Mappable`, whatever the two numbers are
  (40 and 24 in the source).

### 4.2 Pixels

* `TypesKept` (`Spec => []TypeOK` of `SurfaceBackings`, both modes, all events).
  What could fail is the mapping: `FreshExists` counts the addresses that images
  and mappings point at, so a mapping that has to grow always finds another;
  `MapMemfdTo` says what each outcome of `v4l2sl_surface_map_memfd` leaves.
* `WriterTruthfulInGbmMode` (`~ExpbufWanted` and `LayoutKept` give
  `Spec => []LastWriterTruthful`). The invariant adds that no frame stays in
  its CAPTURE slot, so that `MEMFD` means the memfd, that a surface that
  does not exist has no writer, and `LayoutOK`: the newest picture, if it is in
  the memfd, is there in the surface's geometry. `LayoutKept` (no event
  `relayout`) is what the code does not promise (section 5): no queue with
  another geometry is set up while the memfd has the newest picture. It is a
  hypothesis here and for the three theorems about readers in GBM mode; types,
  borrows, mappings and `DerivedViewsFresh` do without it.
* `BorrowsStayCounted` (GBM mode, image records can be allocated) and
  `ImagesStayMapped` (GBM mode, `OneGrowth`: at most two sizes and no failing
  `mmap`). `CountOK` relates the images to the mapping: an image ends a borrow
  exactly if it is on the memfd, the borrows are the images on it (at least, if
  an allocation leaked one), nothing is retired without borrows, and each image
  on the memfd is on the current or on the retired mapping, both of which are
  mapped. That last part holds because a retired mapping is followed by one of
  the largest size, which is not outgrown.
* `DisplayStaysFresh` (GBM mode, `MapsWork`: no bo map and no growth fails),
  `GetImageStaysFresh` (also: the surface got its memfd) and
  `DerivedImagesFresh` (also: nobody but the decoder writes), all three with
  `LayoutKept`. `SourceOK` says
  that the bo follows every writer and that a decoded picture has a geometry,
  so that the refill of the memfd is never skipped when it is due
  (`RefillFresh`). A step that is not a read leaves what was read as new as it
  was, or forgets it (`StepsUnread`).
* `DerivedViewsFresh` is `DeriveFresh` in EXPBUF mode, for surfaces only
  decoded to and slots nobody takes away: the newest picture is in the slot.

### 4.3 Pictures and their buffers

* `PicturesTranslated` (`~EarlyDestroy` gives
  `Spec => []TranslatesWhatWasRendered`) and `BuffersReclaimed` (`~LateDestroy`
  gives `Spec => []AllReclaimed`). `IInv` says which lists exist and that what
  is on one is alive and of its context; `PicturesWhole`, that a picture that
  was not given up has on its context's list what the client rendered, and
  nothing of an earlier one.

### 4.4 JPEG, VPP and the set-up of decoders

* `LiveMaps`, `ResultsAsAsked` and `OnlyBrokenSetupsLeak` (`Spec` gives
  `[]CopiesThroughLiveMaps`, `[]CompleteSetupsReleased` and, if S_CTRL does not
  fail, `[]ResultAsAsked`). None is inductive: a job that skips the set-up
  trusts what `valid` stands for, and the teardown that returns at once trusts
  that there is nothing to release. `IInv` of `M2MQueueProofs` says that a
  valid queue has live mappings and, on the device, the set-up its key names
  (`QueueInv`, `SetInv`); that the CAPTURE buffer is with the device only while
  a job runs, whose pixels are then in the OUTPUT buffer (`BufferInv`); and
  that until a set-up breaks off a queue that is not valid maps nothing except
  the OUTPUT side of the set-up about to map CAPTURE (`LeakInv`). Every failure
  takes the same exit, proved once (`FailKeeps`).
* `SteadyFailuresRecover` (`Spec => []SteadyFailureRecovers`, every event).
  `HealInv`: as long as no set-up has broken off, a job has only failed for
  something refused to it, and between jobs the device has no buffers of a queue
  that is not valid and holds none that the driver would queue again.
* `SequencesInForce` (`Spec => []SequenceInForce`, every refusal): the driver
  never remembers a sequence the device does not have, and a picture that is
  queued has had its own set or tolerated. `PicturesFit` (`[]CaptureFits`,
  unless the geometry read back after S_FMT fails): the driver's and the
  device's CAPTURE formats agree, and past `ensure_capture` they hold the
  picture (`FitInv`). `RefusalsHeal` (`[]FailuresHeal`, for `Supported`
  streams: OUTPUT buffers were set up, no H.264 stream changes its depth and no
  AV1 stream its size): a picture is lost in a row only to a request that was
  not recycled, which its loss closes (`StreakInv`), while the OUTPUT queue
  stays allocated and the memoised lengths are those of its buffers
  (`DeviceInv`).

### 4.5 Probing

* `DevicesFound` (`Spec => []InitFindsDevices`), with any number of processes
  and threads, any writes, crashes, reboots and late nodes: what a scan keeps is
  what the nodes of this boot answer, and a complete file that carries this
  boot's ID names its devices, unless one was missed by every scan (`FilesOK`,
  `ThreadOK`).
* `CacheSparesProbes` (`OwnNames`, that no two threads share a temporary file,
  gives `Spec => []LaterProcessesDoNotProbe`). `CacheInv`: once a store has
  succeeded the path leads to a whole file of this boot, whatever other stores
  are in progress, since their temporary files are other inodes and a rename
  puts only a closed one there; a thread that started later has such a file
  open or will.

### 4.6 Images and reference tables

* `EveryImageTrue` (`ImageInputs` gives `Spec => []ImagesTrue`): for pictures,
  pitches, strides and rows of every size. `ImageInputs` says of the inputs
  what the run's are: a format with a conversion, an even width, an even height
  where chroma rows are halved, an image whose rows hold the picture's, a
  surface of no fewer rows, and a config whose RT bits are those of the stream.
  A converter and the expected result are sets of copies, and are shown equal
  as sets (`CopiesPlanes`, `CopiesPacked`: a pair of pixels is four components,
  and every component is in one pair); that nothing is written behind the image
  is a bound on the last row (`RowsEnd`).
* `TablesSpared` (`TableInputs` gives `Spec => []EvictsExpendable`, one of the
  two parts of `ReferencesKept`): for tables of any length and contents, and
  order hints of 1 to 8 bits, if the pictures lie in one period of the hints and
  less than half of it from the current one. Within a period the hints order
  the pictures (`HintInPeriod`) and the relative distance is the difference
  (`DistanceIsDifference`); beyond it the code is wrong (section 5).

Neither needs an invariant but `JobGiven`: what is translated is an input.

### 4.7 Only model-checked

`EveryJobReturns` and `InitReturns` are liveness,
which with ENABLED is beyond the prover. So is induction over data, and with it
`HeaderFlagsTrue`, `SkipModeNearest`, `BitstreamWhole` and `ReferencesListed`,
whose operators are folds over sequences of bits, references, buffers and
slices, and the pyramid half of `ReferencesKept`, an induction over the layers
of a mini-GOP. The modules use no recursive operators.

## 5. Disagreements between code and documents

TLC finds the following. They are not kept as runs, which ask whether the code
does what it should where it can; each is reproduced by the named property with
the constants given (for `DecodeSlots` one context, two surfaces and two slots,
for `SurfaceBackings` two images, and `ListedOnly` or `ExpbufWanted` as stated;
for the others the run's constants with the change given).

| Property, constants | What happens | Said otherwise by |
|---|---|---|
| `CorruptFrameSucceeds`; H.264 or HEVC, event `corrupt` | `done_cap < 0` is tested before `done_cap == -2`: the branch that marks a corrupt frame is dead and the entry point fails (`h264.c:504`, `hevc.c:389`) | `h264.c:507` "mark and succeed" |
| `SlotsExclusive`; H.264, EXPBUF, event `corrupt` | the slot of a corrupt frame is recycled although the target surface holds it (`device.c:518`) | `h264.c:469` "the free pools in the context never lie" |
| `SlotsExclusive`; EXPBUF, event `qbuf_out`, `qbuf_cap` or `pull` | a picture that fails recycles the slot its surface brought along and still holds (`device.c:464`, `:472`, and `h264.c:522` with its like in the other codecs) | `.h:363` "both pools fully restored" |
| `SlotsExclusive`; AV1, EXPBUF, events `obu`, `timeout`, `NumCapAV1 > NumCap` | the rebuild after a timeout lists slots beyond `NumCap` (`device.c:407`); one that is claimed at export and decoded into cannot be mapped and is recycled while the surface holds it (`av1.c:1305`) | `device.c:693` |
| `SlotsExclusive`, `OutputAccounted`; EXPBUF, a JPEG or VPP context beside a decoder | an exported surface that the JPEG or VPP context lists gets a slot of that context's device, whose codec nobody asks for (`driver.c:2111`, `device.c:1370`); the decoder takes the index for one of its own (`device.c:449`), which may be free, held by another surface, or not exist, so that the QBUF of CAPTURE fails | `driver.c:2107` "decode into that same slot" |
| `ExportedSlotKept`; EXPBUF, a JPEG context beside a decoder | a context that lists a decoder's surface clears its slot when it is destroyed or its creation fails (`device.c:379`) | `docs/handbook/invariants.md:15` |
| `ExportedSlotKept`; AV1, EXPBUF | the copy-out release takes the slot of an exported surface (`av1.c:986`) | `docs/handbook/invariants.md:15` |
| `CorruptFrameMarked`; AV1, VP8 or MPEG-2, event `corrupt` | `vaEndPicture` overwrites the translator's `Skipped` with `Rendering` (`driver.c:1519`) | `av1.c:1292` "mark and succeed" |
| `OutputAccounted`; event `qbuf_cap` | the OUTPUT buffer of a request that was never queued is not recovered (`device.c:471`) | `.h:363` "both pools fully restored" |
| `OutputAccounted`; events `resize`, `late_out` | STREAMOFF returns an OUTPUT buffer that no list takes back (`device.c:577`) | `docs/modules/device.md:32` |
| `SlotsAccounted`; AV1, events `timeout`, `obu` | a slot held over a reset is left to a model that has forgotten it (`driver.c:819`) | `driver.c:821` "the slot update pushes the buffer" |
| `SlotsAccounted`; `ListedOnly = FALSE` | destroying a surface that was never listed leaks its slot (`driver.c:817`) | `driver.c:805` "must not drain the 24-slot pool" |
| `SlotsAccounted`; events `resize`, `reqbufs_zero` | a failed `REQBUFS(0)` comes after the holders have lost their slots and before the free list is rebuilt (`device.c:592`) | `driver.c:805` "must not drain the 24-slot pool" |
| `SlotsAccounted`, `KernelRefsNotFree`; AV1, events `resize`, `obu` | the reference model is reset after the header of the first frame of the new size has set it active, so that frame is released outside the model (`device.c:581`, `av1.c:910`) | `av1.c:907` "the slot model may own buffer release" |
| `SlotsAccounted`; AV1, events `obu`, `no_obu` | the slot of a frame without a header is nobody's once a later header makes the model active (`av1.c:910`) | `driver.c:805` |
| `SlotsAccounted`; AV1 beside another decoder, 3 surfaces, events `obu`, `pull` | the recorded owner of a slot is an ID; its surface, decoded to by another context, may hold that context's slot of the same index and loses it (`av1.c:1024`) | `driver.c:805` |
| `KernelRefsNotFree`; AV1, events `obu`, `pull` | a frame that could not be copied out returns to the pool although the kernel's table has it and the model is active (`av1.c:1305`) | `docs/handbook/invariants.md:13` |
| `KernelRefsNotFree`; AV1, event `no_obu` | without a header the model is not active, and a slot goes back with its surface while the kernel predicts from it (`driver.c:828`) | `driver.c:821` |
| `ImplementsPool`, `SlotsMappable`; AV1, events `obu`, `timeout`, `NumCapAV1 > NumCap` | the rebuild after a timeout lists slots that the pool never had (`device.c:407`) | `device.c:693` |
| `RetargetedSlotReturned`; a JPEG or VPP context | the slot of a decoded surface is dropped (`driver.c:1331`) | `driver.c:1326` "return it to the free pool" |
| `GetImageFresh`, `DisplayFresh`, `DeriveFresh`, `LastWriterTruthful`; GBM, events `bind`, `relayout` (and `teardown`) | a new CAPTURE queue overwrites `stride`, `aligned_h` and `cap_fourcc` of every surface its context lists (`device.c:1140`), while the memfd keeps the last picture in the old layout: `vaGetImage`, `vaDeriveImage` and the upload into a new bo read it with the wrong stride and chroma offset | `.h:77` "negotiated capture geometry, set at decode" |
| `DeriveFresh`; GBM, event `put` | `cpu_ptr` is preferred by `buf_index` (`driver.c:1672`) | `docs/pipeline/pixels.md:45` |
| `VppFresh`; GBM, events `put`, `vpp` | the decode snapshot is preferred to a later upload (`vpp.c:215`) | `.h:44` "single source of truth" |
| `JpegFresh`; GBM, event `jpeg` | the memfd is read without a refill (`jpeg.c:50`) | `docs/ARCHITECTURE.md:305` |
| `GetImageFresh`; GBM, events `put`, `memfd` | a surface that got no memfd is read from `cpu_ptr`, however old (`driver.c:1954`) | `.h:44` "single source of truth" |
| `GetImageFresh`; GBM, event `bo_map` or `mmap` | nobody looks at the result of the refill (`driver.c:1936`) | `docs/ARCHITECTURE.md:305` |
| `DisplayFresh`; GBM, event `bo_map` | nobody looks at the result of the upload (`driver.c:2043`) | `.h:44` "single source of truth" |
| `GetImageFresh`; EXPBUF, event `release` | no snapshot was taken (`device.c:1061`) | `docs/ARCHITECTURE.md:299` |
| `DisplayFresh`; EXPBUF, event `expbuf` | the fallback shows a bo nobody wrote (`device.c:1061`) | `docs/pipeline/pixels.md:5` |
| `BorrowsCounted`; EXPBUF, event `release` | a borrow is returned that was never taken (`driver.c:1724`) | `docs/modules/front.md:37` |
| `BorrowsCounted`; GBM, event `calloc` | the borrow is counted before the image exists and is not given back (`driver.c:1702`) | `docs/modules/front.md:37` |
| `ImagesMapped`; GBM, `MaxSize = 3` | there is room for one retired mapping; the second growth unmaps the first under its images (`device.c:1013`) | `docs/pipeline/pixels.md:69` |
| `MapAlive`; GBM, event `mmap` | after a failed `mmap` the current mapping is also the retired one (`device.c:1023`) | `device.c:998` |
| `AllReclaimed`; `LateDestroy = TRUE` | `vaDestroyContext` drops its buffer list (`driver.c:1090`) | `docs/modules/front.md:40` |
| `FailsOnlyByFault`; `m2m_queues` | buffers of a set-up that broke off are never freed, and the next S_FMT is refused (`device.c:293`) | `docs/modules/jpeg.md:13` |
| `MappingsReleased`; `Events = {"querybuf"}` | the mappings of such a set-up are lost (`device.c:293`) | `device.c:317` "release them while the device fd is still open" |
| `ResultAsAsked`; event `s_ctrl` | a refused quality or rotation is remembered as set (`jpeg.c:185`) | `docs/modules/jpeg.md:13` |
| `FailuresHeal`; `Streams <- Av1Grows` | the memoised plane length outlives the buffers (`device.c:877`) | `device.c:875`, `src/README.md:118` |
| `FailuresHeal`; `Streams <- H264Deepens` | an SPS refused for its CAPTURE buffers is remembered as set (`h264.c:396`) | `src/README.md:118` |
| `FailuresHeal`; fault `out_setup` | the OUTPUT queue is never set up again (`device.c:651`) | `device.c:605` "the next QBUF will still carry the right bytesused" |
| `BitstreamWritten`; faults `out_mmap`, `out_zero` | a picture is submitted from an unmapped OUTPUT buffer (`device.c:605`) | `driver.c:1003` "fall back to per-frame mmap" |
| `CaptureFits`; fault `geometry` | the old geometry is kept for new buffers (`device.c:700`) | - |
| `LaterProcessesDoNotProbe`; `Pid <- OnePid` | two threads share a temporary file, and an empty one is put in place (`probe.c:419`) | `probe.c:249` |
| `PyramidKept`; `LastOrder = 200`, odd KEY orders, or mini-GOPs that grow | hints are compared as numbers, so the inference loses the pyramid after a wrap (`av1.c:396`) | `docs/modules/av1.md:34` |
| `HeaderFlagsTrue`; `IntraOnly` frames | their `refresh_frame_flags` are taken to be 0xff and their `error_resilient_mode` to be 1 (`av1.c:619`) | `docs/modules/av1.md:25` |
| `GridConsistent`; widths that are no multiple of `sb` | starts and widths disagree (`av1.c:704`) | `src/README.md:19` |
| `TilesLand`; tiles in several data buffers | only the largest buffer is read (`av1.c:1055`) | `docs/modules/av1.md` |
| `NalsSurvive`; more slices than `MaxSliceDatas` | the rest is dropped (`driver.c:745`) | - |
| `ImagesTrue`; odd widths and heights | the last chroma column or row is left out (`format.c:126`) | `docs/refactor-audit-2026-09-03.md:87` |

Met while reading, outside what the modules express: the VPP takes its source's
chroma from `height * stride` instead of the aligned height (`vpp.c:235`,
against `docs/pipeline/expbuf.md:5`); `vaGetImage` of an uploaded surface
answers with NV12 whatever format the image has (`driver.c:1931`); a put or get of
part of an image takes the image's chroma offset from the part's height; of the
40 CAPTURE buffers AV1 is granted because 24 starve Chrome (`.h:112`), 24 are
listed (`device.c:693`); JPEG and VPP do not look at `V4L2_BUF_FLAG_ERROR`; decoders are chosen without
"skipping JPEG capture nodes" (`probe.c:432`).

## 6. Not modelled, and the plan

Not modelled: the field-by-field copies of parameter structures, which have no
state and no control; the packing of samples and the layout of descriptors;
surfaces of other formats than NV12 in `SurfaceBackings`; the pixels of JPEG
and VPP jobs; `vaMapBuffer` (no state); configs and queries (tables).

Next, in this order:

1. proofs: `KernelRefsNotFree` under `timeout` and in EXPBUF mode; that the
   readers' rules of `SurfaceBackings` implement an abstract surface with one
   newest picture;
2. two surfaces in `SurfaceBackings`, and the pixels of a VPP job between them;
3. `Renegotiation` over the slots of `DecodeSlots`, so that a picture lost to a
   renegotiation is accounted for in the pools as well.
