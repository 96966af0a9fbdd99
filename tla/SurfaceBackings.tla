-------------------------- MODULE SurfaceBackings --------------------------
(***************************************************************************)
(* Where the pixels of one NV12 surface live.  A surface has up to four    *)
(* backings: cpu_ptr (vaPutImage, VPP output), the memfd snapshot, the GBM *)
(* display bo, and, in EXPBUF mode, the CAPTURE slot itself (cap_view).    *)
(* last_writer is meant to say which of them is the newest; every reader   *)
(* chooses its source by its own rules.  The memfd has one persistent      *)
(* mapping that derived images borrow and that moves when the picture      *)
(* grows.                                                                  *)
(*                                                                         *)
(* Every entry point holds g_v4l2sl_lock throughout, so each is one        *)
(* action; surfaces do not share backings, so one surface is modelled.     *)
(*                                                                         *)
(* What a backing shows is abstracted to its age: "cur" is the picture     *)
(* written last to the surface, "old" an earlier one, "garbled" one copied *)
(* out of the memfd in another geometry than it was written in, "blank"    *)
(* memory nobody wrote, "absent" no memory.  A geometry (stride, aligned   *)
(* height, fourcc) is named by the bytes it takes, 1 .. MaxSize, which is  *)
(* what the growth of the mapping tells apart.                             *)
(***************************************************************************)
EXTENDS Integers, FiniteSets

CONSTANTS
  ExpbufWanted,  \* V4L2SL_EXPBUF_EXPORT is not "0"
  MaxSize,       \* pictures come in MaxSize sizes
  Images,        \* IDs of derived images
  Events         \* the clients and the failures of this instance

AllEvents ==
  { "put", "vpp", "jpeg",  \* vaPutImage; VPP and JPEG contexts exist
    "release",   \* the slot is taken from the surface: AV1 copy-out
    "teardown",  \* ... a resolution change, or vaDestroyContext
    "bind",      \* a context that lists the surface sets its queue up
    "relayout",  \* ... in another geometry than the picture in the memfd
    "reject",    \* vaPutImage with a bad image, VPP refused by the device
    "memfd",     \* memfd_create or ftruncate fails
    "mmap",      \* mmap, mremap or ftruncate fails while growing
    "calloc",    \* no memory for an image's record
    "bo_map",    \* gbm_bo_map fails
    "expbuf" }   \* no decode context, no free slot or VIDIOC_EXPBUF fails

ASSUME BackingsAssumption ==
  /\ ExpbufWanted \in BOOLEAN
  /\ MaxSize \in Nat \ {0}
  /\ IsFiniteSet(Images)
  /\ Events \subseteq AllEvents

VARIABLES
  alive,   \* the surface exists
  target,  \* which picture of it has begun: none, decode, vpp or jpeg
  held,    \* buf_index >= 0
  view,    \* cap_view # NULL
  hasPic,  \* has_pic
  writer,  \* last_writer
  px,      \* px[b]: what backing b shows
  geom,    \* stride, aligned_h and cap_fourcc, 0 when they are unset
  layout,  \* not in the code: the geometry in which the memfd was written
  mm,      \* the memfd mapping: memfd_map, memfd_map_size, memfd_retired,
           \* memfd_borrows, and the set of regions mmap has handed out
  images,  \* images[i]: what a derived image's data points at
  read     \* not in the code: who read the surface last, since it was last
           \* written, and what it saw

vars ==
  <<alive, target, held, view, hasPic, writer, px, geom, layout, mm, images, read>>

Backings == {"cpu", "memfd", "bo", "cap"}
Ages == {"absent", "blank", "garbled", "old", "cur"}
Sizes == 1 .. MaxSize

(***************************************************************************)
(* Regions of the address space that a mapping of the memfd may take: one  *)
(* for each image, memfd_map, memfd_retired and the one being made.        *)
(***************************************************************************)
Regions == 1 .. Cardinality(Images) + 3
None == 0
Cap == -1       \* the mapping of a CAPTURE slot
CpuPtr == -2
Gone == -3      \* a CAPTURE mapping that has been unmapped

NoImage == [live |-> FALSE, data |-> None, borrow |-> FALSE]
NoRead == [op |-> "none", got |-> "cur"]
NoMap == [map |-> None, len |-> 0, retired |-> None, borrows |-> 0, mapped |-> {}]

ImageRec == [live: BOOLEAN, data: Regions \cup {None, Cap, CpuPtr, Gone},
             borrow: BOOLEAN]
MapRec == [map: Regions \cup {None}, len: 0 .. MaxSize,
           retired: Regions \cup {None}, borrows: Nat, mapped: SUBSET Regions]
ReadRec == [op: {"none", "GetImage", "Derive", "Vpp", "Jpeg"}, got: Ages]

Init ==
  /\ alive = FALSE /\ target = "none"
  /\ held = FALSE /\ view = FALSE /\ hasPic = FALSE
  /\ writer = "NONE" /\ px = [b \in Backings |-> "absent"] /\ geom = 0
  /\ layout = 0 /\ mm = NoMap /\ images = [i \in Images |-> NoImage] /\ read = NoRead

-----------------------------------------------------------------------------
(* Writing and copying pixels.                                             *)

(* A new picture in backing b: what the others show is now an old one.     *)
Written(p, b) ==
  [x \in Backings |->
     IF x = b THEN "cur" ELSE IF p[x] = "cur" THEN "old" ELSE p[x]]

(* v4l2sl_gbm_surface_upload of pixels of the given age: its outcomes.     *)
Uploads(p, age) ==
  {[ok |-> TRUE, px |-> [p EXCEPT !["bo"] = age]]}
  \cup (IF "bo_map" \in Events THEN {[ok |-> FALSE, px |-> p]} ELSE {})

(* mutant: the display copy is left to the next export *)
CpuWrittenLazy == {Written(px, "cpu")}

(* The writers of cpu_ptr upload it at once, and ignore how that ends.     *)
CpuWritten ==
  LET p == Written(px, "cpu")
  IN IF p["bo"] = "absent" THEN {p} ELSE {u.px : u \in Uploads(p, p["cpu"])}

-----------------------------------------------------------------------------
(* The memfd mapping.                                                      *)

PointedAt(m) ==
  {m.map, m.retired} \cup {images[i].data : i \in {j \in Images : images[j].live}}

(* An address nothing points at, so that a stale pointer stays visible.    *)
FreshRegion(m) ==
  CHOOSE r \in Regions : r \notin m.mapped /\ r \notin PointedAt(m)

Remapped(m, n, r) ==   \* mremap may move the mapping
  [m EXCEPT !.map = r, !.len = n, !.mapped = (@ \ {m.map}) \cup {r}]

Retired(m) ==
  [m EXCEPT !.retired = m.map, !.mapped = @ \ {m.retired}]

(* mutant: the mapping is grown in place whoever borrows it *)
MapMemfdMoves(m, n) ==
  IF m.map # None /\ m.len >= n THEN {[ok |-> TRUE, mm |-> m]}
  ELSE {[ok |-> TRUE, mm |-> Remapped(m, n, FreshRegion(m))]}

(***************************************************************************)
(* v4l2sl_surface_map_memfd(s, n) on a surface that has a memfd: the       *)
(* outcomes, each with the mapping it leaves behind.  A failed mmap leaves *)
(* the mapping both current and retired.                                   *)
(***************************************************************************)
MapMemfd(m, n) ==
  LET Ok(x) == [ok |-> TRUE, mm |-> x]
      Failed(x) == [ok |-> FALSE, mm |-> x]
      Mapped(x) == [x EXCEPT !.map = FreshRegion(x), !.len = n,
                             !.mapped = @ \cup {FreshRegion(x)}]
      fails == "mmap" \in Events
  IN IF m.map # None /\ m.len >= n THEN {Ok(m)}
     ELSE IF m.map # None /\ m.borrows > 0
       THEN {Ok(Mapped(Retired(m)))}
            \cup (IF fails THEN {Failed(m), Failed(Retired(m))} ELSE {})
     ELSE (IF m.map = None THEN {Ok(Mapped(m))}
           ELSE {Ok(Remapped(m, n, m.map)), Ok(Remapped(m, n, FreshRegion(m)))})
          \cup (IF fails THEN {Failed(m)} ELSE {})

(* surf->stride and aligned_h, or what the owning context negotiated.      *)
PlaneSize == IF geom = 0 THEN 1 ELSE geom

(* Contents of the memfd in the layout lay, read by the surface's geometry.*)
Shown(age, lay) ==
  IF age \in {"old", "cur"} /\ lay # PlaneSize THEN "garbled" ELSE age

(* The memfd left as it is.                                                *)
AsItIs == [memfd |-> px["memfd"], layout |-> layout, writer |-> writer, mm |-> mm]

(* mutant: the memfd is taken for up to date *)
EnsureMemfdNever == {AsItIs}

(***************************************************************************)
(* v4l2sl_surface_ensure_memfd: refill the memfd from the bo when the bo   *)
(* is newer.  No caller looks at its result.                               *)
(***************************************************************************)
EnsureMemfd ==
  IF writer # "BO" \/ px["bo"] = "absent" \/ px["memfd"] = "absent" \/ geom = 0
  THEN {AsItIs}
  ELSE { IF o.ok
           THEN [memfd |-> px["bo"], layout |-> geom, writer |-> "MEMFD", mm |-> o.mm]
           ELSE [AsItIs EXCEPT !.mm = o.mm] : o \in MapMemfd(mm, geom) }
       \cup (IF "bo_map" \in Events THEN {AsItIs} ELSE {})

-----------------------------------------------------------------------------
(* The life of the surface.                                                *)

CreateSurface ==
  /\ ~alive
  /\ alive' = TRUE
  /\ \E fd \in {"blank"} \cup (IF "memfd" \in Events THEN {"absent"} ELSE {}) :
       /\ px' = [px EXCEPT !["memfd"] = fd]
       /\ geom' = IF fd = "absent" THEN 0 ELSE 1
  /\ UNCHANGED <<target, held, view, hasPic, writer, layout, mm, images, read>>

(* The client has destroyed the images it derived, as VA-API asks.         *)
DestroySurface ==
  /\ alive
  /\ \A i \in Images : ~images[i].live
  /\ alive' = FALSE /\ target' = "none"
  /\ held' = FALSE /\ view' = FALSE /\ hasPic' = FALSE
  /\ writer' = "NONE" /\ px' = [b \in Backings |-> "absent"] /\ geom' = 0
  /\ layout' = 0 /\ mm' = NoMap /\ read' = NoRead
  /\ UNCHANGED images

(* vaBeginPicture: outside EXPBUF mode the surface gives up its slot.      *)
BeginPicture(kind) ==
  /\ alive /\ target = "none"
  /\ kind = "decode" \/ kind \in Events
  /\ target' = kind
  /\ held' = (held /\ ExpbufWanted)
  /\ view' = (view /\ ExpbufWanted)
  /\ UNCHANGED <<alive, hasPic, writer, px, geom, layout, mm, images, read>>

(* vaEndPicture of a decode that fails before its frame is pulled.         *)
DecodeFails ==
  /\ target = "decode"
  /\ target' = "none"
  /\ UNCHANGED <<alive, held, view, hasPic, writer, px, geom, layout, mm, images, read>>

(* A frame of n bytes is attached to the surface.                          *)
Pulled(n) ==
  hasPic' = TRUE /\ held' = TRUE /\ geom' = n /\ read' = NoRead

(* v4l2sl_surface_pull_capture: EXPBUF mode keeps the frame in its slot.   *)
PullView(n) ==
  /\ ExpbufWanted
  /\ Pulled(n)
  /\ view' = TRUE /\ writer' = "MEMFD"
  /\ px' = Written(px, "cap")
  /\ UNCHANGED <<layout, mm>>

(* ... a surface with a bo gets the frame there and nowhere else.          *)
PullToBo(n) ==
  /\ ~ExpbufWanted /\ px["bo"] # "absent"
  /\ Pulled(n)
  /\ writer' = "BO"
  /\ px' = Written(px, "bo")
  /\ UNCHANGED <<view, layout, mm>>

(***************************************************************************)
(* ... otherwise, and when the upload fails, the memfd: sizeimage bytes,   *)
(* at least the n the planes take.  A surface whose memfd could not be     *)
(* made at creation tries again.                                           *)
(***************************************************************************)
PullToMemfd(n) ==
  LET p == [px EXCEPT !["memfd"] = IF @ = "absent" THEN "blank" ELSE @]
  IN /\ ~ExpbufWanted /\ (px["bo"] = "absent" \/ "bo_map" \in Events)
     /\ \E o \in UNION {MapMemfd(mm, z) : z \in n .. MaxSize} :
          /\ mm' = o.mm
          /\ \/ /\ o.ok /\ Pulled(n)
                /\ writer' = "MEMFD" /\ px' = Written(p, "memfd") /\ layout' = n
             \/ /\ ~o.ok /\ px' = p /\ geom' = PlaneSize
                /\ UNCHANGED <<hasPic, held, writer, layout, read>>
     /\ UNCHANGED view

PullCapture(n) ==
  /\ target = "decode"
  /\ PullView(n) \/ PullToBo(n) \/ PullToMemfd(n)
  /\ target' = "none"
  /\ UNCHANGED <<alive, images>>

(* The derived images when the mapping of their CAPTURE slot goes.         *)
CaptureUnmapped ==
  [i \in Images |-> IF images[i].data = Cap THEN [images[i] EXCEPT !.data = Gone]
                    ELSE images[i]]

(***************************************************************************)
(* The slot is taken away: AV1 copy-out, or the end of another context     *)
(* that lists the surface; or with its own context's buffers, which are    *)
(* unmapped: vaDestroyContext, or a renegotiation that gets no new ones.   *)
(***************************************************************************)
ReleaseSlot(why) ==
  /\ why \in Events /\ held
  /\ held' = FALSE /\ view' = FALSE
  /\ px' = [px EXCEPT !["cap"] = "absent"]
  /\ images' = IF why = "release" THEN images ELSE CaptureUnmapped
  /\ UNCHANGED <<alive, target, hasPic, writer, geom, layout, mm, read>>

(***************************************************************************)
(* v4l2sl_bind_capture_export for this surface: a memfd of the new size,   *)
(* then the new geometry, whatever the memfd holds.  A memfd that cannot   *)
(* be made or grown leaves the geometry, unless that was unset.            *)
(***************************************************************************)
BindCaptureExport(n) ==
  LET made == IF px["memfd"] = "absent" THEN "blank" ELSE px["memfd"]
  IN {[memfd |-> made, geom |-> n]}
     \cup (IF "mmap" \in Events THEN {[memfd |-> made, geom |-> PlaneSize]} ELSE {})
     \cup (IF "memfd" \in Events /\ px["memfd"] = "absent"
           THEN {[memfd |-> "absent", geom |-> geom]} ELSE {})

(***************************************************************************)
(* v4l2sl_ensure_capture that gets a new queue, in a context that lists    *)
(* the surface: when the context is created, for a picture of any surface  *)
(* that needs other buffers, or for an export.  The surface loses its      *)
(* slot, whoever's it is, and is bound to the new geometry.                *)
(***************************************************************************)
EnsureCapture(n) ==
  /\ alive /\ "bind" \in Events
  /\ held => "teardown" \in Events
  /\ (px["memfd"] = "cur" /\ n # layout) => "relayout" \in Events
  /\ held' = FALSE /\ view' = FALSE
  /\ \E b \in BindCaptureExport(n) :
       /\ px' = [px EXCEPT !["cap"] = "absent", !["memfd"] = b.memfd]
       /\ geom' = b.geom
  /\ images' \in {images, CaptureUnmapped}
  /\ UNCHANGED <<alive, target, hasPic, writer, layout, mm, read>>

-----------------------------------------------------------------------------
(* Export for display.                                                     *)

(* v4l2sl_export_surface_handle in EXPBUF mode: claim a slot and hand out  *)
(* its dma-buf.                                                            *)
ExportCapture ==
  /\ alive /\ ExpbufWanted
  /\ held' = TRUE
  /\ IF held THEN UNCHANGED <<px, geom>>
     ELSE /\ px' = [px EXCEPT !["cap"] = "blank"]
          /\ geom' \in Sizes
  /\ UNCHANGED <<alive, target, view, hasPic, writer, layout, mm, images, read>>

(* mutant: the bo counts as written however the upload ends *)
SyncedBlindly(p) == {[px |-> p, writer |-> "BO", mm |-> mm]}

(***************************************************************************)
(* v4l2sl_gbm_surface_sync of a bo just created: what it leaves of px,     *)
(* last_writer and the mapping.  Its result is ignored.                    *)
(***************************************************************************)
Synced(p) ==
  LET same == [px |-> p, writer |-> writer, mm |-> mm]
  IN CASE writer = "CPU" /\ p["cpu"] # "absent" ->
            {[same EXCEPT !.px = u.px] : u \in Uploads(p, p["cpu"])}
       [] writer = "MEMFD" /\ p["memfd"] # "absent" /\ geom > 0 ->
            UNION { IF ~o.ok THEN {[same EXCEPT !.mm = o.mm]}
                    ELSE { [px |-> u.px, mm |-> o.mm,
                            writer |-> IF u.ok THEN "BO" ELSE writer]
                         : u \in Uploads(p, Shown(p["memfd"], layout)) }
                  : o \in MapMemfd(mm, geom) }
       [] OTHER -> {same}

(* The GBM export: EXPBUF mode is off, or its own export failed.           *)
ExportBo ==
  /\ alive /\ (~ExpbufWanted \/ "expbuf" \in Events)
  /\ px["bo"] = "absent"
  /\ \E o \in Synced([px EXCEPT !["bo"] = "blank"]) :
       px' = o.px /\ writer' = o.writer /\ mm' = o.mm
  /\ UNCHANGED <<alive, target, held, view, hasPic, geom, layout, images, read>>

-----------------------------------------------------------------------------
(* The writers and readers of pixels on the CPU.                           *)

(* vaPutImage; cpu_ptr is allocated before the image is looked at.         *)
PutImage ==
  /\ alive /\ "put" \in Events
  /\ \/ /\ px' \in CpuWritten
        /\ writer' = "CPU" /\ read' = NoRead
     \/ /\ "reject" \in Events /\ px["cpu"] = "absent"
        /\ px' = [px EXCEPT !["cpu"] = "blank"]
        /\ UNCHANGED <<writer, read>>
  /\ UNCHANGED <<alive, target, held, view, hasPic, geom, layout, mm, images>>

(* vaEndPicture of a VPP context: the surface is its destination.          *)
VppRun ==
  /\ target = "vpp"
  /\ target' = "none"
  /\ \/ /\ px' \in CpuWritten
        /\ writer' = "CPU" /\ hasPic' = TRUE /\ read' = NoRead
     \/ /\ "reject" \in Events
        /\ px' \in {px, [px EXCEPT !["cpu"] = IF @ = "absent" THEN "blank" ELSE @]}
        /\ UNCHANGED <<writer, hasPic, read>>
  /\ UNCHANGED <<alive, held, view, geom, layout, mm, images>>

Saw(op, got) == read' = [op |-> op, got |-> got]

(* Reading the memfd through its mapping; refills says what was done to it *)
(* first.                                                                  *)
ReadMemfd(op, refills) ==
  \E e \in refills : \E o \in MapMemfd(e.mm, PlaneSize) :
    /\ px' = [px EXCEPT !["memfd"] = e.memfd]
    /\ layout' = e.layout /\ writer' = e.writer
    /\ mm' = o.mm
    /\ IF o.ok THEN Saw(op, Shown(e.memfd, e.layout)) ELSE UNCHANGED read

ReadCpu(op) == Saw(op, px["cpu"]) /\ UNCHANGED <<px, layout, writer, mm>>

ReadCap(op) == Saw(op, px["cap"]) /\ UNCHANGED <<px, layout, writer, mm>>

HasCpu == px["cpu"] # "absent"

(* mutant: the CAPTURE mapping is not consulted *)
HasViewNever == FALSE

(* expbuf_capture_src: the frame is read in its slot.                      *)
HasView == ExpbufWanted /\ held /\ view

(* vaGetImage: where v4l2sl_get_image takes the pixels from.               *)
GetImage ==
  /\ alive
  /\ CASE HasView -> ReadCap("GetImage")
       [] ~HasView /\ writer = "CPU" /\ HasCpu -> ReadCpu("GetImage")
       [] ~HasView /\ ~(writer = "CPU" /\ HasCpu) /\ px["memfd"] # "absent" ->
            ReadMemfd("GetImage", IF hasPic THEN EnsureMemfd ELSE {AsItIs})
       [] OTHER -> HasCpu /\ ReadCpu("GetImage")
  /\ UNCHANGED <<alive, target, held, view, hasPic, geom, images>>

(* The source surface of a VPP run, in v4l2sl_vpp_run.                     *)
VppSource ==
  /\ alive /\ "vpp" \in Events
  /\ CASE HasView -> ReadCap("Vpp")
       [] ~HasView /\ px["memfd"] # "absent" /\ held /\ geom > 0 ->
            ReadMemfd("Vpp", EnsureMemfd)
       [] OTHER -> HasCpu /\ ReadCpu("Vpp")
  /\ UNCHANGED <<alive, target, held, view, hasPic, geom, images>>

(* vaEndPicture of a JPEG context: surface_nv12 picks the source.          *)
JpegEncode ==
  /\ target = "jpeg"
  /\ target' = "none"
  /\ CASE HasCpu /\ ~held -> ReadCpu("Jpeg")
       [] ~(HasCpu /\ ~held) /\ px["memfd"] # "absent" /\ geom > 0 ->
            ReadMemfd("Jpeg", {AsItIs})
       [] OTHER -> IF HasCpu THEN ReadCpu("Jpeg")
                   ELSE UNCHANGED <<px, layout, writer, mm, read>>
  /\ UNCHANGED <<alive, held, view, hasPic, geom, images>>

-----------------------------------------------------------------------------
(* Derived images.                                                         *)

NewImage(i, data) ==
  images' = [images EXCEPT ![i] =
               [live |-> TRUE, data |-> data, borrow |-> data # CpuPtr]]

DeriveMemfd(i) ==
  px["memfd"] # "absent" /\
  \E e \in EnsureMemfd : \E o \in MapMemfd(e.mm, PlaneSize) :
    /\ px' = [px EXCEPT !["memfd"] = e.memfd]
    /\ layout' = e.layout /\ writer' = e.writer
    /\ \/ /\ ~o.ok
          /\ mm' = o.mm
          /\ UNCHANGED <<images, read>>
       \/ /\ o.ok
          /\ mm' = [o.mm EXCEPT !.borrows = @ + 1]
          /\ NewImage(i, o.mm.map) /\ Saw("Derive", Shown(e.memfd, e.layout))
       \/ /\ o.ok /\ "calloc" \in Events
          /\ mm' = [o.mm EXCEPT !.borrows = @ + 1]
          /\ mm'.borrows <= Cardinality(Images)   \* bound: leaked borrows
          /\ UNCHANGED <<images, read>>

(* vaDeriveImage.                                                          *)
DeriveImage(i) ==
  /\ alive /\ ~images[i].live
  /\ hasPic \/ HasCpu
  /\ CASE HasCpu /\ ~held -> NewImage(i, CpuPtr) /\ ReadCpu("Derive")
       [] ~(HasCpu /\ ~held) /\ HasView -> NewImage(i, Cap) /\ ReadCap("Derive")
       [] OTHER -> DeriveMemfd(i)
  /\ UNCHANGED <<alive, target, held, view, hasPic, geom>>

(* mutant: the borrow is not given back *)
ReturnedNever(m) == m

(* mutant: an image that never counted as a borrow ends one *)
ReturnedUncounted(m) == [m EXCEPT !.borrows = @ - 1]

(* A borrow ends; with the last one the retired mapping goes.              *)
Returned(m) ==
  LET n == IF m.borrows > 0 THEN m.borrows - 1 ELSE 0
  IN IF n = 0 THEN [m EXCEPT !.borrows = 0, !.retired = None,
                             !.mapped = @ \ {m.retired}]
     ELSE [m EXCEPT !.borrows = n]

(* vaDestroyImage.                                                         *)
DestroyImage(i) ==
  /\ images[i].live
  /\ images' = [images EXCEPT ![i] = NoImage]
  /\ mm' = IF images[i].borrow THEN Returned(mm) ELSE mm
  /\ UNCHANGED <<alive, target, held, view, hasPic, writer, px, geom, layout, read>>

-----------------------------------------------------------------------------
Next ==
  \/ CreateSurface
  \/ DestroySurface
  \/ \E k \in {"decode", "vpp", "jpeg"} : BeginPicture(k)
  \/ DecodeFails
  \/ \E n \in Sizes : PullCapture(n)
  \/ \E w \in {"release", "teardown"} : ReleaseSlot(w)
  \/ \E n \in Sizes : EnsureCapture(n)
  \/ ExportCapture
  \/ ExportBo
  \/ PutImage
  \/ VppRun
  \/ GetImage
  \/ VppSource
  \/ JpegEncode
  \/ \E i \in Images : DeriveImage(i) \/ DestroyImage(i)

Spec == Init /\ [][Next]_vars

-----------------------------------------------------------------------------
(* Properties.                                                             *)

(* Every variable holds a value of its kind.                               *)
TypeOK ==
  /\ alive \in BOOLEAN /\ held \in BOOLEAN /\ view \in BOOLEAN
  /\ hasPic \in BOOLEAN
  /\ target \in {"none", "decode", "vpp", "jpeg"}
  /\ writer \in {"NONE", "CPU", "MEMFD", "BO"}
  /\ px \in [Backings -> Ages] /\ geom \in 0 .. MaxSize /\ layout \in 0 .. MaxSize
  /\ mm \in MapRec /\ images \in [Images -> ImageRec] /\ read \in ReadRec

(***************************************************************************)
(* "Single source of truth for which backing holds the freshest pixels"    *)
(* (enum v4l2sl_last_writer): the backing it names holds the picture       *)
(* written last.  MEMFD also stands for the CAPTURE mapping of EXPBUF mode.*)
(***************************************************************************)
LastWriterTruthful ==
  /\ writer = "CPU" => px["cpu"] = "cur"
  /\ writer = "BO" => px["bo"] = "cur"
  /\ writer = "MEMFD" => px["memfd"] = "cur" \/ px["cap"] = "cur"
  /\ writer = "NONE" => \A b \in Backings : px[b] \notin {"old", "cur"}

(* What reader op saw of a surface somebody has written is the picture     *)
(* written last.                                                           *)
Fresh(op) == (read.op = op /\ writer # "NONE") => read.got = "cur"

(* vaGetImage returns the picture written last, never one replaced since.  *)
GetImageFresh == Fresh("GetImage")

(* vaDeriveImage shows the picture written last.                           *)
DeriveFresh == Fresh("Derive")

(* A VPP run processes the picture written last to its source surface.     *)
VppFresh == Fresh("Vpp")

(* A JPEG encode compresses the picture written last to its surface.       *)
JpegFresh == Fresh("Jpeg")

(* A client that displays the exported bo sees the picture written last.   *)
DisplayFresh == (px["bo"] # "absent" /\ writer # "NONE") => px["bo"] = "cur"

(* The data of a live derived image stays mapped until vaDestroyImage.     *)
ImagesMapped ==
  \A i \in Images : images[i].live =>
    images[i].data \in mm.mapped \cup {Cap, CpuPtr}

(* The surface's own mapping is mapped: no reader is handed a dead one.    *)
MapAlive == mm.map # None => mm.map \in mm.mapped

(* memfd_borrows counts the live images of the memfd, so a retired mapping *)
(* outlives none of them and is not kept when they are gone.               *)
BorrowsCounted ==
  /\ mm.borrows = Cardinality({i \in Images : images[i].live /\ images[i].data \in Regions})
  /\ mm.borrows = 0 => mm.retired = None

=============================================================================
