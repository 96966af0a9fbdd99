----------------------- MODULE SurfaceBackingsProofs -----------------------
(***************************************************************************)
(* The backings of a surface, for every number of images, every picture    *)
(* size and every set of events that a theorem does not exclude: types;    *)
(* last_writer never lies in GBM mode, whatever fails; borrows are counted *)
(* and images stay mapped; readers and the display see the newest picture. *)
(***************************************************************************)
EXTENDS SurfaceBackings, FiniteSetTheorems, TLAPS

GbmMode == ~ExpbufWanted

(* No queue is set up in another geometry while the memfd has the newest   *)
(* picture: v4l2sl_bind_capture_export would give the surface a geometry   *)
(* that the picture was not written in.                                    *)
LayoutKept == "relayout" \notin Events

LayoutOK == px["memfd"] = "cur" => layout = geom /\ geom # 0

(* Outside EXPBUF mode no frame is left in its CAPTURE slot, so MEMFD can  *)
(* only mean the memfd.                                                    *)
PixelsOK ==
  /\ px \in [Backings -> Ages]
  /\ px["cap"] # "cur"
  /\ LastWriterTruthful
  /\ LayoutOK

(* What the memfd shows is an age, and the newest picture when it is read  *)
(* in the geometry it was written in.                                      *)
LEMMA ShownAges ==
  ASSUME NEW age \in Ages, NEW lay
  PROVE  /\ Shown(age, lay) \in Ages
         /\ (age = "cur" /\ lay = geom /\ geom # 0) => Shown(age, lay) = "cur"
  BY DEF Shown, PlaneSize, Ages

(* A new picture in backing b is the only current one.                     *)
LEMMA WrittenAges ==
  ASSUME NEW p \in [Backings -> Ages], NEW b \in Backings
  PROVE  /\ Written(p, b) \in [Backings -> Ages]
         /\ Written(p, b)[b] = "cur"
         /\ \A x \in Backings \ {b} : Written(p, b)[x] # "cur"
  BY DEF Written, Ages, Backings

(* Writing cpu_ptr leaves it current, whether or not the upload works.     *)
LEMMA CpuWrittenAges ==
  ASSUME px \in [Backings -> Ages], NEW p \in CpuWritten
  PROVE  /\ p \in [Backings -> Ages] /\ p["cpu"] = "cur"
         /\ p["cap"] # "cur" /\ p["memfd"] # "cur"
<1> DEFINE w == Written(px, "cpu")
<1>1. /\ w \in [Backings -> Ages] /\ w["cpu"] = "cur"
      /\ w["cap"] # "cur" /\ w["memfd"] # "cur"
  BY WrittenAges DEF Backings
<1>2. \A u \in Uploads(w, w["cpu"]) :
        /\ u.px \in [Backings -> Ages] /\ u.px["cpu"] = "cur"
        /\ u.px["cap"] # "cur" /\ u.px["memfd"] # "cur"
  <2> HIDE DEF w
  <2> QED BY <1>1 DEF Uploads, Backings
<1> QED BY <1>1, <1>2 DEF CpuWritten

(* Refilling the memfd keeps last_writer truthful.                         *)
LEMMA EnsureMemfdTruthful ==
  ASSUME PixelsOK, NEW e \in EnsureMemfd \cup {AsItIs}
  PROVE  /\ e.memfd \in Ages
         /\ \/ e.memfd = px["memfd"] /\ e.writer = writer /\ e.layout = layout
            \/ /\ e.memfd = "cur" /\ e.writer = "MEMFD"
               /\ e.layout = geom /\ geom # 0
<1>1. px["memfd"] \in Ages /\ px["bo"] \in Ages
  BY DEF PixelsOK, Backings
<1>2. writer = "BO" => px["bo"] = "cur"
  BY DEF PixelsOK, LastWriterTruthful
<1> QED BY <1>1, <1>2 DEF EnsureMemfd, AsItIs

(* A step that leaves every pixel, its geometry and last_writer alone.     *)
LEMMA SamePixels ==
  ASSUME PixelsOK, UNCHANGED <<px, geom, layout, writer>>
  PROVE  PixelsOK'
  BY DEF PixelsOK, LastWriterTruthful, LayoutOK

(* Whoever writes cpu_ptr says so.                                         *)
LEMMA CpuWrites ==
  ASSUME PixelsOK, px' \in CpuWritten, writer' = "CPU"
  PROVE  PixelsOK'
  BY CpuWrittenAges DEF PixelsOK, LastWriterTruthful, LayoutOK

(* cpu_ptr allocated for a write that then fails is not claimed as one.    *)
LEMMA CpuAllocated ==
  ASSUME PixelsOK, px["cpu"] = "absent", UNCHANGED <<geom, layout, writer>>,
         px' = [px EXCEPT !["cpu"] = "blank"]
  PROVE  PixelsOK'
  BY DEF PixelsOK, LastWriterTruthful, LayoutOK, Backings, Ages

(* The reading paths through the memfd.                                    *)
LEMMA MemfdRead ==
  ASSUME PixelsOK, NEW e \in EnsureMemfd \cup {AsItIs},
         px' = [px EXCEPT !["memfd"] = e.memfd], writer' = e.writer,
         layout' = e.layout, geom' = geom
  PROVE  PixelsOK'
<1>1. /\ e.memfd \in Ages
      /\ \/ e.memfd = px["memfd"] /\ e.writer = writer /\ e.layout = layout
         \/ /\ e.memfd = "cur" /\ e.writer = "MEMFD"
            /\ e.layout = geom /\ geom # 0
  BY EnsureMemfdTruthful
<1> QED BY <1>1 DEF PixelsOK, LastWriterTruthful, LayoutOK, Backings, Ages

LEMMA ReadMemfdTruthful ==
  ASSUME PixelsOK, NEW op, NEW R \in SUBSET (EnsureMemfd \cup {AsItIs}),
         ReadMemfd(op, R), geom' = geom
  PROVE  PixelsOK'
  BY MemfdRead DEF ReadMemfd

LEMMA PullTruthful ==
  ASSUME GbmMode, PixelsOK, NEW n \in Sizes, PullCapture(n)
  PROVE  PixelsOK'
<1>1. CASE PullView(n)
  BY <1>1 DEF PullView, GbmMode
<1>2. CASE PullToBo(n)
  <2>1. /\ px' \in [Backings -> Ages] /\ px'["bo"] = "cur"
        /\ px'["cap"] # "cur" /\ px'["memfd"] # "cur"
    BY <1>2, WrittenAges DEF PullToBo, PixelsOK, Backings
  <2> QED BY <2>1, <1>2 DEF PullToBo, PixelsOK, LastWriterTruthful, LayoutOK
<1>3. CASE PullToMemfd(n)
  <2> DEFINE p == [px EXCEPT !["memfd"] = IF @ = "absent" THEN "blank" ELSE @]
  <2>1. p \in [Backings -> Ages]
    BY DEF PixelsOK, Backings, Ages
  <2>2. CASE /\ writer' = "MEMFD" /\ px' = Written(p, "memfd")
             /\ layout' = n /\ geom' = n
    <3>1. px' \in [Backings -> Ages] /\ px'["memfd"] = "cur" /\ px'["cap"] # "cur"
      BY <2>1, <2>2, WrittenAges DEF Backings
    <3>2. n # 0
      BY BackingsAssumption DEF Sizes
    <3>3. LastWriterTruthful'
      BY <3>1, <2>2 DEF LastWriterTruthful
    <3>4. LayoutOK'
      BY <3>2, <2>2 DEF LayoutOK
    <3> QED BY <3>1, <3>3, <3>4 DEF PixelsOK
  <2>3. CASE /\ writer' = writer /\ px' = p
             /\ layout' = layout /\ geom' = PlaneSize
    BY <2>1, <2>3 DEF PixelsOK, LastWriterTruthful, LayoutOK, PlaneSize, Backings, Ages
  <2> QED BY <1>3, <2>2, <2>3 DEF PullToMemfd, Pulled
<1> QED BY <1>1, <1>2, <1>3 DEF PullCapture

LEMMA ExportTruthful ==
  ASSUME PixelsOK, ExportBo
  PROVE  PixelsOK'
<1> DEFINE p == [px EXCEPT !["bo"] = "blank"]
<1>1. /\ p \in [Backings -> Ages] /\ p["cpu"] = px["cpu"]
      /\ p["memfd"] = px["memfd"] /\ p["cap"] = px["cap"] /\ p["bo"] = "blank"
  BY DEF PixelsOK, Backings, Ages
<1>2. writer # "BO" /\ UNCHANGED <<geom, layout>>
  BY DEF ExportBo, PixelsOK, LastWriterTruthful
<1>3. PICK o \in Synced(p) : px' = o.px /\ writer' = o.writer
  BY DEF ExportBo
<1> DEFINE shown == Shown(p["memfd"], layout)
<1>8. (writer = "MEMFD" => p["memfd"] = "cur" /\ shown = "cur") /\ shown \in Ages
  <2>1. p["memfd"] \in Ages /\ (writer = "MEMFD" => p["memfd"] = "cur")
    BY <1>1 DEF PixelsOK, LastWriterTruthful, Backings
  <2>2. p["memfd"] = "cur" => layout = geom /\ geom # 0
    BY <1>1 DEF PixelsOK, LayoutOK
  <2> QED BY <2>1, <2>2, ShownAges
<1> HIDE DEF p, shown
<1>4. CASE px' = p /\ writer' = writer
  BY <1>1, <1>2, <1>4 DEF PixelsOK, LastWriterTruthful, LayoutOK, Backings, Ages
<1>5. CASE /\ writer = "CPU" /\ writer' = writer
           /\ px' = [p EXCEPT !["bo"] = p["cpu"]]
  BY <1>1, <1>2, <1>5 DEF PixelsOK, LastWriterTruthful, LayoutOK, Backings, Ages
<1>6. CASE /\ writer = "MEMFD" /\ writer' = "BO"
           /\ px' = [p EXCEPT !["bo"] = shown]
  BY <1>1, <1>2, <1>6, <1>8 DEF PixelsOK, LastWriterTruthful, LayoutOK, Backings, Ages
<1>7. \/ px' = p /\ writer' = writer
      \/ /\ writer = "CPU" /\ writer' = writer
         /\ px' = [p EXCEPT !["bo"] = p["cpu"]]
      \/ /\ writer = "MEMFD" /\ writer' = "BO"
         /\ px' = [p EXCEPT !["bo"] = shown]
  <2>1. CASE writer = "CPU" /\ p["cpu"] # "absent"
    BY <2>1, <1>3 DEF Synced, Uploads
  <2>2. CASE writer = "MEMFD" /\ p["memfd"] # "absent" /\ geom > 0
    BY <2>2, <1>3 DEF Synced, Uploads, shown
  <2>3. CASE /\ ~(writer = "CPU" /\ p["cpu"] # "absent")
             /\ ~(writer = "MEMFD" /\ p["memfd"] # "absent" /\ geom > 0)
    BY <2>3, <1>3 DEF Synced
  <2> QED BY <2>1, <2>2, <2>3
<1> QED BY <1>4, <1>5, <1>6, <1>7

(* A new queue: the slot goes, and a picture in the memfd keeps its        *)
(* geometry.                                                               *)
LEMMA BindTruthful ==
  ASSUME LayoutKept, PixelsOK, NEW n \in Sizes, EnsureCapture(n)
  PROVE  PixelsOK'
<1>1. PICK b \in BindCaptureExport(n) :
        /\ px' = [px EXCEPT !["cap"] = "absent", !["memfd"] = b.memfd]
        /\ geom' = b.geom
  BY DEF EnsureCapture
<1>2. UNCHANGED <<layout, writer>> /\ (px["memfd"] = "cur" => n = layout)
  BY DEF EnsureCapture, LayoutKept
<1>3. /\ b.memfd \in Ages
      /\ px["memfd"] # "absent" => b.memfd = px["memfd"] /\ b.geom \in {n, PlaneSize}
      /\ px["memfd"] = "absent" => b.memfd \in {"absent", "blank"}
  BY DEF BindCaptureExport, PixelsOK, Backings, Ages
<1>4. /\ px' \in [Backings -> Ages] /\ px'["cap"] = "absent" /\ px'["memfd"] = b.memfd
      /\ px'["cpu"] = px["cpu"] /\ px'["bo"] = px["bo"]
  BY <1>1, <1>3 DEF PixelsOK, Backings, Ages
<1>5. LastWriterTruthful'
  BY <1>2, <1>3, <1>4 DEF PixelsOK, LastWriterTruthful, Backings
<1>6. LayoutOK'
  <2>1. SUFFICES ASSUME b.memfd = "cur" PROVE layout = b.geom /\ b.geom # 0
    BY <1>1, <1>2, <1>4 DEF LayoutOK
  <2>2. px["memfd"] = "cur" /\ b.geom \in {n, PlaneSize}
    BY <1>3, <2>1
  <2>3. layout = geom /\ geom # 0 /\ n = layout
    BY <1>2, <2>2 DEF PixelsOK, LayoutOK
  <2> QED BY <2>2, <2>3 DEF PlaneSize
<1> QED BY <1>4, <1>5, <1>6 DEF PixelsOK

(* A surface that does not exist has no writer and no picture begun.       *)
DeadIsBlank == ~alive => writer = "NONE" /\ target = "none"

WriterInv == PixelsOK /\ DeadIsBlank

LEMMA WriterInit ==
  ASSUME Init PROVE WriterInv
  BY DEF Init, WriterInv, DeadIsBlank, PixelsOK, LastWriterTruthful, LayoutOK, Backings,
         Ages

LEMMA WriterStep ==
  ASSUME GbmMode, LayoutKept, WriterInv, [Next]_vars
  PROVE  WriterInv'
<1> USE DEF WriterInv
<1>1. CASE CreateSurface
  <2>1. writer = "NONE" /\ target = "none"
    BY <1>1 DEF CreateSurface, DeadIsBlank
  <2>2. /\ px' \in [Backings -> Ages] /\ writer' = writer
        /\ px'["cap"] = px["cap"]
        /\ \A b \in Backings : px'[b] = px[b] \/ px'[b] \in {"blank", "absent"}
        /\ px'["memfd"] # "cur"
    BY <1>1 DEF CreateSurface, PixelsOK, Backings, Ages
  <2>3. PixelsOK'
    BY <2>1, <2>2 DEF PixelsOK, LastWriterTruthful, LayoutOK
  <2> QED BY <2>3, <1>1 DEF CreateSurface, DeadIsBlank
<1>2. CASE DestroySurface
  BY <1>2 DEF DestroySurface, DeadIsBlank, PixelsOK, LastWriterTruthful, LayoutOK,
              Backings, Ages
<1>3. ASSUME NEW k \in {"decode", "vpp", "jpeg"}, BeginPicture(k) PROVE WriterInv'
  BY <1>3, SamePixels DEF BeginPicture, DeadIsBlank
<1>4. CASE DecodeFails
  BY <1>4, SamePixels DEF DecodeFails, DeadIsBlank
<1>5. ASSUME NEW n \in Sizes, PullCapture(n) PROVE WriterInv'
  BY <1>5, PullTruthful DEF PullCapture, DeadIsBlank
<1>6. ASSUME NEW w \in {"release", "teardown"}, ReleaseSlot(w) PROVE WriterInv'
  <2>1. /\ px' = [px EXCEPT !["cap"] = "absent"]
        /\ UNCHANGED <<writer, alive, target, geom, layout>>
    BY <1>6 DEF ReleaseSlot
  <2>2. PixelsOK'
    BY <2>1 DEF PixelsOK, LastWriterTruthful, LayoutOK, Backings, Ages
  <2> QED BY <2>1, <2>2 DEF DeadIsBlank
<1>17. ASSUME NEW n \in Sizes, EnsureCapture(n) PROVE WriterInv'
  BY <1>17, BindTruthful DEF EnsureCapture, DeadIsBlank
<1>7. CASE ExportCapture
  BY <1>7 DEF ExportCapture, GbmMode
<1>8. CASE ExportBo
  BY <1>8, ExportTruthful DEF ExportBo, DeadIsBlank
<1>9. CASE PutImage
  BY <1>9, CpuWrites, CpuAllocated DEF PutImage, DeadIsBlank
<1>10. CASE VppRun
  <2>1. CASE px' \in CpuWritten /\ writer' = "CPU"
    BY <2>1, <1>10, CpuWrites DEF VppRun, DeadIsBlank
  <2>2. CASE /\ writer' = writer
             /\ px' \in {px, [px EXCEPT !["cpu"] = IF @ = "absent" THEN "blank" ELSE @]}
    <3>1. px' = px \/ (px["cpu"] = "absent" /\ px' = [px EXCEPT !["cpu"] = "blank"])
      BY <2>2 DEF PixelsOK, Backings
    <3>3. UNCHANGED <<geom, layout>>
      BY <1>10 DEF VppRun
    <3>2. PixelsOK'
      BY <3>1, <3>3, <2>2, SamePixels, CpuAllocated
    <3> QED BY <3>2, <1>10, <2>2 DEF VppRun, DeadIsBlank
  <2> QED BY <2>1, <2>2, <1>10 DEF VppRun
<1>11. CASE GetImage
  <2>1. PixelsOK'
    <3>1. \/ ReadCap("GetImage") \/ ReadCpu("GetImage")
          \/ \E R \in SUBSET (EnsureMemfd \cup {AsItIs}) : ReadMemfd("GetImage", R)
      BY <1>11 DEF GetImage
    <3>2. geom' = geom
      BY <1>11 DEF GetImage
    <3> QED BY <3>1, <3>2, SamePixels, ReadMemfdTruthful DEF ReadCap, ReadCpu
  <2> QED BY <2>1, <1>11 DEF GetImage, DeadIsBlank, ReadCap, ReadCpu
<1>12. CASE VppSource
  <2>1. PixelsOK'
    <3>1. \/ ReadCap("Vpp") \/ ReadCpu("Vpp")
          \/ \E R \in SUBSET (EnsureMemfd \cup {AsItIs}) : ReadMemfd("Vpp", R)
      BY <1>12 DEF VppSource
    <3>2. geom' = geom
      BY <1>12 DEF VppSource
    <3> QED BY <3>1, <3>2, SamePixels, ReadMemfdTruthful DEF ReadCap, ReadCpu
  <2> QED BY <2>1, <1>12 DEF VppSource, DeadIsBlank
<1>13. CASE JpegEncode
  <2>1. PixelsOK'
    <3>1. \/ ReadCpu("Jpeg") \/ UNCHANGED <<px, layout, writer>>
          \/ \E R \in SUBSET (EnsureMemfd \cup {AsItIs}) : ReadMemfd("Jpeg", R)
      BY <1>13 DEF JpegEncode
    <3>2. geom' = geom
      BY <1>13 DEF JpegEncode
    <3> QED BY <3>1, <3>2, SamePixels, ReadMemfdTruthful DEF ReadCpu
  <2> QED BY <2>1, <1>13 DEF JpegEncode, DeadIsBlank
<1>14. ASSUME NEW i \in Images, DeriveImage(i) PROVE WriterInv'
  <2>1. PixelsOK'
    <3>1. ReadCap("Derive") \/ ReadCpu("Derive") \/ DeriveMemfd(i)
      BY <1>14 DEF DeriveImage
    <3>2. geom' = geom
      BY <1>14 DEF DeriveImage
    <3> QED BY <3>1, <3>2, SamePixels, MemfdRead DEF ReadCap, ReadCpu, DeriveMemfd
  <2> QED BY <2>1, <1>14 DEF DeriveImage, DeadIsBlank
<1>15. ASSUME NEW i \in Images, DestroyImage(i) PROVE WriterInv'
  BY <1>15, SamePixels DEF DestroyImage, DeadIsBlank
<1>16. CASE UNCHANGED vars
  BY <1>16, SamePixels DEF vars, DeadIsBlank
<1> QED
  BY <1>1, <1>2, <1>3, <1>4, <1>5, <1>6, <1>7, <1>8, <1>9, <1>10, <1>11, <1>12,
     <1>13, <1>14, <1>15, <1>16, <1>17 DEF Next

(***************************************************************************)
(* In GBM mode last_writer names a backing that holds the picture written  *)
(* last, whatever failed on the way: bo maps, memfd growth, allocation.    *)
(* Queues may be set up at any time and the surface bound to them, in      *)
(* another geometry only while the memfd does not hold that picture.       *)
(***************************************************************************)
THEOREM WriterTruthfulInGbmMode ==
  ASSUME GbmMode, LayoutKept
  PROVE  Spec => []LastWriterTruthful
<1>1. Init => WriterInv
  BY WriterInit
<1>2. WriterInv /\ [Next]_vars => WriterInv'
  BY WriterStep
<1>3. WriterInv => LastWriterTruthful
  BY DEF WriterInv, PixelsOK
<1> QED BY <1>1, <1>2, <1>3, PTL DEF Spec

-----------------------------------------------------------------------------
(* The memfd mapping and the types.                                        *)

(* Nothing is mapped but the current and the retired mapping.              *)
MapOK(m) == m \in MapRec /\ m.mapped \subseteq {m.map, m.retired}

ImagesOK == images \in [Images -> ImageRec]

LEMMA RegionFacts ==
  /\ IsFiniteSet(Images) /\ Cardinality(Images) \in Nat /\ MaxSize \in Nat \ {0}
  /\ IsFiniteSet(Regions) /\ Cardinality(Regions) = Cardinality(Images) + 3
  /\ \A r \in Regions : r \in Nat \ {0} /\ r \notin {None, Cap, CpuPtr, Gone}
<1>1. IsFiniteSet(Images) /\ MaxSize \in Nat \ {0}
  BY BackingsAssumption
<1>2. Cardinality(Images) \in Nat
  BY <1>1, FS_CardinalityType
<1>3. IsFiniteSet(Regions) /\ Cardinality(Regions) = Cardinality(Images) + 3
  BY <1>2, FS_Interval DEF Regions
<1> QED
  BY <1>1, <1>2, <1>3 DEF Regions, None, Cap, CpuPtr, Gone

(* The images leave a region free besides the two mappings.                *)
LEMMA FreshExists ==
  ASSUME NEW m, MapOK(m)
  PROVE  FreshRegion(m) \in Regions /\ FreshRegion(m) \notin m.mapped \cup PointedAt(m)
<1> DEFINE f == [i \in Images |-> images[i].data]
           D == {f[i] : i \in Images}
           U == {m.map, m.retired} \cup D
<1>1. IsFiniteSet(D) /\ Cardinality(D) <= Cardinality(Images)
  <2>1. f \in Surjection(Images, D)
    BY DEF Surjection
  <2> HIDE DEF f, D
  <2> QED
    BY <2>1, RegionFacts, FS_Surjection
<1>2. IsFiniteSet({m.map, m.retired}) /\ Cardinality({m.map, m.retired}) <= 2
  <2>1. IsFiniteSet({m.map}) /\ Cardinality({m.map}) = 1
    BY FS_Singleton
  <2>2. /\ IsFiniteSet({m.map} \cup {m.retired})
        /\ Cardinality({m.map} \cup {m.retired}) \in {1, 2}
    BY <2>1, FS_AddElement
  <2>3. {m.map, m.retired} = {m.map} \cup {m.retired}
    OBVIOUS
  <2> QED
    BY <2>2, <2>3
<1>3. m.mapped \cup PointedAt(m) \subseteq U
  BY DEF MapOK, PointedAt
<1> HIDE DEF D
<1>4. IsFiniteSet(U) /\ Cardinality(U) <= Cardinality(Images) + 2
  <2> DEFINE A == {m.map, m.retired}
  <2>1. IsFiniteSet(A \cap D)
    BY <1>1, <1>2, FS_Intersection
  <2> HIDE DEF A
  <2>2. /\ IsFiniteSet(A \cup D)
        /\ Cardinality(A \cup D) = Cardinality(A) + Cardinality(D) - Cardinality(A \cap D)
        /\ Cardinality(A) \in Nat /\ Cardinality(D) \in Nat /\ Cardinality(A \cap D) \in Nat
    BY <1>1, <1>2, <2>1, FS_Union, FS_CardinalityType DEF A
  <2>3. Cardinality(A) <= 2
    BY <1>2 DEF A
  <2>4. Cardinality(A \cup D) <= Cardinality(Images) + 2
    BY <1>1, <2>2, <2>3, RegionFacts
  <2> QED
    BY <2>2, <2>4 DEF A
<1> HIDE DEF U
<1>5. ~(Regions \subseteq U)
  <2> SUFFICES ASSUME Regions \subseteq U PROVE FALSE
    OBVIOUS
  <2>1. Cardinality(Regions) <= Cardinality(U) /\ Cardinality(U) \in Nat
    BY <1>4, FS_Subset, FS_CardinalityType
  <2> QED
    BY <1>4, <2>1, RegionFacts
<1>6. \E r \in Regions : r \notin m.mapped /\ r \notin PointedAt(m)
  BY <1>3, <1>5
<1> QED
  BY <1>6 DEF FreshRegion

(* What becomes of the mapping when n bytes are asked for.                 *)
LEMMA MapMemfdTo ==
  ASSUME NEW m, MapOK(m), NEW n \in Sizes, NEW o \in MapMemfd(m, n)
  PROVE  /\ MapOK(o.mm) /\ o.ok \in BOOLEAN /\ o.mm.borrows = m.borrows
         /\ "mmap" \notin Events => o.ok
         /\ o.ok => o.mm.map \in Regions
         /\ \/ o.mm = m
            \* the mapping is retired, another made
            \/ /\ m.borrows > 0 /\ m.map \in Regions /\ m.len < n /\ o.mm.len = n
               /\ o.mm.retired = m.map /\ o.mm.map # m.map
               /\ o.mm.mapped = (m.mapped \ {m.retired}) \cup {o.mm.map}
            \/ "mmap" \in Events /\ m.borrows > 0
            \* the first mapping
            \/ /\ m.map = None /\ o.mm.len = n /\ o.mm.retired = m.retired
               /\ o.mm.mapped = m.mapped \cup {o.mm.map}
            \* the mapping grows, and may move
            \/ /\ m.borrows = 0 /\ m.map \in Regions /\ m.len < n /\ o.mm.len = n
               /\ o.mm.retired = m.retired
               /\ o.mm.mapped = (m.mapped \ {m.map}) \cup {o.mm.map}
<1> DEFINE Mapped(x) == [x EXCEPT !.map = FreshRegion(x), !.len = n,
                                  !.mapped = @ \cup {FreshRegion(x)}]
<1>1. m \in MapRec /\ m.mapped \subseteq {m.map, m.retired} /\ n \in 0 .. MaxSize
  BY DEF MapOK, Sizes
<1>2. m.borrows \in Nat /\ m.len \in 0 .. MaxSize /\ m.map \in Regions \cup {None}
  BY <1>1 DEF MapRec
<1>3. ASSUME NEW x, MapOK(x), m.len < n \/ m.map = None
      PROVE  /\ Mapped(x) \in MapRec /\ Mapped(x).map = FreshRegion(x)
             /\ Mapped(x).map \in Regions /\ Mapped(x).len = n
             /\ Mapped(x).retired = x.retired /\ Mapped(x).borrows = x.borrows
             /\ Mapped(x).mapped = x.mapped \cup {FreshRegion(x)}
  BY <1>1, <1>3, FreshExists DEF MapOK, MapRec
<1>4. /\ Retired(m) \in MapRec /\ Retired(m).map = m.map /\ Retired(m).retired = m.map
      /\ Retired(m).mapped = m.mapped \ {m.retired} /\ Retired(m).borrows = m.borrows
      /\ MapOK(Retired(m))
  BY <1>1 DEF Retired, MapRec, MapOK
<1>5. CASE o.mm = m /\ o.ok \in BOOLEAN /\ (o.ok => m.map # None)
           /\ ("mmap" \notin Events => o.ok)
  BY <1>2, <1>5
<1>6. CASE /\ m.borrows > 0 /\ m.map # None /\ ~(m.len >= n)
           /\ o = [ok |-> TRUE, mm |-> Mapped(Retired(m))]
  <2> DEFINE x == Retired(m)
  <2>0. MapOK(x) /\ m.len < n /\ o.ok = TRUE /\ o.mm = Mapped(x)
    BY <1>1, <1>2, <1>4, <1>6
  <2>4. /\ Mapped(x) \in MapRec /\ Mapped(x).map = FreshRegion(x)
        /\ Mapped(x).map \in Regions /\ Mapped(x).len = n
        /\ Mapped(x).retired = x.retired /\ Mapped(x).borrows = x.borrows
        /\ Mapped(x).mapped = x.mapped \cup {FreshRegion(x)}
    BY <1>3, <2>0
  <2>1. /\ o.ok = TRUE /\ o.mm \in MapRec /\ o.mm.map = FreshRegion(x) /\ o.mm.map \in Regions
        /\ o.mm.len = n /\ o.mm.retired = m.map /\ o.mm.borrows = m.borrows
        /\ o.mm.mapped = (m.mapped \ {m.retired}) \cup {o.mm.map}
    <3> HIDE DEF x, Mapped
    <3> QED
      BY <1>4, <2>0, <2>4 DEF x
  <2>2. o.mm.map # m.map
    BY <1>4, <2>1, FreshExists DEF PointedAt
  <2>3. MapOK(o.mm)
    BY <1>1, <2>1 DEF MapOK
  <2> QED
    <3> HIDE DEF x, Mapped
    <3>1. m.map \in Regions /\ m.len < n
      BY <1>2, <1>6, <2>0
    <3> QED
      BY <1>6, <2>1, <2>2, <2>3, <3>1
<1>7. CASE m.borrows > 0 /\ "mmap" \in Events /\ o = [ok |-> FALSE, mm |-> Retired(m)]
  BY <1>4, <1>7
<1>8. CASE m.map = None /\ o = [ok |-> TRUE, mm |-> Mapped(m)]
  <2>1. /\ o.ok = TRUE /\ o.mm \in MapRec /\ o.mm.map \in Regions /\ o.mm.len = n
        /\ o.mm.retired = m.retired /\ o.mm.borrows = m.borrows
        /\ o.mm.mapped = m.mapped \cup {o.mm.map}
    BY <1>3, <1>8
  <2>2. None \notin m.mapped
    BY <1>1, RegionFacts DEF MapRec
  <2>3. MapOK(o.mm)
    BY <1>1, <1>8, <2>1, <2>2 DEF MapOK
  <2> QED
    BY <1>8, <2>1, <2>3
<1>9. ASSUME m.map # None, ~(m.borrows > 0), ~(m.len >= n), NEW r \in Regions,
             o = [ok |-> TRUE, mm |-> Remapped(m, n, r)]
      PROVE  /\ MapOK(o.mm) /\ o.ok = TRUE /\ o.mm.borrows = m.borrows /\ o.mm.map \in Regions
             /\ m.borrows = 0 /\ m.map \in Regions /\ m.len < n /\ o.mm.len = n
             /\ o.mm.retired = m.retired
             /\ o.mm.mapped = (m.mapped \ {m.map}) \cup {o.mm.map}
  <2>1. /\ o.mm \in MapRec /\ o.mm.map = r /\ o.mm.len = n
        /\ o.mm.retired = m.retired /\ o.mm.borrows = m.borrows
        /\ o.mm.mapped = (m.mapped \ {m.map}) \cup {r}
    BY <1>1, <1>9 DEF Remapped, MapRec
  <2> QED
    BY <1>1, <1>2, <1>9, <2>1 DEF MapOK
<1>10. \/ /\ o.mm = m /\ o.ok \in BOOLEAN
          /\ o.ok => m.map # None
          /\ "mmap" \notin Events => o.ok
       \/ /\ m.borrows > 0 /\ m.map # None /\ ~(m.len >= n)
          /\ o = [ok |-> TRUE, mm |-> Mapped(Retired(m))]
       \/ m.borrows > 0 /\ "mmap" \in Events /\ o = [ok |-> FALSE, mm |-> Retired(m)]
       \/ m.map = None /\ o = [ok |-> TRUE, mm |-> Mapped(m)]
       \/ /\ m.map # None /\ ~(m.borrows > 0) /\ ~(m.len >= n)
          /\ \E r \in {m.map, FreshRegion(m)} : o = [ok |-> TRUE, mm |-> Remapped(m, n, r)]
  <2> DEFINE A == [ok |-> TRUE, mm |-> Mapped(Retired(m))]
             B == [ok |-> FALSE, mm |-> m]
             C == [ok |-> FALSE, mm |-> Retired(m)]
             E == [ok |-> TRUE, mm |-> Mapped(m)]
             F(r) == [ok |-> TRUE, mm |-> Remapped(m, n, r)]
             G == [ok |-> TRUE, mm |-> m]
             fails == "mmap" \in Events
  <2>1. MapMemfd(m, n) =
          IF m.map # None /\ m.len >= n THEN {G}
          ELSE IF m.map # None /\ m.borrows > 0
            THEN {A} \cup (IF fails THEN {B, C} ELSE {})
          ELSE (IF m.map = None THEN {E} ELSE {F(m.map), F(FreshRegion(m))})
               \cup (IF fails THEN {B} ELSE {})
    BY DEF MapMemfd
  <2>2. B.ok = FALSE /\ B.mm = m /\ G.ok = TRUE /\ G.mm = m
    OBVIOUS
  <2> HIDE DEF A, B, C, E, F, G
  <2>3. \/ m.map # None /\ m.len >= n /\ o = G
        \/ fails /\ o = B
        \/ /\ m.borrows > 0 /\ m.map # None /\ ~(m.len >= n)
           /\ o = A
        \/ m.borrows > 0 /\ fails /\ o = C
        \/ m.map = None /\ o = E
        \/ /\ m.map # None /\ ~(m.borrows > 0) /\ ~(m.len >= n)
           /\ o = F(m.map) \/ o = F(FreshRegion(m))
    BY <2>1
  <2> QED
    BY <2>2, <2>3 DEF A, C, E, F
<1>11. m.map # None => m.map \in Regions
  BY <1>2
<1> QED
  BY <1>5, <1>6, <1>7, <1>8, <1>9, <1>10, <1>11, FreshExists

Borrowing(i) == images[i].live /\ images[i].data \in Regions

(* Without borrows nothing is retired, and no image is on the memfd.       *)
BorrowOK(m) == m.borrows = 0 => m.retired = None

(* The current and the retired mapping are mapped, and the images of the   *)
(* memfd are on one of them; with two sizes the last growth retires.       *)
ImagesIn(m) ==
  /\ m.map # None => m.map \in m.mapped /\ m.len > 0
  /\ m.retired # None => /\ m.retired \in m.mapped /\ m.len = MaxSize
                         /\ m.map \notin {None, m.retired}
  /\ \A i \in Images : Borrowing(i) => images[i].data \in {m.map, m.retired} /\ m.borrows > 0

OneGrowth == MaxSize <= 2 /\ "mmap" \notin Events

(* The mapping after some bytes have been asked for.                       *)
Reached(m) ==
  /\ MapOK(m) /\ m.borrows = mm.borrows
  /\ BorrowOK(mm) => BorrowOK(m)
  /\ OneGrowth /\ BorrowOK(mm) /\ ImagesIn(mm) => ImagesIn(m)

LEMMA MapMemfdReaches ==
  ASSUME NEW m, Reached(m), NEW n \in Sizes, NEW o \in MapMemfd(m, n)
  PROVE  Reached(o.mm) /\ o.ok \in BOOLEAN /\ (o.ok => o.mm.map \in Regions)
<1> DEFINE k == o.mm
<1>1. MapOK(m)
  BY DEF Reached
<1>2. /\ MapOK(k) /\ o.ok \in BOOLEAN /\ k.borrows = m.borrows
      /\ "mmap" \notin Events => o.ok
      /\ o.ok => k.map \in Regions
      /\ \/ k = m
         \/ /\ m.borrows > 0 /\ m.map \in Regions /\ m.len < n /\ k.len = n
            /\ k.retired = m.map /\ k.map # m.map
            /\ k.mapped = (m.mapped \ {m.retired}) \cup {k.map}
         \/ "mmap" \in Events /\ m.borrows > 0
         \/ /\ m.map = None /\ k.len = n /\ k.retired = m.retired
            /\ k.mapped = m.mapped \cup {k.map}
         \/ /\ m.borrows = 0 /\ m.map \in Regions /\ m.len < n /\ k.len = n
            /\ k.retired = m.retired
            /\ k.mapped = (m.mapped \ {m.map}) \cup {k.map}
  BY <1>1, MapMemfdTo
<1> HIDE DEF k
<1>3. /\ m.borrows \in Nat /\ m.len \in Nat /\ n \in Nat \ {0} /\ n <= MaxSize
      /\ MaxSize \in Nat \ {0} /\ m.map \in Regions \cup {None}
      /\ m.retired \in Regions \cup {None} /\ k.map \in Regions \cup {None}
      /\ None \notin Regions
  BY <1>1, <1>2, RegionFacts DEF MapOK, MapRec, Sizes
<1>4. ASSUME BorrowOK(m) PROVE BorrowOK(k)
  BY <1>2, <1>3, <1>4 DEF BorrowOK
<1>5. ASSUME OneGrowth, BorrowOK(m), ImagesIn(m) PROVE ImagesIn(k)
  <2>1. "mmap" \notin Events /\ k.map \in Regions /\ MaxSize \in {1, 2}
    BY <1>2, <1>3, <1>5 DEF OneGrowth
  <2>2. CASE k = m
    BY <1>5, <2>2
  <2>3. CASE /\ m.borrows > 0 /\ m.map \in Regions /\ m.len < n /\ k.len = n
             /\ k.retired = m.map /\ k.map # m.map
             /\ k.mapped = (m.mapped \ {m.retired}) \cup {k.map}
    <3>1. m.len > 0 /\ n = MaxSize /\ m.retired = None /\ m.map \in m.mapped
      BY <1>3, <1>5, <2>1, <2>3 DEF ImagesIn
    <3>2. k.retired \in k.mapped /\ k.map \in k.mapped /\ k.len = MaxSize /\ k.len > 0
          /\ k.map # k.retired
      BY <1>3, <2>3, <3>1
    <3>3. \A i \in Images : Borrowing(i) => images[i].data = m.map /\ k.borrows > 0
      BY <1>2, <1>3, <1>5, <3>1 DEF ImagesIn, Borrowing
    <3> QED
      BY <1>3, <2>1, <2>3, <3>2, <3>3 DEF ImagesIn
  <2>4. CASE /\ m.map = None /\ k.len = n /\ k.retired = m.retired
             /\ k.mapped = m.mapped \cup {k.map}
    <3>1. m.retired = None /\ \A i \in Images : ~Borrowing(i)
      BY <1>3, <1>5, <2>4 DEF ImagesIn, Borrowing
    <3> QED
      BY <1>3, <2>4, <3>1 DEF ImagesIn
  <2>5. CASE /\ m.borrows = 0 /\ m.map \in Regions /\ m.len < n /\ k.len = n
             /\ k.retired = m.retired
             /\ k.mapped = (m.mapped \ {m.map}) \cup {k.map}
    <3>1. m.retired = None /\ \A i \in Images : ~Borrowing(i)
      BY <1>3, <1>5, <2>5 DEF ImagesIn, BorrowOK
    <3> QED
      BY <1>3, <2>5, <3>1 DEF ImagesIn
  <2> QED
    BY <1>2, <2>1, <2>2, <2>3, <2>4, <2>5
<1> QED
  BY <1>2, <1>4, <1>5 DEF Reached, k

LEMMA MapMemfdStart ==
  ASSUME MapOK(mm)
  PROVE  Reached(mm)
BY DEF Reached

LEMMA SizesFacts ==
  ASSUME TypeOK
  PROVE  PlaneSize \in Sizes /\ (geom # 0 => geom \in Sizes) /\ (geom > 0 => geom \in Sizes)
BY RegionFacts DEF TypeOK, PlaneSize, Sizes

(* A refill leaves a mapping that was asked for.                           *)
LEMMA EnsureReaches ==
  ASSUME TypeOK, MapOK(mm), NEW e \in EnsureMemfd \cup {AsItIs}
  PROVE  /\ e.memfd \in Ages /\ e.writer \in {"NONE", "CPU", "MEMFD", "BO"}
         /\ e.layout \in 0 .. MaxSize
         /\ Reached(e.mm)
<1>1. /\ AsItIs.memfd = px["memfd"] /\ AsItIs.writer = writer /\ AsItIs.mm = mm
      /\ AsItIs.layout = layout /\ layout \in 0 .. MaxSize /\ geom \in 0 .. MaxSize
      /\ px["memfd"] \in Ages /\ px["bo"] \in Ages
      /\ writer \in {"NONE", "CPU", "MEMFD", "BO"}
  BY DEF AsItIs, TypeOK, Backings
<1>2. Reached(mm)
  BY MapMemfdStart
<1>3. CASE e = AsItIs
  BY <1>1, <1>2, <1>3
<1>4. CASE e # AsItIs
  <2>1. geom \in Sizes
    BY <1>4, SizesFacts DEF EnsureMemfd
  <2>2. PICK o \in MapMemfd(mm, geom) :
          e = IF o.ok
                THEN [memfd |-> px["bo"], layout |-> geom, writer |-> "MEMFD", mm |-> o.mm]
                ELSE [AsItIs EXCEPT !.mm = o.mm]
    BY <1>4 DEF EnsureMemfd
  <2>3. Reached(o.mm)
    BY <1>2, <2>1, MapMemfdReaches
  <2>4. /\ [AsItIs EXCEPT !.mm = o.mm].memfd = px["memfd"]
        /\ [AsItIs EXCEPT !.mm = o.mm].writer = writer
        /\ [AsItIs EXCEPT !.mm = o.mm].layout = layout
        /\ [AsItIs EXCEPT !.mm = o.mm].mm = o.mm
    BY DEF AsItIs
  <2> QED
    BY <1>1, <2>2, <2>3, <2>4
<1> QED
  BY <1>3, <1>4

LEMMA ReadReaches ==
  ASSUME TypeOK, MapOK(mm), NEW op, NEW R \in SUBSET (EnsureMemfd \cup {AsItIs}),
         ReadMemfd(op, R)
  PROVE  /\ Reached(mm')
         /\ px' \in [Backings -> Ages] /\ writer' \in {"NONE", "CPU", "MEMFD", "BO"}
         /\ layout' \in 0 .. MaxSize
         /\ read' = read \/ \E got \in Ages : Saw(op, got)
<1>0. PICK e \in R : \E o \in MapMemfd(e.mm, PlaneSize) :
        /\ px' = [px EXCEPT !["memfd"] = e.memfd]
        /\ layout' = e.layout /\ writer' = e.writer
        /\ mm' = o.mm
        /\ IF o.ok THEN Saw(op, Shown(e.memfd, e.layout)) ELSE UNCHANGED read
  BY DEF ReadMemfd
<1>1. PICK o \in MapMemfd(e.mm, PlaneSize) :
        /\ px' = [px EXCEPT !["memfd"] = e.memfd]
        /\ layout' = e.layout /\ writer' = e.writer
        /\ mm' = o.mm
        /\ IF o.ok THEN Saw(op, Shown(e.memfd, e.layout)) ELSE UNCHANGED read
  BY <1>0
<1>2. /\ e.memfd \in Ages /\ e.writer \in {"NONE", "CPU", "MEMFD", "BO"}
      /\ e.layout \in 0 .. MaxSize /\ Reached(e.mm)
      /\ Shown(e.memfd, e.layout) \in Ages
  BY EnsureReaches, ShownAges
<1>3. Reached(o.mm)
  BY <1>2, SizesFacts, MapMemfdReaches
<1> QED
  BY <1>1, <1>2, <1>3 DEF TypeOK

LEMMA SyncReaches ==
  ASSUME TypeOK, MapOK(mm), NEW p \in [Backings -> Ages], NEW o \in Synced(p)
  PROVE  /\ Reached(o.mm) /\ o.px \in [Backings -> Ages]
         /\ o.writer \in {"NONE", "CPU", "MEMFD", "BO"}
<1> DEFINE same == [px |-> p, writer |-> writer, mm |-> mm]
<1>1. /\ same.px = p /\ same.writer = writer /\ same.mm = mm
      /\ \A q : [same EXCEPT !.px = q].px = q /\ [same EXCEPT !.px = q].writer = writer
                /\ [same EXCEPT !.px = q].mm = mm
      /\ \A q : [same EXCEPT !.mm = q].px = p /\ [same EXCEPT !.mm = q].writer = writer
                /\ [same EXCEPT !.mm = q].mm = q
  OBVIOUS
<1>2. \A a \in Ages : \A u \in Uploads(p, a) : u.px \in [Backings -> Ages]
  BY DEF Uploads, Backings
<1>7. /\ p["cpu"] \in Ages /\ p["memfd"] \in Ages
      /\ Shown(p["memfd"], layout) \in Ages
  BY ShownAges DEF Backings
<1>3. Reached(mm) /\ writer \in {"NONE", "CPU", "MEMFD", "BO"}
  BY MapMemfdStart DEF TypeOK
<1> HIDE DEF same
<1>4. CASE writer = "CPU" /\ p["cpu"] # "absent"
  <2>1. PICK u \in Uploads(p, p["cpu"]) : o = [same EXCEPT !.px = u.px]
    BY <1>4 DEF Synced, same
  <2> QED
    BY <1>1, <1>2, <1>3, <1>7, <2>1
<1>5. CASE writer = "MEMFD" /\ p["memfd"] # "absent" /\ geom > 0
  <2>1. PICK k \in MapMemfd(mm, geom) :
          o \in IF ~k.ok THEN {[same EXCEPT !.mm = k.mm]}
                ELSE { [px |-> u.px, mm |-> k.mm, writer |-> IF u.ok THEN "BO" ELSE writer]
                       : u \in Uploads(p, Shown(p["memfd"], layout)) }
    BY <1>5 DEF Synced, same
  <2>2. Reached(k.mm)
    BY <1>3, <1>5, SizesFacts, MapMemfdReaches
  <2>3. CASE o = [same EXCEPT !.mm = k.mm]
    BY <1>1, <1>3, <2>2, <2>3
  <2>4. ASSUME NEW u \in Uploads(p, Shown(p["memfd"], layout)),
               o = [px |-> u.px, mm |-> k.mm, writer |-> IF u.ok THEN "BO" ELSE writer]
        PROVE  /\ Reached(o.mm) /\ o.px \in [Backings -> Ages]
               /\ o.writer \in {"NONE", "CPU", "MEMFD", "BO"}
    BY <1>2, <1>3, <1>7, <2>2, <2>4
  <2> QED
    BY <2>1, <2>3, <2>4
<1>6. CASE /\ ~(writer = "CPU" /\ p["cpu"] # "absent")
           /\ ~(writer = "MEMFD" /\ p["memfd"] # "absent" /\ geom > 0)
  <2>1. o = same
    BY <1>6 DEF Synced, same
  <2> QED
    BY <1>1, <1>3, <2>1
<1> QED
  BY <1>4, <1>5, <1>6

TypeInv == TypeOK /\ MapOK(mm)

Writers == {"NONE", "CPU", "MEMFD", "BO"}

Readers == {"GetImage", "Derive", "Vpp", "Jpeg"}

(* One of the ways a reader takes the pixels.                              *)
Reads(op) ==
  \/ ReadCap(op) \/ ReadCpu(op)
  \/ \E R \in SUBSET (EnsureMemfd \cup {AsItIs}) : ReadMemfd(op, R)

LEMMA ReadsKeepTypes ==
  ASSUME TypeInv, NEW op \in Readers, Reads(op)
  PROVE  /\ Reached(mm') /\ px' \in [Backings -> Ages] /\ writer' \in Writers
         /\ layout' \in 0 .. MaxSize /\ read' \in ReadRec
<1>1. /\ px \in [Backings -> Ages] /\ writer \in Writers /\ read \in ReadRec
      /\ MapOK(mm) /\ layout \in 0 .. MaxSize
  BY DEF TypeInv, TypeOK, Writers
<1>2. \A got \in Ages : Saw(op, got) => read' \in ReadRec
  BY DEF Saw, ReadRec, Readers
<1>3. CASE ReadCap(op) \/ ReadCpu(op)
  <2>1. UNCHANGED <<px, layout, writer, mm>> /\ \E got \in Ages : Saw(op, got)
    BY <1>1, <1>3 DEF ReadCap, ReadCpu, Backings
  <2> QED
    BY <1>1, <1>2, <2>1, MapMemfdStart
<1>4. CASE \E R \in SUBSET (EnsureMemfd \cup {AsItIs}) : ReadMemfd(op, R)
  <2>1. /\ Reached(mm') /\ px' \in [Backings -> Ages] /\ writer' \in Writers
        /\ layout' \in 0 .. MaxSize
        /\ read' = read \/ \E got \in Ages : Saw(op, got)
    BY <1>4, ReadReaches DEF TypeInv, Writers
  <2> QED
    BY <1>1, <1>2, <2>1
<1> QED
  BY <1>3, <1>4 DEF Reads

LEMMA PullKeepsTypes ==
  ASSUME TypeInv, NEW n \in Sizes, PullCapture(n)
  PROVE  /\ Reached(mm') /\ px' \in [Backings -> Ages] /\ writer' \in Writers
         /\ read' \in ReadRec /\ geom' \in 0 .. MaxSize /\ layout' \in 0 .. MaxSize
         /\ hasPic' \in BOOLEAN /\ held' \in BOOLEAN /\ view' \in BOOLEAN
<1>1. /\ px \in [Backings -> Ages] /\ writer \in Writers /\ read \in ReadRec /\ MapOK(mm)
      /\ hasPic \in BOOLEAN /\ held \in BOOLEAN /\ view \in BOOLEAN
      /\ geom \in 0 .. MaxSize /\ n \in 0 .. MaxSize /\ PlaneSize \in 0 .. MaxSize
      /\ layout \in 0 .. MaxSize
  BY SizesFacts DEF TypeInv, TypeOK, Writers, Sizes
<1>2. Pulled(n) => /\ hasPic' \in BOOLEAN /\ held' \in BOOLEAN /\ geom' \in 0 .. MaxSize
                   /\ read' \in ReadRec
  BY <1>1 DEF Pulled, NoRead, ReadRec, Ages
<1>3. "cap" \in Backings /\ "bo" \in Backings /\ "memfd" \in Backings
      /\ "MEMFD" \in Writers /\ "BO" \in Writers
  BY DEF Backings, Writers
<1>4. CASE PullView(n)
  BY <1>1, <1>2, <1>3, <1>4, WrittenAges, MapMemfdStart DEF PullView
<1>5. CASE PullToBo(n)
  BY <1>1, <1>2, <1>3, <1>5, WrittenAges, MapMemfdStart DEF PullToBo
<1>6. CASE PullToMemfd(n)
  <2> DEFINE p == [px EXCEPT !["memfd"] = IF @ = "absent" THEN "blank" ELSE @]
  <2>1. p \in [Backings -> Ages]
    BY <1>1 DEF Backings, Ages
  <2>2. Written(p, "memfd") \in [Backings -> Ages]
    BY <1>3, <2>1, WrittenAges
  <2> HIDE DEF p
  <2>3. PICK o \in UNION {MapMemfd(mm, z) : z \in n .. MaxSize} :
          /\ mm' = o.mm
          /\ \/ /\ o.ok /\ Pulled(n)
                /\ writer' = "MEMFD" /\ px' = Written(p, "memfd") /\ layout' = n
             \/ /\ ~o.ok /\ px' = p /\ geom' = PlaneSize
                /\ UNCHANGED <<hasPic, held, writer, layout, read>>
    BY <1>6 DEF PullToMemfd, p
  <2>4. PICK z \in n .. MaxSize : o \in MapMemfd(mm, z)
    BY <2>3
  <2>5. z \in Sizes
    BY <2>4 DEF Sizes
  <2>6. Reached(mm')
    BY <1>1, <2>3, <2>4, <2>5, MapMemfdStart, MapMemfdReaches
  <2>7. view' = view
    BY <1>6 DEF PullToMemfd
  <2> QED
    BY <1>1, <1>2, <1>3, <2>1, <2>2, <2>3, <2>6, <2>7
<1> QED
  BY <1>4, <1>5, <1>6 DEF PullCapture

LEMMA CpuWritesTypes ==
  ASSUME px \in [Backings -> Ages]
  PROVE  /\ CpuWritten \subseteq [Backings -> Ages]
         /\ [px EXCEPT !["cpu"] = "blank"] \in [Backings -> Ages]
         /\ [px EXCEPT !["cpu"] = IF @ = "absent" THEN "blank" ELSE @] \in [Backings -> Ages]
<1>1. CpuWritten \subseteq [Backings -> Ages]
  BY CpuWrittenAges
<1> QED
  BY <1>1 DEF Backings, Ages

(* A step that changes no mapping, no image and only the variables named.  *)
LEMMA TypesSame ==
  ASSUME TypeInv, UNCHANGED <<mm, images>>,
         alive' \in BOOLEAN, held' \in BOOLEAN, view' \in BOOLEAN, hasPic' \in BOOLEAN,
         target' \in {"none", "decode", "vpp", "jpeg"}, writer' \in Writers,
         px' \in [Backings -> Ages], geom' \in 0 .. MaxSize, layout' \in 0 .. MaxSize,
         read' \in ReadRec
  PROVE  TypeInv'
BY DEF TypeInv, TypeOK, Writers

(* Borrowing and giving back leave the rest of the mapping.                *)
LEMMA BorrowedMap ==
  ASSUME NEW m, MapOK(m)
  PROVE  /\ MapOK([m EXCEPT !.borrows = @ + 1])
         /\ [m EXCEPT !.borrows = @ + 1].borrows = m.borrows + 1
         /\ [m EXCEPT !.borrows = @ + 1].map = m.map
         /\ [m EXCEPT !.borrows = @ + 1].len = m.len
         /\ [m EXCEPT !.borrows = @ + 1].retired = m.retired
         /\ [m EXCEPT !.borrows = @ + 1].mapped = m.mapped
BY DEF MapOK, MapRec

LEMMA ReturnedMap ==
  ASSUME NEW m, MapOK(m)
  PROVE  /\ MapOK(Returned(m)) /\ Returned(m).map = m.map /\ Returned(m).len = m.len
         /\ m.borrows \in Nat
         /\ Returned(m).borrows = IF m.borrows > 0 THEN m.borrows - 1 ELSE 0
         /\ m.borrows <= 1 => /\ Returned(m).retired = None
                              /\ Returned(m).mapped = m.mapped \ {m.retired}
         /\ m.borrows > 1 => /\ Returned(m).retired = m.retired
                             /\ Returned(m).mapped = m.mapped
<1>1. m \in MapRec /\ m.mapped \subseteq {m.map, m.retired} /\ m.borrows \in Nat
  BY DEF MapOK, MapRec
<1>2. CASE m.borrows <= 1
  <2> DEFINE k == [m EXCEPT !.borrows = 0, !.retired = None, !.mapped = @ \ {m.retired}]
  <2>1. Returned(m) = k
    BY <1>1, <1>2 DEF Returned
  <2>2. /\ k \in MapRec /\ k.map = m.map /\ k.len = m.len /\ k.borrows = 0
        /\ k.retired = None /\ k.mapped = m.mapped \ {m.retired}
    BY <1>1 DEF MapRec
  <2> HIDE DEF k
  <2> QED
    BY <1>1, <1>2, <2>1, <2>2 DEF MapOK
<1>3. CASE m.borrows > 1
  <2> DEFINE k == [m EXCEPT !.borrows = m.borrows - 1]
  <2>1. Returned(m) = k
    BY <1>1, <1>3 DEF Returned
  <2>2. /\ k \in MapRec /\ k.map = m.map /\ k.len = m.len /\ k.borrows = m.borrows - 1
        /\ k.retired = m.retired /\ k.mapped = m.mapped
    BY <1>1, <1>3 DEF MapRec
  <2> HIDE DEF k
  <2> QED
    BY <1>1, <1>3, <2>1, <2>2 DEF MapOK
<1> QED
  BY <1>1, <1>2, <1>3

(* The outcomes of vaDeriveImage.                                          *)
LEMMA DeriveTo ==
  ASSUME TypeInv, NEW i \in Images, DeriveImage(i)
  PROVE  \/ \* no image: the mapping could not be made, or the record
            /\ \/ Reached(mm')
               \/ /\ "calloc" \in Events
                  /\ \E k : Reached(k) /\ mm' = [k EXCEPT !.borrows = @ + 1]
            /\ UNCHANGED <<images, read>>
            /\ px' \in [Backings -> Ages] /\ writer' \in Writers
            /\ layout' \in 0 .. MaxSize
         \/ \* an image of cpu_ptr or of the slot
            /\ \E data \in {CpuPtr, Cap} :
                 NewImage(i, data) /\ (data = Cap => ExpbufWanted)
            /\ UNCHANGED <<px, layout, writer, mm>> /\ read' \in ReadRec
         \/ \* an image of the memfd
            /\ \E k : /\ Reached(k) /\ k.map \in Regions
                      /\ mm' = [k EXCEPT !.borrows = @ + 1] /\ NewImage(i, k.map)
            /\ px' \in [Backings -> Ages] /\ writer' \in Writers /\ read' \in ReadRec
            /\ layout' \in 0 .. MaxSize
<1>1. px \in [Backings -> Ages] /\ MapOK(mm)
  BY DEF TypeInv, TypeOK
<1>2. \A got \in Ages : Saw("Derive", got) => read' \in ReadRec
  BY DEF Saw, ReadRec
<1>3. CASE HasCpu /\ ~held
  <2>1. NewImage(i, CpuPtr) /\ ReadCpu("Derive")
    BY <1>3 DEF DeriveImage
  <2> QED
    BY <1>1, <1>2, <2>1 DEF ReadCpu, Backings, Cap, CpuPtr
<1>4. CASE ~(HasCpu /\ ~held) /\ HasView
  <2>1. NewImage(i, Cap) /\ ReadCap("Derive") /\ ExpbufWanted
    BY <1>4 DEF DeriveImage, HasView
  <2> QED
    BY <1>1, <1>2, <2>1 DEF ReadCap, Backings, Cap, CpuPtr
<1>5. CASE ~(HasCpu /\ ~held) /\ ~HasView
  <2>1. DeriveMemfd(i)
    BY <1>5 DEF DeriveImage
  <2>2. PICK e \in EnsureMemfd : \E o \in MapMemfd(e.mm, PlaneSize) :
          /\ px' = [px EXCEPT !["memfd"] = e.memfd]
          /\ layout' = e.layout /\ writer' = e.writer
          /\ \/ /\ ~o.ok
                /\ mm' = o.mm
                /\ UNCHANGED <<images, read>>
             \/ /\ o.ok
                /\ mm' = [o.mm EXCEPT !.borrows = @ + 1]
                /\ NewImage(i, o.mm.map) /\ Saw("Derive", Shown(e.memfd, e.layout))
             \/ /\ o.ok /\ "calloc" \in Events
                /\ mm' = [o.mm EXCEPT !.borrows = @ + 1]
                /\ UNCHANGED <<images, read>>
    BY <2>1 DEF DeriveMemfd
  <2>3. PICK o \in MapMemfd(e.mm, PlaneSize) :
          /\ px' = [px EXCEPT !["memfd"] = e.memfd]
          /\ layout' = e.layout /\ writer' = e.writer
          /\ \/ /\ ~o.ok
                /\ mm' = o.mm
                /\ UNCHANGED <<images, read>>
             \/ /\ o.ok
                /\ mm' = [o.mm EXCEPT !.borrows = @ + 1]
                /\ NewImage(i, o.mm.map) /\ Saw("Derive", Shown(e.memfd, e.layout))
             \/ /\ o.ok /\ "calloc" \in Events
                /\ mm' = [o.mm EXCEPT !.borrows = @ + 1]
                /\ UNCHANGED <<images, read>>
    BY <2>2
  <2>4. /\ e.memfd \in Ages /\ e.writer \in Writers /\ Reached(e.mm)
        /\ e.layout \in 0 .. MaxSize /\ Shown(e.memfd, e.layout) \in Ages
    BY <1>1, EnsureReaches, ShownAges DEF TypeInv, Writers
  <2>5. Reached(o.mm) /\ o.ok \in BOOLEAN /\ (o.ok => o.mm.map \in Regions)
    BY <2>4, SizesFacts, MapMemfdReaches DEF TypeInv
  <2>6. px' \in [Backings -> Ages] /\ writer' \in Writers /\ layout' \in 0 .. MaxSize
    BY <1>1, <2>3, <2>4
  <2> HIDE DEF NewImage
  <2>7. CASE ~o.ok
    BY <2>3, <2>5, <2>6, <2>7
  <2>8. CASE o.ok
    <3>1. CASE NewImage(i, o.mm.map) /\ Saw("Derive", Shown(e.memfd, e.layout))
      BY <1>2, <2>3, <2>4, <2>5, <2>6, <2>8, <3>1
    <3>2. CASE "calloc" \in Events /\ UNCHANGED <<images, read>>
      BY <2>3, <2>5, <2>6, <2>8, <3>2
    <3> QED
      BY <2>3, <2>8, <3>1, <3>2
  <2> QED
    BY <2>5, <2>7, <2>8
<1> QED
  BY <1>3, <1>4, <1>5

(* The images of an unmapped slot point nowhere; the others are as before. *)
LEMMA UnmappedTypes ==
  ASSUME images \in [Images -> ImageRec]
  PROVE  CaptureUnmapped \in [Images -> ImageRec]
BY DEF CaptureUnmapped, ImageRec

LEMMA BindTypes ==
  ASSUME TypeOK, NEW n \in Sizes, EnsureCapture(n)
  PROVE  px' \in [Backings -> Ages] /\ geom' \in 0 .. MaxSize
<1>1. PICK b \in BindCaptureExport(n) :
        /\ px' = [px EXCEPT !["cap"] = "absent", !["memfd"] = b.memfd]
        /\ geom' = b.geom
  BY DEF EnsureCapture
<1>2. px \in [Backings -> Ages] /\ geom \in 0 .. MaxSize /\ PlaneSize \in 0 .. MaxSize
      /\ n \in 0 .. MaxSize
  BY SizesFacts DEF TypeOK, Sizes
<1>3. b.memfd \in Ages /\ b.geom \in 0 .. MaxSize
  BY <1>2 DEF BindCaptureExport, Backings, Ages
<1> QED BY <1>1, <1>2, <1>3 DEF Backings, Ages

LEMMA TypeStep ==
  ASSUME TypeInv, [Next]_vars
  PROVE  TypeInv'
<1>0. /\ alive \in BOOLEAN /\ held \in BOOLEAN /\ view \in BOOLEAN /\ hasPic \in BOOLEAN
      /\ target \in {"none", "decode", "vpp", "jpeg"} /\ writer \in Writers
      /\ px \in [Backings -> Ages] /\ geom \in 0 .. MaxSize /\ read \in ReadRec
      /\ layout \in 0 .. MaxSize
      /\ MapOK(mm) /\ mm \in MapRec /\ images \in [Images -> ImageRec]
      /\ NoRead \in ReadRec /\ 0 \in 0 .. MaxSize /\ ExpbufWanted \in BOOLEAN
  <2>1. NoRead \in ReadRec
    BY DEF NoRead, ReadRec, Ages
  <2>2. 0 \in 0 .. MaxSize /\ ExpbufWanted \in BOOLEAN
    BY RegionFacts, BackingsAssumption
  <2> QED
    BY <2>1, <2>2 DEF TypeInv, TypeOK, Writers
(* The mapping has been asked for some bytes, the images are as they were. *)
<1>a. ASSUME Reached(mm'), UNCHANGED <<alive, images>>,
             held' \in BOOLEAN, view' \in BOOLEAN, hasPic' \in BOOLEAN,
             target' \in {"none", "decode", "vpp", "jpeg"}, writer' \in Writers,
             px' \in [Backings -> Ages], geom' \in 0 .. MaxSize,
             layout' \in 0 .. MaxSize, read' \in ReadRec
      PROVE  TypeInv'
  BY <1>0, <1>a DEF Reached, MapOK, TypeInv, TypeOK, Writers
<1>1. CASE CreateSurface
  <2>1. px' \in [Backings -> Ages] /\ geom' \in 0 .. MaxSize
    BY <1>0, <1>1, RegionFacts DEF CreateSurface, Backings, Ages
  <2> QED
    BY <1>0, <1>1, <2>1, TypesSame DEF CreateSurface
<1>2. CASE DestroySurface
  <2>1. MapOK(NoMap)
    BY <1>0 DEF MapOK, NoMap, MapRec, None
  <2>2. mm' = NoMap /\ writer' = "NONE" /\ target' = "none"
    BY <1>2 DEF DestroySurface
  <2>3. px' \in [Backings -> Ages]
    BY <1>2 DEF DestroySurface, Ages
  <2> QED
    BY <1>0, <1>2, <2>1, <2>2, <2>3 DEF DestroySurface, TypeInv, TypeOK, MapOK
<1>3. ASSUME NEW k \in {"decode", "vpp", "jpeg"}, BeginPicture(k) PROVE TypeInv'
  <2>1. /\ UNCHANGED <<alive, hasPic, writer, px, geom, layout, mm, images, read>>
        /\ target' = k /\ held' \in BOOLEAN /\ view' \in BOOLEAN
    BY <1>0, <1>3 DEF BeginPicture
  <2> QED
    BY <1>0, <2>1, TypesSame
<1>4. CASE DecodeFails
  BY <1>0, <1>4, TypesSame DEF DecodeFails
<1>5. ASSUME NEW n \in Sizes, PullCapture(n) PROVE TypeInv'
  <2>1. target' = "none" /\ UNCHANGED <<alive, images>>
    BY <1>5 DEF PullCapture
  <2>2. /\ Reached(mm') /\ px' \in [Backings -> Ages] /\ writer' \in Writers
        /\ read' \in ReadRec /\ geom' \in 0 .. MaxSize /\ layout' \in 0 .. MaxSize
        /\ hasPic' \in BOOLEAN /\ held' \in BOOLEAN /\ view' \in BOOLEAN
    BY <1>5, PullKeepsTypes
  <2> QED
    BY <1>a, <2>1, <2>2
<1>6. ASSUME NEW w \in {"release", "teardown"}, ReleaseSlot(w) PROVE TypeInv'
  <2>1. images' \in [Images -> ImageRec]
    BY <1>0, <1>6, UnmappedTypes DEF ReleaseSlot
  <2>2. px' \in [Backings -> Ages]
    BY <1>0, <1>6 DEF ReleaseSlot, Backings, Ages
  <2>3. /\ UNCHANGED <<alive, target, hasPic, writer, geom, layout, mm, read>>
        /\ held' = FALSE /\ view' = FALSE
    BY <1>6 DEF ReleaseSlot
  <2> QED
    BY <1>0, <2>1, <2>2, <2>3 DEF TypeInv, TypeOK, Writers
<1>17. ASSUME NEW n \in Sizes, EnsureCapture(n) PROVE TypeInv'
  <2>1. images' \in [Images -> ImageRec]
    BY <1>0, <1>17, UnmappedTypes DEF EnsureCapture
  <2>2. px' \in [Backings -> Ages] /\ geom' \in 0 .. MaxSize
    BY <1>17, BindTypes DEF TypeInv
  <2>3. /\ UNCHANGED <<alive, target, hasPic, writer, layout, mm, read>>
        /\ held' = FALSE /\ view' = FALSE
    BY <1>17 DEF EnsureCapture
  <2> QED
    BY <1>0, <2>1, <2>2, <2>3 DEF TypeInv, TypeOK, Writers
<1>7. CASE ExportCapture
  <2>1. px' \in [Backings -> Ages] /\ geom' \in 0 .. MaxSize
    BY <1>0, <1>7 DEF ExportCapture, Backings, Ages, Sizes
  <2> QED
    BY <1>0, <1>7, <2>1, TypesSame DEF ExportCapture
<1>8. CASE ExportBo
  <2> DEFINE p == [px EXCEPT !["bo"] = "blank"]
  <2>1. p \in [Backings -> Ages]
    BY <1>0 DEF Backings, Ages
  <2>2. PICK o \in Synced(p) : px' = o.px /\ writer' = o.writer /\ mm' = o.mm
    BY <1>8 DEF ExportBo
  <2> HIDE DEF p
  <2>3. /\ Reached(mm') /\ px' \in [Backings -> Ages] /\ writer' \in Writers
    BY <1>0, <2>1, <2>2, SyncReaches DEF TypeInv, Writers
  <2>4. UNCHANGED <<alive, target, held, view, hasPic, geom, layout, images, read>>
    BY <1>8 DEF ExportBo
  <2> QED
    BY <1>0, <1>a, <2>3, <2>4
<1>9. CASE PutImage
  <2>1. /\ UNCHANGED <<alive, target, held, view, hasPic, geom, layout, mm, images>>
        /\ \/ px' \in CpuWritten /\ writer' = "CPU" /\ read' = NoRead
           \/ px' = [px EXCEPT !["cpu"] = "blank"] /\ UNCHANGED <<writer, read>>
    BY <1>9 DEF PutImage
  <2>2. px' \in [Backings -> Ages] /\ writer' \in Writers /\ read' \in ReadRec
    BY <1>0, <2>1, CpuWritesTypes DEF Writers
  <2> QED
    BY <1>0, <2>1, <2>2, TypesSame
<1>10. CASE VppRun
  <2>1. /\ UNCHANGED <<alive, held, view, geom, layout, mm, images>> /\ target' = "none"
        /\ \/ /\ px' \in CpuWritten /\ writer' = "CPU" /\ hasPic' = TRUE /\ read' = NoRead
           \/ /\ px' \in {px, [px EXCEPT !["cpu"] = IF @ = "absent" THEN "blank" ELSE @]}
              /\ UNCHANGED <<writer, hasPic, read>>
    BY <1>10 DEF VppRun
  <2>2. /\ px' \in [Backings -> Ages] /\ writer' \in Writers /\ read' \in ReadRec
        /\ hasPic' \in BOOLEAN
    BY <1>0, <2>1, CpuWritesTypes DEF Writers
  <2> QED
    BY <1>0, <2>1, <2>2, TypesSame
<1>11. CASE GetImage
  <2>1. UNCHANGED <<alive, target, held, view, hasPic, geom, images>> /\ Reads("GetImage")
    BY <1>11 DEF GetImage, Reads
  <2> QED
    BY <1>0, <1>a, <2>1, ReadsKeepTypes DEF Readers
<1>12. CASE VppSource
  <2>1. UNCHANGED <<alive, target, held, view, hasPic, geom, images>> /\ Reads("Vpp")
    BY <1>12 DEF VppSource, Reads
  <2> QED
    BY <1>0, <1>a, <2>1, ReadsKeepTypes DEF Readers
<1>13. CASE JpegEncode
  <2>1. /\ UNCHANGED <<alive, held, view, hasPic, geom, images>> /\ target' = "none"
        /\ Reads("Jpeg") \/ UNCHANGED <<px, layout, writer, mm, read>>
    BY <1>13 DEF JpegEncode, Reads
  <2>2. CASE Reads("Jpeg")
    BY <1>0, <1>a, <2>1, <2>2, ReadsKeepTypes DEF Readers
  <2>3. CASE UNCHANGED <<px, layout, writer, mm, read>>
    BY <1>0, <2>1, <2>3, TypesSame
  <2> QED
    BY <2>1, <2>2, <2>3
<1>14. ASSUME NEW i \in Images, DeriveImage(i) PROVE TypeInv'
  <2>1. UNCHANGED <<alive, target, held, view, hasPic, geom>>
    BY <1>14 DEF DeriveImage
  <2>2. ASSUME NEW data \in Regions \cup {CpuPtr, Cap}, NewImage(i, data)
        PROVE  images' \in [Images -> ImageRec]
    BY <1>0, <2>2 DEF NewImage, ImageRec
  <2>3. /\ px' \in [Backings -> Ages] /\ writer' \in Writers /\ read' \in ReadRec
        /\ layout' \in 0 .. MaxSize
    BY <1>0, <1>14, DeriveTo
  <2>4. images' \in [Images -> ImageRec]
    BY <1>0, <1>14, <2>2, DeriveTo
  <2>5. MapOK(mm')
    BY <1>0, <1>14, BorrowedMap, DeriveTo DEF Reached
  <2> QED
    BY <1>0, <2>1, <2>3, <2>4, <2>5 DEF TypeInv, TypeOK, Writers, MapOK
<1>15. ASSUME NEW i \in Images, DestroyImage(i) PROVE TypeInv'
  <2>1. images' \in [Images -> ImageRec]
    BY <1>0, <1>15 DEF DestroyImage, NoImage, ImageRec
  <2>2. MapOK(mm')
    BY <1>0, <1>15, ReturnedMap DEF DestroyImage
  <2>3. UNCHANGED <<alive, target, held, view, hasPic, writer, px, geom, layout, read>>
    BY <1>15 DEF DestroyImage
  <2> QED
    BY <1>0, <2>1, <2>2, <2>3 DEF TypeInv, TypeOK, Writers, MapOK
<1>16. CASE UNCHANGED vars
  BY <1>0, <1>16, TypesSame DEF vars
<1> QED
  BY <1>1, <1>2, <1>3, <1>4, <1>5, <1>6, <1>7, <1>8, <1>9, <1>10, <1>11, <1>12,
     <1>13, <1>14, <1>15, <1>16, <1>17 DEF Next

LEMMA TypeInit ==
  ASSUME Init PROVE TypeInv
<1>1. 0 \in 0 .. MaxSize
  BY RegionFacts
<1>2. MapOK(NoMap) /\ NoImage \in ImageRec /\ NoRead \in ReadRec
  BY <1>1 DEF MapOK, NoMap, MapRec, None, NoImage, ImageRec, NoRead, ReadRec, Ages
<1>3. px \in [Backings -> Ages]
  BY DEF Init, Ages
<1> QED
  BY <1>1, <1>2, <1>3 DEF Init, TypeInv, TypeOK, MapOK

(***************************************************************************)
(* Every variable keeps a value of its kind, in both modes and under every *)
(* event: above all, a mapping of the memfd that has to grow always finds  *)
(* a region nothing points at, and its borrows never go below zero.        *)
(***************************************************************************)
THEOREM TypesKept == Spec => []TypeOK
<1>1. TypeInv /\ [Next]_vars => TypeInv'
  BY TypeStep
<1>2. Init => TypeInv
  BY TypeInit
<1>3. TypeInv => TypeOK
  BY DEF TypeInv
<1> QED BY <1>1, <1>2, <1>3, PTL DEF Spec

-----------------------------------------------------------------------------
(* Images of the memfd and its borrows, in GBM mode.                       *)

Borrowers == {i \in Images : Borrowing(i)}

(* The images of the memfd are the ones that will end a borrow, and each   *)
(* of them is counted; a record that could not be allocated leaks its own. *)
CountOK ==
  /\ \A i \in Images : images[i].live =>
       /\ images[i].data \in Regions \cup {CpuPtr}
       /\ images[i].borrow <=> images[i].data \in Regions
  /\ Cardinality(Borrowers) <= mm.borrows
  /\ "calloc" \notin Events => Cardinality(Borrowers) = mm.borrows
  /\ BorrowOK(mm)
  /\ OneGrowth => ImagesIn(mm)

CountInv == TypeInv /\ CountOK

LEMMA BorrowersFinite ==
  /\ IsFiniteSet(Borrowers) /\ Cardinality(Borrowers) \in Nat
  /\ \A i \in Images : Borrowing(i) => Cardinality(Borrowers) > 0
<1>1. IsFiniteSet(Borrowers)
  BY RegionFacts, FS_Subset DEF Borrowers
<1>2. Cardinality(Borrowers) \in Nat
  BY <1>1, FS_CardinalityType
<1>3. Cardinality(Borrowers) = 0 => Borrowers = {}
  BY <1>1, FS_EmptySet
<1>4. \A i \in Images : Borrowing(i) => i \in Borrowers
  BY DEF Borrowers
<1> QED
  BY <1>1, <1>2, <1>3, <1>4

(* A mapping that was asked for some bytes, and the same images.           *)
LEMMA CountReached ==
  ASSUME CountOK, Reached(mm'), UNCHANGED images
  PROVE  CountOK'
<1>1. (\A i \in Images : Borrowing(i)' = Borrowing(i)) /\ Borrowers' = Borrowers
  BY DEF Borrowing, Borrowers
<1>2. mm'.borrows = mm.borrows /\ BorrowOK(mm') /\ (OneGrowth => ImagesIn(mm'))
  BY DEF Reached, CountOK
<1>3. OneGrowth => ImagesIn(mm)'
  BY <1>1, <1>2 DEF ImagesIn
<1> QED
  BY <1>1, <1>2, <1>3 DEF CountOK, BorrowOK

LEMMA CountSame ==
  ASSUME CountInv, UNCHANGED <<mm, images>>
  PROVE  CountOK'
BY CountReached, MapMemfdStart DEF CountInv, TypeInv

(* An image of data that is not the memfd's.                               *)
LEMMA CountCpuImage ==
  ASSUME CountInv, NEW i \in Images, ~images[i].live, NewImage(i, CpuPtr), UNCHANGED mm
  PROVE  CountOK'
<1>1. images \in [Images -> ImageRec]
  BY DEF CountInv, TypeInv, TypeOK
<1>2. CpuPtr \notin Regions
  BY RegionFacts
<1>3. /\ images'[i].live /\ images'[i].data = CpuPtr /\ ~images'[i].borrow
      /\ \A j \in Images : j # i => images'[j] = images[j]
  BY <1>1 DEF NewImage
<1>4. \A j \in Images : Borrowing(j)' = Borrowing(j)
  BY <1>2, <1>3 DEF Borrowing
<1>5. Borrowers' = Borrowers
  BY <1>4 DEF Borrowers
<1>6. /\ \A j \in Images : images[j].live =>
           /\ images[j].data \in Regions \cup {CpuPtr}
           /\ images[j].borrow <=> images[j].data \in Regions
      /\ Cardinality(Borrowers) <= mm.borrows
      /\ "calloc" \notin Events => Cardinality(Borrowers) = mm.borrows
      /\ BorrowOK(mm)
      /\ OneGrowth => ImagesIn(mm)
  BY DEF CountInv, CountOK
<1>7. \A j \in Images : images'[j].live =>
        /\ images'[j].data \in Regions \cup {CpuPtr}
        /\ images'[j].borrow <=> images'[j].data \in Regions
  BY <1>2, <1>3, <1>6
<1>8. OneGrowth => ImagesIn(mm)'
  <2>1. \A j \in Images : Borrowing(j) => images'[j].data = images[j].data
    BY <1>3 DEF Borrowing
  <2> QED
    BY <1>4, <1>6, <2>1 DEF ImagesIn
<1> QED
  BY <1>5, <1>6, <1>7, <1>8 DEF CountOK, BorrowOK

(* An image of the current mapping.                                        *)
LEMMA CountMemfdImage ==
  ASSUME CountInv, NEW i \in Images, ~images[i].live, NEW k, Reached(k), k.map \in Regions,
         NewImage(i, k.map), mm' = [k EXCEPT !.borrows = @ + 1]
  PROVE  CountOK'
<1>1. images \in [Images -> ImageRec]
  BY DEF CountInv, TypeInv, TypeOK
<1>2. CpuPtr \notin Regions /\ None \notin Regions
  BY RegionFacts
<1>3. /\ images'[i].live /\ images'[i].data = k.map /\ images'[i].borrow
      /\ \A j \in Images : j # i => images'[j] = images[j]
  BY <1>1, <1>2 DEF NewImage
<1>4. /\ \A j \in Images : images[j].live =>
           /\ images[j].data \in Regions \cup {CpuPtr}
           /\ images[j].borrow <=> images[j].data \in Regions
      /\ Cardinality(Borrowers) <= mm.borrows
      /\ "calloc" \notin Events => Cardinality(Borrowers) = mm.borrows
      /\ BorrowOK(k) /\ k.borrows = mm.borrows /\ MapOK(k)
      /\ OneGrowth => ImagesIn(k)
  BY DEF CountInv, CountOK, Reached
<1>5. /\ mm'.borrows = k.borrows + 1 /\ mm'.map = k.map /\ mm'.len = k.len
      /\ mm'.retired = k.retired /\ mm'.mapped = k.mapped /\ k.borrows \in Nat
  BY <1>4, BorrowedMap DEF MapOK, MapRec
<1>6. Borrowing(i)' /\ ~Borrowing(i) /\ \A j \in Images : j # i => Borrowing(j)' = Borrowing(j)
  BY <1>3 DEF Borrowing
<1>7. Borrowers' = Borrowers \cup {i} /\ i \notin Borrowers
  BY <1>6 DEF Borrowers
<1>8. Cardinality(Borrowers') = Cardinality(Borrowers) + 1 /\ Cardinality(Borrowers) \in Nat
  BY <1>7, BorrowersFinite, FS_AddElement
<1>9. \A j \in Images : images'[j].live =>
        /\ images'[j].data \in Regions \cup {CpuPtr}
        /\ images'[j].borrow <=> images'[j].data \in Regions
  BY <1>3, <1>4
<1>10. OneGrowth => ImagesIn(mm)'
  <2> SUFFICES ASSUME OneGrowth PROVE ImagesIn(mm)'
    OBVIOUS
  <2>1. /\ k.map # None => k.map \in k.mapped /\ k.len > 0
        /\ k.retired # None => /\ k.retired \in k.mapped /\ k.len = MaxSize
                              /\ k.map \notin {None, k.retired}
        /\ \A j \in Images : Borrowing(j) => images[j].data \in {k.map, k.retired}
    BY <1>4 DEF ImagesIn
  <2>2. \A j \in Images : Borrowing(j)' => images'[j].data \in {k.map, k.retired}
    BY <1>3, <1>6, <2>1
  <2>3. mm'.borrows > 0
    BY <1>5
  <2> QED
    BY <1>5, <2>1, <2>2, <2>3 DEF ImagesIn
<1>11. Cardinality(Borrowers)' <= mm'.borrows
  BY <1>4, <1>5, <1>8
<1>12. "calloc" \notin Events => Cardinality(Borrowers)' = mm'.borrows
  BY <1>4, <1>5, <1>8
<1>13. BorrowOK(mm)'
  BY <1>5 DEF BorrowOK
<1> QED
  BY <1>9, <1>10, <1>11, <1>12, <1>13 DEF CountOK

(* A borrow is counted, and then there is no memory for its image.         *)
LEMMA CountLeaked ==
  ASSUME CountInv, NEW k, Reached(k), "calloc" \in Events,
         mm' = [k EXCEPT !.borrows = @ + 1], UNCHANGED images
  PROVE  CountOK'
<1>4. /\ \A j \in Images : images[j].live =>
           /\ images[j].data \in Regions \cup {CpuPtr}
           /\ images[j].borrow <=> images[j].data \in Regions
      /\ Cardinality(Borrowers) <= mm.borrows
      /\ BorrowOK(k) /\ k.borrows = mm.borrows /\ MapOK(k)
      /\ OneGrowth => ImagesIn(k)
  BY DEF CountInv, CountOK, Reached
<1>5. /\ mm'.borrows = k.borrows + 1 /\ mm'.map = k.map /\ mm'.len = k.len
      /\ mm'.retired = k.retired /\ mm'.mapped = k.mapped /\ k.borrows \in Nat
  BY <1>4, BorrowedMap DEF MapOK, MapRec
<1>6. (\A j \in Images : Borrowing(j)' = Borrowing(j)) /\ Borrowers' = Borrowers
  BY DEF Borrowing, Borrowers
<1>7. Cardinality(Borrowers)' <= mm'.borrows
  BY <1>4, <1>5, <1>6, BorrowersFinite
<1>8. OneGrowth => ImagesIn(mm)'
  BY <1>4, <1>5, <1>6 DEF ImagesIn
<1>9. BorrowOK(mm)'
  BY <1>5 DEF BorrowOK
<1> QED
  BY <1>4, <1>7, <1>8, <1>9 DEF CountOK

LEMMA CountDestroyed ==
  ASSUME CountInv, NEW i \in Images, DestroyImage(i)
  PROVE  CountOK'
<1>1. images \in [Images -> ImageRec] /\ MapOK(mm)
  BY DEF CountInv, TypeInv, TypeOK
<1>2. CpuPtr \notin Regions /\ None \notin Regions
  BY RegionFacts
<1>3. /\ images[i].live /\ ~images'[i].live
      /\ \A j \in Images : j # i => images'[j] = images[j]
      /\ mm' = IF images[i].borrow THEN Returned(mm) ELSE mm
  BY <1>1 DEF DestroyImage, NoImage
<1>4. /\ \A j \in Images : images[j].live =>
           /\ images[j].data \in Regions \cup {CpuPtr}
           /\ images[j].borrow <=> images[j].data \in Regions
      /\ Cardinality(Borrowers) <= mm.borrows
      /\ "calloc" \notin Events => Cardinality(Borrowers) = mm.borrows
      /\ BorrowOK(mm)
      /\ OneGrowth => ImagesIn(mm)
  BY DEF CountInv, CountOK
<1>5. ~Borrowing(i)' /\ \A j \in Images : j # i => Borrowing(j)' = Borrowing(j)
  BY <1>3 DEF Borrowing
<1>6. \A j \in Images : images'[j].live =>
        /\ images'[j].data \in Regions \cup {CpuPtr}
        /\ images'[j].borrow <=> images'[j].data \in Regions
  BY <1>3, <1>4
<1>7. CASE ~Borrowing(i)
  <2>1. mm' = mm
    BY <1>3, <1>4, <1>7 DEF Borrowing
  <2>2. Borrowers' = Borrowers
    BY <1>5, <1>7 DEF Borrowers
  <2>3. \A j \in Images : Borrowing(j)' => Borrowing(j) /\ images'[j].data = images[j].data
    BY <1>3, <1>5, <1>7
  <2>4. OneGrowth => ImagesIn(mm)'
    BY <1>4, <2>1, <2>3 DEF ImagesIn
  <2> QED
    BY <1>4, <1>6, <2>1, <2>2, <2>4 DEF CountOK, BorrowOK
<1>8. CASE Borrowing(i)
  <2>1. mm' = Returned(mm)
    BY <1>3, <1>4, <1>8 DEF Borrowing
  <2>2. Borrowers' = Borrowers \ {i} /\ i \in Borrowers
    BY <1>5, <1>8 DEF Borrowers
  <2>3. /\ Cardinality(Borrowers') = Cardinality(Borrowers) - 1
        /\ Cardinality(Borrowers) \in Nat /\ Cardinality(Borrowers') \in Nat
        /\ IsFiniteSet(Borrowers')
    <3>1. IsFiniteSet(Borrowers) /\ Cardinality(Borrowers) \in Nat
      BY BorrowersFinite
    <3>2. IsFiniteSet(Borrowers \ {i}) /\ Cardinality(Borrowers \ {i}) = Cardinality(Borrowers) - 1
      BY <2>2, <3>1, FS_RemoveElement
    <3>3. Cardinality(Borrowers \ {i}) \in Nat
      BY <3>2, FS_CardinalityType
    <3> QED
      BY <2>2, <3>1, <3>2, <3>3
  <2>4. /\ MapOK(mm') /\ mm'.map = mm.map /\ mm'.len = mm.len /\ mm.borrows \in Nat
        /\ mm'.borrows = IF mm.borrows > 0 THEN mm.borrows - 1 ELSE 0
        /\ mm.borrows <= 1 => mm'.retired = None /\ mm'.mapped = mm.mapped \ {mm.retired}
        /\ mm.borrows > 1 => mm'.retired = mm.retired /\ mm'.mapped = mm.mapped
    BY <1>1, <2>1, ReturnedMap
  <2>5. mm.borrows > 0 /\ mm'.borrows = mm.borrows - 1
    BY <1>4, <2>3, <2>4
  <2>6. BorrowOK(mm')
    BY <2>4, <2>5 DEF BorrowOK
  <2>7. OneGrowth => ImagesIn(mm)'
    <3> SUFFICES ASSUME OneGrowth PROVE ImagesIn(mm)'
      OBVIOUS
    <3>1. /\ mm.map # None => mm.map \in mm.mapped /\ mm.len > 0
          /\ mm.retired # None => /\ mm.retired \in mm.mapped /\ mm.len = MaxSize
                              /\ mm.map \notin {None, mm.retired}
          /\ \A j \in Images : Borrowing(j) => images[j].data \in {mm.map, mm.retired}
      BY <1>4 DEF ImagesIn
    <3>2. \A j \in Images : Borrowing(j)' => Borrowing(j) /\ images'[j].data = images[j].data
      BY <1>3, <1>5
    <3>3. CASE mm.borrows > 1
      BY <2>4, <2>5, <3>1, <3>2, <3>3 DEF ImagesIn
    <3>4. CASE mm.borrows <= 1
      <4>1. \A j \in Images : ~Borrowing(j)'
        <5>1. Cardinality(Borrowers') = 0
          BY <1>4, <2>3, <2>4, <3>4
        <5>2. Borrowers' = {}
          BY <2>3, <5>1, FS_EmptySet
        <5> QED
          BY <5>2 DEF Borrowers
      <4>2. mm.map # None => mm.map # mm.retired
        BY <3>1
      <4> QED
        BY <2>4, <3>1, <3>4, <4>1, <4>2 DEF ImagesIn
    <3> QED
      BY <2>4, <3>3, <3>4
  <2> QED
    BY <1>4, <1>6, <2>3, <2>4, <2>5, <2>6, <2>7 DEF CountOK, BorrowOK
<1> QED
  BY <1>7, <1>8

LEMMA CountStep ==
  ASSUME GbmMode, CountInv, [Next]_vars
  PROVE  CountOK'
<1>0. CountOK /\ TypeInv /\ MapOK(mm) /\ images \in [Images -> ImageRec]
  BY DEF CountInv, TypeInv, TypeOK
<1>1. CASE CreateSurface
  BY <1>1, CountSame DEF CreateSurface
<1>2. CASE DestroySurface
  <2>1. /\ \A i \in Images : ~images[i].live
        /\ mm' = NoMap /\ UNCHANGED images
    BY <1>2 DEF DestroySurface
  <2>2. \A i \in Images : ~Borrowing(i)'
    BY <2>1 DEF Borrowing
  <2>3. Borrowers' = {}
    BY <2>2 DEF Borrowers
  <2>4. Cardinality(Borrowers') = 0
    BY <2>3, FS_EmptySet
  <2>5. BorrowOK(mm)' /\ ImagesIn(mm)'
    BY <2>1, <2>2 DEF BorrowOK, ImagesIn, NoMap
  <2> QED
    BY <2>1, <2>4, <2>5 DEF CountOK, NoMap
<1>3. ASSUME NEW k \in {"decode", "vpp", "jpeg"}, BeginPicture(k) PROVE CountOK'
  BY <1>3, CountSame DEF BeginPicture
<1>4. CASE DecodeFails
  BY <1>4, CountSame DEF DecodeFails
<1>5. ASSUME NEW n \in Sizes, PullCapture(n) PROVE CountOK'
  BY <1>0, <1>5, PullKeepsTypes, CountReached DEF PullCapture
<1>b. ASSUME mm' = mm, images' \in {images, CaptureUnmapped} PROVE CountOK'
  <2>1. \A i \in Images : images[i].live => images[i].data # Cap
    BY <1>0, RegionFacts DEF CountOK, Cap, CpuPtr
  <2>2. \A i \in Images : images'[i] = images[i]
                          \/ (~images[i].live /\ ~images'[i].live)
    BY <1>0, <1>b, <2>1 DEF CaptureUnmapped, ImageRec
  <2>4. \A i \in Images : /\ Borrowing(i)' = Borrowing(i)
                          /\ Borrowing(i)' => images'[i].data = images[i].data
    BY <2>2 DEF Borrowing
  <2>5. Borrowers' = Borrowers
    BY <2>4 DEF Borrowers
  <2>6. \A i \in Images : images'[i].live => images[i].live /\ images'[i] = images[i]
    BY <2>2
  <2>7. OneGrowth => ImagesIn(mm)'
    BY <1>0, <1>b, <2>4 DEF CountOK, ImagesIn
  <2> QED
    BY <1>0, <1>b, <2>5, <2>6, <2>7 DEF CountOK, BorrowOK
<1>6. ASSUME NEW w \in {"release", "teardown"}, ReleaseSlot(w) PROVE CountOK'
  BY <1>b, <1>6 DEF ReleaseSlot
<1>17. ASSUME NEW n \in Sizes, EnsureCapture(n) PROVE CountOK'
  BY <1>b, <1>17 DEF EnsureCapture
<1>7. CASE ExportCapture
  BY <1>7 DEF ExportCapture, GbmMode
<1>8. CASE ExportBo
  <2>1. [px EXCEPT !["bo"] = "blank"] \in [Backings -> Ages]
    BY <1>0 DEF TypeInv, TypeOK, Ages
  <2>2. PICK o \in Synced([px EXCEPT !["bo"] = "blank"]) : mm' = o.mm
    BY <1>8 DEF ExportBo
  <2>3. Reached(mm')
    BY <1>0, <2>1, <2>2, SyncReaches DEF TypeInv
  <2> QED
    BY <1>0, <1>8, <2>3, CountReached DEF ExportBo
<1>9. CASE PutImage
  BY <1>9, CountSame DEF PutImage
<1>10. CASE VppRun
  BY <1>10, CountSame DEF VppRun
<1>11. CASE GetImage
  <2>1. UNCHANGED images /\ Reads("GetImage")
    BY <1>11 DEF GetImage, Reads
  <2> QED
    BY <1>0, <2>1, ReadsKeepTypes, CountReached DEF Readers
<1>12. CASE VppSource
  <2>1. UNCHANGED images /\ Reads("Vpp")
    BY <1>12 DEF VppSource, Reads
  <2> QED
    BY <1>0, <2>1, ReadsKeepTypes, CountReached DEF Readers
<1>13. CASE JpegEncode
  <2>1. UNCHANGED images /\ (Reads("Jpeg") \/ UNCHANGED mm)
    BY <1>13 DEF JpegEncode, Reads
  <2>2. CASE Reads("Jpeg")
    BY <1>0, <2>1, <2>2, ReadsKeepTypes, CountReached DEF Readers
  <2> QED
    BY <2>1, <2>2, CountSame
<1>14. ASSUME NEW i \in Images, DeriveImage(i) PROVE CountOK'
  <2>0. ~images[i].live
    BY <1>14 DEF DeriveImage
  <2>1. CASE UNCHANGED images /\ Reached(mm')
    BY <1>0, <2>1, CountReached
  <2>2. CASE /\ UNCHANGED images /\ "calloc" \in Events
             /\ \E k : Reached(k) /\ mm' = [k EXCEPT !.borrows = @ + 1]
    BY <2>2, CountLeaked
  <2>3. CASE \E data \in {CpuPtr, Cap} :
               NewImage(i, data) /\ (data = Cap => ExpbufWanted) /\ UNCHANGED mm
    BY <2>0, <2>3, CountCpuImage DEF GbmMode
  <2>4. CASE \E k : /\ Reached(k) /\ k.map \in Regions
                    /\ mm' = [k EXCEPT !.borrows = @ + 1] /\ NewImage(i, k.map)
    BY <2>0, <2>4, CountMemfdImage
  <2> QED
    BY <1>0, <1>14, <2>1, <2>2, <2>3, <2>4, DeriveTo
<1>15. ASSUME NEW i \in Images, DestroyImage(i) PROVE CountOK'
  BY <1>15, CountDestroyed
<1>16. CASE UNCHANGED vars
  BY <1>16, CountSame DEF vars
<1> QED
  BY <1>1, <1>2, <1>3, <1>4, <1>5, <1>6, <1>7, <1>8, <1>9, <1>10, <1>11, <1>12,
     <1>13, <1>14, <1>15, <1>16, <1>17 DEF Next

LEMMA CountInit ==
  ASSUME Init PROVE CountInv
<1>1. \A i \in Images : ~images[i].live
  BY DEF Init, NoImage
<1>2. Borrowers = {}
  BY <1>1 DEF Borrowers, Borrowing
<1>3. Cardinality(Borrowers) = 0
  BY <1>2, FS_EmptySet
<1>4. mm = NoMap /\ BorrowOK(mm) /\ ImagesIn(mm)
  BY <1>1 DEF Init, BorrowOK, ImagesIn, NoMap, Borrowing
<1> QED
  BY <1>1, <1>3, <1>4, TypeInit DEF CountInv, CountOK, NoMap

LEMMA CountKept ==
  ASSUME GbmMode
  PROVE  Spec => []CountInv
<1>1. CountInv /\ [Next]_vars => CountInv'
  BY CountStep, TypeStep DEF CountInv
<1>2. Init => CountInv
  BY CountInit
<1> QED BY <1>1, <1>2, PTL DEF Spec

(***************************************************************************)
(* In GBM mode, while image records can be allocated, memfd_borrows is the *)
(* number of images on the memfd, and no retired mapping outlives the last *)
(* of them.  An allocation that fails leaks a borrow, and in EXPBUF mode   *)
(* images of a CAPTURE slot end borrows they never were.                   *)
(***************************************************************************)
THEOREM BorrowsStayCounted ==
  ASSUME GbmMode, "calloc" \notin Events
  PROVE  Spec => []BorrowsCounted
<1>1. CountInv => BorrowsCounted
  <2> SUFFICES ASSUME CountInv PROVE BorrowsCounted
    OBVIOUS
  <2>1. Borrowers = {i \in Images : images[i].live /\ images[i].data \in Regions}
    BY DEF Borrowers, Borrowing
  <2>2. Cardinality(Borrowers) = mm.borrows /\ (mm.borrows = 0 => mm.retired = None)
    BY DEF CountInv, CountOK, BorrowOK
  <2> QED
    BY <2>1, <2>2 DEF BorrowsCounted
<1>2. Spec => []CountInv
  BY CountKept
<1> QED BY <1>1, <1>2, PTL

(***************************************************************************)
(* In GBM mode the data of a derived image stay mapped until it is         *)
(* destroyed, whatever else fails, when a picture can outgrow the mapping  *)
(* once: the one mapping that can be retired is kept for the images on it. *)
(* A second growth under the same images, or a failed one, loses it.       *)
(***************************************************************************)
THEOREM ImagesStayMapped ==
  ASSUME GbmMode, OneGrowth
  PROVE  Spec => []ImagesMapped
<1>1. CountInv => ImagesMapped
  <2> SUFFICES ASSUME CountInv, NEW i \in Images, images[i].live
               PROVE  images[i].data \in mm.mapped \cup {Cap, CpuPtr}
    BY DEF ImagesMapped
  <2>1. ImagesIn(mm) /\ images[i].data \in Regions \cup {CpuPtr}
    BY DEF CountInv, CountOK
  <2>2. None \notin Regions
    BY RegionFacts
  <2> QED
    BY <2>1, <2>2 DEF ImagesIn, Borrowing
<1>2. Spec => []CountInv
  BY CountKept
<1> QED BY <1>1, <1>2, PTL

-----------------------------------------------------------------------------
(* The newest picture, in GBM mode.                                        *)

(* No map of the bo fails, and no growth of the memfd mapping: the results *)
(* of v4l2sl_gbm_surface_sync and v4l2sl_surface_ensure_memfd, which no    *)
(* caller looks at, are then good.                                         *)
MapsWork == "bo_map" \notin Events /\ "mmap" \notin Events

(* A decoded picture can be copied: its geometry is known.  The bo follows *)
(* whoever writes, and a surface that got its memfd keeps it.              *)
SourceOK ==
  /\ writer \in {"BO", "MEMFD"} => hasPic /\ geom > 0
  /\ DisplayFresh
  /\ ("memfd" \notin Events /\ alive) => px["memfd"] # "absent"

FreshInv == TypeInv /\ WriterInv /\ SourceOK

(* What each backing is worth to a reader.                                 *)
LEMMA FreshFacts ==
  ASSUME FreshInv
  PROVE  /\ MapOK(mm) /\ px \in [Backings -> Ages] /\ writer \in Writers
         /\ read \in ReadRec /\ geom \in 0 .. MaxSize
         /\ px["memfd"] = "cur" => layout = geom /\ geom # 0
         /\ writer = "CPU" => px["cpu"] = "cur"
         /\ writer = "BO" => px["bo"] = "cur"
         /\ writer = "MEMFD" => px["memfd"] = "cur"
         /\ writer \in {"BO", "MEMFD"} => hasPic /\ geom \in Sizes
         /\ (px["bo"] # "absent" /\ writer # "NONE") => px["bo"] = "cur"
         /\ ("memfd" \notin Events /\ alive) => px["memfd"] # "absent"
         /\ ~alive => writer = "NONE" /\ target = "none"
<1>1. TypeOK /\ MapOK(mm) /\ PixelsOK /\ DeadIsBlank /\ SourceOK
  BY DEF FreshInv, TypeInv, WriterInv
<1>2. geom > 0 => geom \in Sizes
  BY <1>1, SizesFacts
<1> QED
  BY <1>1, <1>2 DEF TypeOK, PixelsOK, LastWriterTruthful, LayoutOK, DeadIsBlank,
                    SourceOK, DisplayFresh, Writers

(* A refill is from the bo, or there is none.                              *)
LEMMA RefillFrom ==
  ASSUME NEW e \in EnsureMemfd \cup {AsItIs}
  PROVE  \/ e.memfd = px["memfd"] /\ e.writer = writer
         \/ e.memfd = px["bo"] /\ e.writer = "MEMFD" /\ writer = "BO"
<1>1. CASE e = AsItIs
  BY <1>1 DEF AsItIs
<1>2. CASE e # AsItIs
  <2>1. writer = "BO"
    BY <1>2 DEF EnsureMemfd
  <2>2. PICK o \in MapMemfd(mm, geom) :
          e = IF o.ok
                THEN [memfd |-> px["bo"], layout |-> geom, writer |-> "MEMFD", mm |-> o.mm]
                ELSE [AsItIs EXCEPT !.mm = o.mm]
    BY <1>2 DEF EnsureMemfd
  <2>3. /\ [AsItIs EXCEPT !.mm = o.mm].memfd = px["memfd"]
        /\ [AsItIs EXCEPT !.mm = o.mm].writer = writer
    BY DEF AsItIs
  <2> QED
    BY <2>1, <2>2, <2>3
<1> QED
  BY <1>1, <1>2

(* ... and the memfd then holds the newest picture, unless it is in        *)
(* cpu_ptr.                                                                *)
LEMMA RefillFresh ==
  ASSUME FreshInv, MapsWork, px["memfd"] # "absent", writer \notin {"CPU", "NONE"},
         NEW e \in EnsureMemfd
  PROVE  /\ e.memfd = "cur" /\ e.writer = "MEMFD"
         /\ Shown(e.memfd, e.layout) = "cur"
<1>3. "cur" \in Ages
  BY DEF Ages
<1>1. CASE writer = "MEMFD"
  <2>1. e = AsItIs /\ px["memfd"] = "cur" /\ layout = geom /\ geom # 0
    BY <1>1, FreshFacts DEF EnsureMemfd
  <2>2. e.memfd = "cur" /\ e.writer = "MEMFD" /\ e.layout = geom
    BY <1>1, <2>1 DEF AsItIs
  <2> QED
    BY <1>3, <2>1, <2>2, ShownAges
<1>2. CASE writer = "BO"
  <2>1. px["bo"] = "cur" /\ geom \in Sizes /\ geom # 0 /\ MapOK(mm)
    BY <1>2, FreshFacts, RegionFacts DEF Sizes
  <2>2. PICK o \in MapMemfd(mm, geom) :
          e = IF o.ok
                THEN [memfd |-> px["bo"], layout |-> geom, writer |-> "MEMFD", mm |-> o.mm]
                ELSE [AsItIs EXCEPT !.mm = o.mm]
    BY <1>2, <2>1 DEF EnsureMemfd, MapsWork
  <2>3. o.ok
    BY <2>1, MapMemfdTo DEF MapsWork
  <2>4. e.memfd = "cur" /\ e.writer = "MEMFD" /\ e.layout = geom
    BY <2>1, <2>2, <2>3
  <2> QED
    BY <1>3, <2>1, <2>4, ShownAges
<1> QED
  BY <1>1, <1>2, FreshFacts DEF Writers

(* Readers leave the sources as good as they were.                         *)
LEMMA RefillKeepsSources ==
  ASSUME FreshInv, NEW e \in EnsureMemfd \cup {AsItIs},
         px' = [px EXCEPT !["memfd"] = e.memfd], writer' = e.writer,
         UNCHANGED <<alive, hasPic, geom>>
  PROVE  SourceOK'
<1>1. /\ px'["memfd"] = e.memfd /\ px'["bo"] = px["bo"]
      /\ px'["cpu"] = px["cpu"] /\ px'["cap"] = px["cap"]
  BY FreshFacts DEF Backings
<1>2. writer' = writer \/ (writer = "BO" /\ writer' = "MEMFD")
  BY RefillFrom
<1>3. ("memfd" \notin Events /\ alive) => e.memfd # "absent"
  BY FreshFacts, RefillFrom
<1> QED
  BY <1>1, <1>2, <1>3 DEF FreshInv, SourceOK, DisplayFresh

LEMMA ReadsKeepSources ==
  ASSUME FreshInv, NEW op, Reads(op), UNCHANGED <<alive, hasPic, geom>>
  PROVE  SourceOK'
<1>1. CASE ReadCap(op) \/ ReadCpu(op)
  BY <1>1 DEF ReadCap, ReadCpu, FreshInv, SourceOK, DisplayFresh
<1>2. CASE \E R \in SUBSET (EnsureMemfd \cup {AsItIs}) : ReadMemfd(op, R)
  <2>1. PICK e \in EnsureMemfd \cup {AsItIs} :
          px' = [px EXCEPT !["memfd"] = e.memfd] /\ writer' = e.writer
    BY <1>2 DEF ReadMemfd
  <2> QED
    BY <2>1, RefillKeepsSources
<1> QED
  BY <1>1, <1>2 DEF Reads

(* Pixels written to cpu_ptr reach the bo at once.                         *)
LEMMA CpuWritesSources ==
  ASSUME FreshInv, MapsWork, px' \in CpuWritten, writer' = "CPU", UNCHANGED alive
  PROVE  SourceOK'
<1> DEFINE w == Written(px, "cpu")
<1>1. /\ w \in [Backings -> Ages] /\ w["cpu"] = "cur"
      /\ px["bo"] = "absent" => w["bo"] = "absent"
      /\ px["memfd"] # "absent" => w["memfd"] # "absent"
  BY FreshFacts DEF Written, Backings, Ages
<1> HIDE DEF w
<1>2. CASE w["bo"] = "absent"
  <2>1. px' = w
    BY <1>2 DEF CpuWritten, w
  <2> QED
    BY <1>1, <1>2, <2>1 DEF FreshInv, SourceOK, DisplayFresh
<1>3. CASE w["bo"] # "absent"
  <2>1. px' = [w EXCEPT !["bo"] = w["cpu"]]
    BY <1>3 DEF CpuWritten, w, Uploads, MapsWork
  <2>2. px'["bo"] = "cur" /\ px'["memfd"] = w["memfd"]
    BY <1>1, <2>1 DEF Backings
  <2> QED
    BY <1>1, <2>2 DEF FreshInv, SourceOK, DisplayFresh
<1> QED
  BY <1>2, <1>3

LEMMA PullSources ==
  ASSUME GbmMode, FreshInv, MapsWork, NEW n \in Sizes, PullCapture(n)
  PROVE  SourceOK'
<1>1. alive' = alive /\ px \in [Backings -> Ages] /\ n > 0
  BY FreshFacts DEF PullCapture, Sizes
<1>2. CASE PullView(n)
  BY <1>2 DEF PullView, GbmMode
<1>3. CASE PullToBo(n)
  <2>1. hasPic' /\ geom' = n /\ writer' = "BO" /\ px' = Written(px, "bo")
    BY <1>3 DEF PullToBo, Pulled
  <2>2. px'["bo"] = "cur" /\ (px["memfd"] # "absent" => px'["memfd"] # "absent")
    BY <1>1, <2>1 DEF Written, Backings, Ages
  <2> QED
    BY <1>1, <2>1, <2>2 DEF FreshInv, SourceOK, DisplayFresh
<1>4. CASE PullToMemfd(n)
  <2> DEFINE p == [px EXCEPT !["memfd"] = IF @ = "absent" THEN "blank" ELSE @]
  <2>1. p \in [Backings -> Ages] /\ p["memfd"] # "absent" /\ p["bo"] = "absent"
    BY <1>1, <1>4 DEF PullToMemfd, Backings, Ages, MapsWork
  <2>2. PICK o \in UNION {MapMemfd(mm, z) : z \in n .. MaxSize} :
          \/ o.ok /\ Pulled(n) /\ writer' = "MEMFD" /\ px' = Written(p, "memfd")
          \/ ~o.ok
    BY <1>4 DEF PullToMemfd
  <2>3. PICK z \in n .. MaxSize : o \in MapMemfd(mm, z)
    BY <2>2
  <2>4. o.ok
    BY <2>3, MapMemfdTo, FreshFacts DEF Sizes, MapsWork
  <2> HIDE DEF p
  <2>5. /\ hasPic' /\ geom' = n /\ writer' = "MEMFD"
        /\ px'["bo"] = "absent" /\ px'["memfd"] # "absent"
    BY <2>1, <2>2, <2>4 DEF Pulled, Written, Backings
  <2> QED
    BY <1>1, <2>5 DEF SourceOK, DisplayFresh
<1> QED
  BY <1>2, <1>3, <1>4 DEF PullCapture

(* A bo just created gets the newest picture.                              *)
LEMMA ExportSources ==
  ASSUME GbmMode, FreshInv, MapsWork, ExportBo
  PROVE  SourceOK'
<1> DEFINE p == [px EXCEPT !["bo"] = "blank"]
<1>1. /\ p \in [Backings -> Ages] /\ p["cpu"] = px["cpu"]
      /\ p["memfd"] = px["memfd"] /\ p["bo"] = "blank"
  BY FreshFacts DEF Backings, Ages
<1>2. px["bo"] = "absent" /\ writer # "BO" /\ UNCHANGED <<alive, hasPic, geom>>
  BY FreshFacts DEF ExportBo
<1>3. PICK o \in Synced(p) : px' = o.px /\ writer' = o.writer
  BY DEF ExportBo
<1> HIDE DEF p
<1>4. CASE writer = "NONE"
  <2>1. px' = p /\ writer' = "NONE"
    BY <1>3, <1>4 DEF Synced
  <2> QED
    BY <1>1, <1>2, <2>1 DEF FreshInv, SourceOK, DisplayFresh
<1>5. CASE writer = "CPU"
  <2>1. p["cpu"] = "cur"
    BY <1>1, <1>5, FreshFacts
  <2>2. px' = [p EXCEPT !["bo"] = p["cpu"]] /\ writer' = "CPU"
    BY <1>3, <1>5, <2>1 DEF Synced, Uploads, MapsWork
  <2>3. px'["bo"] = "cur" /\ px'["memfd"] = px["memfd"]
    BY <1>1, <2>1, <2>2 DEF Backings
  <2> QED
    BY <1>2, <2>2, <2>3 DEF FreshInv, SourceOK, DisplayFresh
<1>6. CASE writer = "MEMFD"
  <2>1. p["memfd"] = "cur" /\ geom \in Sizes /\ geom > 0 /\ MapOK(mm) /\ hasPic
    BY <1>1, <1>6, FreshFacts DEF Sizes
  <2>2. \A k \in MapMemfd(mm, geom) : k.ok
    BY <2>1, MapMemfdTo DEF MapsWork
  <2>8. Shown(p["memfd"], layout) = "cur"
    <3>1. "cur" \in Ages /\ layout = geom /\ geom # 0
      BY <1>1, <2>1, FreshFacts DEF Ages
    <3> QED
      BY <2>1, <3>1, ShownAges
  <2>5. PICK k \in MapMemfd(mm, geom) : \E u \in Uploads(p, "cur") :
          o = [px |-> u.px, mm |-> k.mm, writer |-> IF u.ok THEN "BO" ELSE writer]
    BY <1>3, <1>6, <2>1, <2>2, <2>8 DEF Synced
  <2>6. PICK u \in Uploads(p, "cur") :
          o = [px |-> u.px, mm |-> k.mm, writer |-> IF u.ok THEN "BO" ELSE writer]
    BY <2>5
  <2>7. u.ok = TRUE /\ u.px = [p EXCEPT !["bo"] = "cur"]
    BY DEF Uploads, MapsWork
  <2>3. px' = [p EXCEPT !["bo"] = "cur"] /\ writer' = "BO"
    BY <1>3, <2>6, <2>7
  <2>4. px'["bo"] = "cur" /\ px'["memfd"] = px["memfd"]
    BY <1>1, <2>1, <2>3 DEF Backings
  <2> QED
    BY <1>2, <2>1, <2>3, <2>4 DEF FreshInv, SourceOK, DisplayFresh
<1> QED
  BY <1>2, <1>4, <1>5, <1>6, FreshFacts DEF Writers

(* A new queue leaves the sources where they were, and a known geometry.   *)
LEMMA BindSources ==
  ASSUME FreshInv, NEW n \in Sizes, EnsureCapture(n)
  PROVE  SourceOK'
<1>1. PICK b \in BindCaptureExport(n) :
        /\ px' = [px EXCEPT !["cap"] = "absent", !["memfd"] = b.memfd]
        /\ geom' = b.geom
  BY DEF EnsureCapture
<1>2. UNCHANGED <<alive, hasPic, writer>>
  BY DEF EnsureCapture
<1>3. n > 0 /\ PlaneSize > 0
  BY SizesFacts DEF FreshInv, TypeInv, Sizes
<1>4. /\ geom > 0 => b.geom > 0
      /\ px["memfd"] # "absent" => b.memfd # "absent"
  BY <1>3 DEF BindCaptureExport
<1>5. px'["memfd"] = b.memfd /\ px'["bo"] = px["bo"]
  BY <1>1, FreshFacts DEF Backings
<1> QED
  BY <1>1, <1>2, <1>4, <1>5 DEF FreshInv, SourceOK, DisplayFresh

LEMMA SourceStep ==
  ASSUME GbmMode, MapsWork, FreshInv, [Next]_vars
  PROVE  SourceOK'
<1>0. /\ SourceOK /\ px \in [Backings -> Ages] /\ writer \in Writers
      /\ ~alive => writer = "NONE"
  BY FreshFacts DEF FreshInv
<1>a. ASSUME UNCHANGED <<alive, hasPic, writer, geom>>,
             px'["bo"] = px["bo"], px'["memfd"] = px["memfd"]
      PROVE  SourceOK'
  BY <1>0, <1>a DEF SourceOK, DisplayFresh
<1>1. CASE CreateSurface
  BY <1>0, <1>1 DEF CreateSurface, SourceOK, DisplayFresh, Backings
<1>2. CASE DestroySurface
  BY <1>2 DEF DestroySurface, SourceOK, DisplayFresh
<1>3. ASSUME NEW k \in {"decode", "vpp", "jpeg"}, BeginPicture(k) PROVE SourceOK'
  BY <1>a, <1>3 DEF BeginPicture
<1>4. CASE DecodeFails
  BY <1>a, <1>4 DEF DecodeFails
<1>5. ASSUME NEW n \in Sizes, PullCapture(n) PROVE SourceOK'
  BY <1>5, PullSources
<1>6. ASSUME NEW w \in {"release", "teardown"}, ReleaseSlot(w) PROVE SourceOK'
  BY <1>0, <1>a, <1>6 DEF ReleaseSlot, Backings
<1>17. ASSUME NEW n \in Sizes, EnsureCapture(n) PROVE SourceOK'
  BY <1>17, BindSources
<1>7. CASE ExportCapture
  BY <1>7 DEF ExportCapture, GbmMode
<1>8. CASE ExportBo
  BY <1>8, ExportSources
<1>9. CASE PutImage
  <2>1. CASE px' \in CpuWritten /\ writer' = "CPU"
    BY <1>9, <2>1, CpuWritesSources DEF PutImage
  <2>2. CASE px' = [px EXCEPT !["cpu"] = "blank"] /\ UNCHANGED writer
    BY <1>0, <1>a, <1>9, <2>2 DEF PutImage, Backings
  <2> QED
    BY <1>9, <2>1, <2>2 DEF PutImage
<1>10. CASE VppRun
  <2>1. CASE px' \in CpuWritten /\ writer' = "CPU"
    BY <1>10, <2>1, CpuWritesSources DEF VppRun
  <2>2. CASE /\ px' \in {px, [px EXCEPT !["cpu"] = IF @ = "absent" THEN "blank" ELSE @]}
             /\ UNCHANGED <<writer, hasPic>>
    BY <1>0, <1>a, <1>10, <2>2 DEF VppRun, Backings
  <2> QED
    BY <1>10, <2>1, <2>2 DEF VppRun
<1>11. CASE GetImage
  <2>1. UNCHANGED <<alive, hasPic, geom>> /\ Reads("GetImage")
    BY <1>11 DEF GetImage, Reads
  <2> QED
    BY <2>1, ReadsKeepSources
<1>12. CASE VppSource
  <2>1. UNCHANGED <<alive, hasPic, geom>> /\ Reads("Vpp")
    BY <1>12 DEF VppSource, Reads
  <2> QED
    BY <2>1, ReadsKeepSources
<1>13. CASE JpegEncode
  <2>1. UNCHANGED <<alive, hasPic, geom>> /\ (Reads("Jpeg") \/ UNCHANGED <<px, writer>>)
    BY <1>13 DEF JpegEncode, Reads
  <2> QED
    BY <1>a, <2>1, ReadsKeepSources
<1>14. ASSUME NEW i \in Images, DeriveImage(i) PROVE SourceOK'
  <2>1. UNCHANGED <<alive, hasPic, geom>>
    BY <1>14 DEF DeriveImage
  <2>2. CASE ReadCpu("Derive") \/ ReadCap("Derive")
    BY <2>1, <2>2, ReadsKeepSources DEF Reads
  <2>3. CASE DeriveMemfd(i)
    <3>1. PICK e \in EnsureMemfd :
            px' = [px EXCEPT !["memfd"] = e.memfd] /\ writer' = e.writer
      BY <2>3 DEF DeriveMemfd
    <3> QED
      BY <2>1, <3>1, RefillKeepsSources
  <2> QED
    BY <1>14, <2>2, <2>3 DEF DeriveImage
<1>15. ASSUME NEW i \in Images, DestroyImage(i) PROVE SourceOK'
  BY <1>a, <1>15 DEF DestroyImage
<1>16. CASE UNCHANGED vars
  BY <1>a, <1>16 DEF vars
<1> QED
  BY <1>1, <1>2, <1>3, <1>4, <1>5, <1>6, <1>7, <1>8, <1>9, <1>10, <1>11, <1>12,
     <1>13, <1>14, <1>15, <1>16, <1>17 DEF Next

LEMMA FreshInit ==
  ASSUME Init PROVE FreshInv
<1>1. SourceOK
  BY DEF Init, SourceOK, DisplayFresh
<1> QED
  BY <1>1, TypeInit, WriterInit DEF FreshInv

LEMMA FreshStep ==
  ASSUME GbmMode, MapsWork, LayoutKept, FreshInv, [Next]_vars
  PROVE  FreshInv'
BY TypeStep, WriterStep, SourceStep DEF FreshInv

(***************************************************************************)
(* In GBM mode, while bo maps and memfd growth work, a client that shows   *)
(* the exported bo sees the newest picture: whoever wrote it, and whenever *)
(* the surface was exported.  A failed copy is not noticed by its callers. *)
(* Contexts that list the surface may set queues up and bind it to them,   *)
(* in another geometry than the memfd's only while the newest picture is   *)
(* elsewhere: the first export would copy that picture in the new one.     *)
(***************************************************************************)
THEOREM DisplayStaysFresh ==
  ASSUME GbmMode, MapsWork, LayoutKept
  PROVE  Spec => []DisplayFresh
<1>1. FreshInv /\ [Next]_vars => FreshInv'
  BY FreshStep
<1>2. Init => FreshInv
  BY FreshInit
<1>3. FreshInv => DisplayFresh
  BY DEF FreshInv, SourceOK
<1> QED BY <1>1, <1>2, <1>3, PTL DEF Spec

(* A step that is not a read by op leaves what op saw, or forgets it; what *)
(* it leaves is as new as it was.                                          *)
Unread(op) ==
  \/ read'.op # op
  \/ read' = read /\ (writer' # "NONE" => writer # "NONE")

LEMMA ReadsByOthers ==
  ASSUME NEW by, NEW op, by # op, Reads(by)
  PROVE  Unread(op)
<1>1. \A got : Saw(by, got) => read'.op # op
  BY DEF Saw
<1>2. CASE ReadCap(by) \/ ReadCpu(by)
  BY <1>1, <1>2 DEF ReadCap, ReadCpu, Unread
<1>3. CASE \E R \in SUBSET (EnsureMemfd \cup {AsItIs}) : ReadMemfd(by, R)
  <2>1. PICK e \in EnsureMemfd \cup {AsItIs} :
          /\ writer' = e.writer
          /\ Saw(by, Shown(e.memfd, e.layout)) \/ UNCHANGED read
    BY <1>3 DEF ReadMemfd
  <2>2. writer' # "NONE" => writer # "NONE"
    BY <2>1, RefillFrom
  <2> QED
    BY <1>1, <2>1, <2>2 DEF Unread
<1> QED
  BY <1>2, <1>3 DEF Reads

LEMMA StepsUnread ==
  ASSUME [Next]_vars, NEW op \in {"GetImage", "Derive"}
  PROVE  \/ Unread(op)
         \/ op = "GetImage" /\ GetImage
         \/ op = "Derive" /\ \E i \in Images : DeriveImage(i)
<1>0. NoRead.op # op
  BY DEF NoRead
<1>1. CASE CreateSurface
  BY <1>1 DEF CreateSurface, Unread
<1>2. CASE DestroySurface
  BY <1>0, <1>2 DEF DestroySurface, Unread
<1>3. ASSUME NEW k \in {"decode", "vpp", "jpeg"}, BeginPicture(k) PROVE Unread(op)
  BY <1>3 DEF BeginPicture, Unread
<1>4. CASE DecodeFails
  BY <1>4 DEF DecodeFails, Unread
<1>5. ASSUME NEW n \in Sizes, PullCapture(n) PROVE Unread(op)
  <2>1. read' = NoRead \/ UNCHANGED <<writer, read>>
    <3> HIDE DEF NoRead
    <3> QED
      BY <1>5 DEF PullCapture, PullView, PullToBo, PullToMemfd, Pulled
  <2> QED
    BY <1>0, <2>1 DEF Unread
<1>6. ASSUME NEW w \in {"release", "teardown"}, ReleaseSlot(w) PROVE Unread(op)
  BY <1>6 DEF ReleaseSlot, Unread
<1>17. ASSUME NEW n \in Sizes, EnsureCapture(n) PROVE Unread(op)
  BY <1>17 DEF EnsureCapture, Unread
<1>7. CASE ExportCapture
  BY <1>7 DEF ExportCapture, Unread
<1>8. CASE ExportBo
  <2>1. PICK o \in Synced([px EXCEPT !["bo"] = "blank"]) : writer' = o.writer
    BY <1>8 DEF ExportBo
  <2>2. writer = "NONE" => o.writer = "NONE"
    BY <2>1 DEF Synced
  <2> QED
    BY <1>8, <2>1, <2>2 DEF ExportBo, Unread
<1>9. CASE PutImage
  BY <1>0, <1>9 DEF PutImage, Unread
<1>10. CASE VppRun
  BY <1>0, <1>10 DEF VppRun, Unread
<1>11. CASE GetImage
  <2>1. Reads("GetImage")
    BY <1>11 DEF GetImage, Reads
  <2> QED
    BY <1>11, <2>1, ReadsByOthers
<1>12. CASE VppSource
  <2>1. Reads("Vpp")
    BY <1>12 DEF VppSource, Reads
  <2> QED
    BY <2>1, ReadsByOthers
<1>13. CASE JpegEncode
  <2>1. Reads("Jpeg") \/ UNCHANGED <<writer, read>>
    BY <1>13 DEF JpegEncode, Reads
  <2>2. CASE Reads("Jpeg")
    BY <2>2, ReadsByOthers
  <2> QED
    BY <2>1, <2>2 DEF Unread
<1>14. ASSUME NEW i \in Images, DeriveImage(i), op = "GetImage" PROVE Unread(op)
  <2>1. CASE ReadCpu("Derive") \/ ReadCap("Derive")
    BY <1>14, <2>1, ReadsByOthers DEF Reads
  <2>2. CASE DeriveMemfd(i)
    <3>1. PICK e \in EnsureMemfd :
            /\ writer' = e.writer
            /\ Saw("Derive", Shown(e.memfd, e.layout)) \/ UNCHANGED read
      BY <2>2 DEF DeriveMemfd
    <3>2. writer' # "NONE" => writer # "NONE"
      BY <3>1, RefillFrom
    <3> QED
      BY <1>14, <3>1, <3>2 DEF Unread, Saw
  <2> QED
    BY <1>14, <2>1, <2>2 DEF DeriveImage
<1>15. ASSUME NEW i \in Images, DestroyImage(i) PROVE Unread(op)
  BY <1>15 DEF DestroyImage, Unread
<1>16. CASE UNCHANGED vars
  BY <1>16 DEF vars, Unread
<1> QED
  BY <1>1, <1>2, <1>3, <1>4, <1>5, <1>6, <1>7, <1>8, <1>9, <1>10, <1>11, <1>12,
     <1>13, <1>14, <1>15, <1>16, <1>17 DEF Next

LEMMA UnreadKeeps ==
  ASSUME NEW op, Fresh(op), Unread(op)
  PROVE  (read'.op = op /\ writer' # "NONE") => read'.got = "cur"
BY DEF Fresh, Unread

LEMMA GetImageReads ==
  ASSUME GbmMode, MapsWork, "memfd" \notin Events, FreshInv, GetImageFresh, GetImage
  PROVE  GetImageFresh'
<1>0. ~HasView /\ alive /\ px["memfd"] # "absent" /\ px["memfd"] \in Ages
  BY FreshFacts DEF HasView, GbmMode, GetImage, Backings
<1>1. CASE writer = "CPU" /\ HasCpu
  <2>1. ReadCpu("GetImage") /\ px["cpu"] = "cur"
    BY <1>0, <1>1, FreshFacts DEF GetImage
  <2> QED
    BY <2>1 DEF ReadCpu, Saw, GetImageFresh, Fresh
<1>2. CASE ~(writer = "CPU" /\ HasCpu)
  <2>1. ReadMemfd("GetImage", IF hasPic THEN EnsureMemfd ELSE {AsItIs})
    BY <1>0, <1>2 DEF GetImage
  <2>2. PICK e \in (IF hasPic THEN EnsureMemfd ELSE {AsItIs}) :
          /\ writer' = e.writer
          /\ Saw("GetImage", Shown(e.memfd, e.layout)) \/ UNCHANGED read
    BY <2>1 DEF ReadMemfd
  <2>3. writer # "CPU"
    BY <1>2, FreshFacts DEF HasCpu
  <2>4. CASE writer = "NONE"
    <3>1. writer' = "NONE"
      BY <2>2, <2>4, RefillFrom
    <3> QED
      BY <3>1 DEF GetImageFresh, Fresh
  <2>5. CASE writer # "NONE"
    <3>1. hasPic
      BY <2>3, <2>5, FreshFacts DEF Writers
    <3>2. Shown(e.memfd, e.layout) = "cur"
      BY <1>0, <2>2, <2>3, <2>5, <3>1, RefillFresh
    <3> QED
      BY <2>2, <2>5, <3>2 DEF Saw, GetImageFresh, Fresh
  <2> QED
    BY <2>4, <2>5
<1> QED
  BY <1>1, <1>2

(***************************************************************************)
(* In GBM mode, while bo maps and memfd growth work and the surface got    *)
(* its memfd, vaGetImage returns the newest picture: from cpu_ptr, from    *)
(* the memfd, or from the bo by way of the memfd.  Without a memfd it      *)
(* takes cpu_ptr, however old that is; and a picture that a new queue of   *)
(* another geometry has found in the memfd is read in that one (see        *)
(* LayoutKept), as the bo's never is.                                      *)
(***************************************************************************)
THEOREM GetImageStaysFresh ==
  ASSUME GbmMode, MapsWork, LayoutKept, "memfd" \notin Events
  PROVE  Spec => []GetImageFresh
<1> DEFINE GInv == FreshInv /\ GetImageFresh
<1>1. GInv /\ [Next]_vars => GInv'
  <2> SUFFICES ASSUME FreshInv, GetImageFresh, [Next]_vars PROVE GInv'
    OBVIOUS
  <2>1. CASE GetImage
    BY <2>1, GetImageReads, FreshStep
  <2>2. CASE Unread("GetImage")
    <3>1. (read'.op = "GetImage" /\ writer' # "NONE") => read'.got = "cur"
      BY <2>2, UnreadKeeps DEF GetImageFresh
    <3> QED
      BY <3>1, FreshStep DEF GetImageFresh, Fresh
  <2> QED
    BY <2>1, <2>2, StepsUnread
<1>2. Init => GInv
  BY FreshInit DEF Init, GetImageFresh, Fresh, NoRead
<1>3. GInv => GetImageFresh
  OBVIOUS
<1> QED BY <1>1, <1>2, <1>3, PTL DEF Spec

-----------------------------------------------------------------------------
(* Derived images show the newest picture, of surfaces that are only       *)
(* decoded to.                                                             *)

OnlyDecoded == {"put", "vpp"} \cap Events = {}

(* Nobody has written the surface on the CPU, or is about to.              *)
NoCpu == px["cpu"] = "absent" /\ target # "vpp"

(* The sync of a bo changes nothing else.                                  *)
LEMMA SyncOnlyBo ==
  ASSUME NEW p \in [Backings -> Ages], NEW o \in Synced(p)
  PROVE  /\ o.px["cpu"] = p["cpu"] /\ o.px["cap"] = p["cap"]
         /\ writer = "NONE" => o.writer = "NONE"
<1>1. \A a : \A u \in Uploads(p, a) :
        u.px["cpu"] = p["cpu"] /\ u.px["cap"] = p["cap"]
  BY DEF Uploads, Backings
<1>2. CASE writer = "MEMFD" /\ p["memfd"] # "absent" /\ geom > 0
  <2>1. PICK k \in MapMemfd(mm, geom) :
          o \in IF ~k.ok THEN {[px |-> p, writer |-> writer, mm |-> k.mm]}
                ELSE { [px |-> u.px, mm |-> k.mm, writer |-> IF u.ok THEN "BO" ELSE writer]
                       : u \in Uploads(p, Shown(p["memfd"], layout)) }
    BY <1>2 DEF Synced
  <2>2. o.px = p \/ \E u \in Uploads(p, Shown(p["memfd"], layout)) : o.px = u.px
    BY <2>1
  <2> QED
    BY <1>1, <1>2, <2>2
<1>3. CASE ~(writer = "MEMFD" /\ p["memfd"] # "absent" /\ geom > 0)
  <2>1. (o.px = p \/ \E u \in Uploads(p, p["cpu"]) : o.px = u.px) /\ o.writer = writer
    BY <1>3 DEF Synced
  <2> QED
    BY <1>1, <2>1
<1> QED
  BY <1>2, <1>3

LEMMA NoCpuStep ==
  ASSUME OnlyDecoded, TypeInv, NoCpu, [Next]_vars
  PROVE  NoCpu'
<1>0. px \in [Backings -> Ages] /\ "put" \notin Events /\ "vpp" \notin Events
  BY DEF TypeInv, TypeOK, OnlyDecoded
<1>a. \A p \in [Backings -> Ages] : \A b \in Backings \ {"cpu"} : \A a :
        [p EXCEPT ![b] = a]["cpu"] = p["cpu"]
  BY DEF Backings
<1>b. {"memfd", "bo", "cap"} = Backings \ {"cpu"}
  BY DEF Backings
<1>c. \A p \in [Backings -> Ages] : \A b \in Backings \ {"cpu"} :
        p["cpu"] = "absent" => Written(p, b)["cpu"] = "absent"
  BY DEF Written, Backings
<1>d. ASSUME NEW op, Reads(op) PROVE px'["cpu"] = "absent"
  <2>1. CASE ReadCap(op) \/ ReadCpu(op)
    BY <2>1 DEF ReadCap, ReadCpu, NoCpu
  <2>2. CASE \E R \in SUBSET (EnsureMemfd \cup {AsItIs}) : ReadMemfd(op, R)
    <3>1. PICK a : px' = [px EXCEPT !["memfd"] = a]
      BY <2>2 DEF ReadMemfd
    <3> QED
      BY <1>0, <1>a, <1>b, <3>1 DEF NoCpu
  <2> QED
    BY <1>d, <2>1, <2>2 DEF Reads
<1>1. CASE CreateSurface
  BY <1>0, <1>1 DEF CreateSurface, NoCpu, Backings
<1>2. CASE DestroySurface
  BY <1>2 DEF DestroySurface, NoCpu, Backings
<1>3. ASSUME NEW k \in {"decode", "vpp", "jpeg"}, BeginPicture(k) PROVE NoCpu'
  BY <1>0, <1>3 DEF BeginPicture, NoCpu
<1>4. CASE DecodeFails
  BY <1>4 DEF DecodeFails, NoCpu
<1>5. ASSUME NEW n \in Sizes, PullCapture(n) PROVE NoCpu'
  <2>1. target' = "none"
    BY <1>5 DEF PullCapture
  <2>2. CASE PullView(n) \/ PullToBo(n)
    <3>1. PICK b \in {"cap", "bo"} : px' = Written(px, b)
      BY <2>2 DEF PullView, PullToBo
    <3> QED
      BY <1>0, <1>b, <1>c, <2>1, <3>1 DEF NoCpu
  <2>3. CASE PullToMemfd(n)
    <3> DEFINE p == [px EXCEPT !["memfd"] = IF @ = "absent" THEN "blank" ELSE @]
    <3>1. p \in [Backings -> Ages] /\ p["cpu"] = "absent"
      BY <1>0 DEF NoCpu, Backings, Ages
    <3>2. px' \in {p, Written(p, "memfd")}
      BY <2>3 DEF PullToMemfd
    <3> HIDE DEF p
    <3> QED
      BY <1>b, <1>c, <2>1, <3>1, <3>2 DEF NoCpu
  <2> QED
    BY <1>5, <2>2, <2>3 DEF PullCapture
<1>6. ASSUME NEW w \in {"release", "teardown"}, ReleaseSlot(w) PROVE NoCpu'
  BY <1>0, <1>a, <1>b, <1>6 DEF ReleaseSlot, NoCpu
<1>17. ASSUME NEW n \in Sizes, EnsureCapture(n) PROVE NoCpu'
  <2>1. PICK a : px' = [px EXCEPT !["cap"] = "absent", !["memfd"] = a]
    BY <1>17 DEF EnsureCapture
  <2>2. target' = target
    BY <1>17 DEF EnsureCapture
  <2> QED
    BY <1>0, <2>1, <2>2 DEF NoCpu, Backings
<1>7. CASE ExportCapture
  <2>1. target' = target /\ (px' = px \/ px' = [px EXCEPT !["cap"] = "blank"])
    BY <1>7 DEF ExportCapture
  <2>2. px'["cpu"] = px["cpu"]
    BY <1>0, <2>1 DEF Backings
  <2> QED
    BY <2>1, <2>2 DEF NoCpu
<1>8. CASE ExportBo
  <2> DEFINE p == [px EXCEPT !["bo"] = "blank"]
  <2>1. p \in [Backings -> Ages] /\ p["cpu"] = "absent"
    BY <1>0 DEF NoCpu, Backings, Ages
  <2>2. PICK o \in Synced(p) : px' = o.px
    BY <1>8 DEF ExportBo
  <2> HIDE DEF p
  <2>3. o.px["cpu"] = p["cpu"]
    BY <2>1, SyncOnlyBo
  <2> QED
    BY <1>8, <2>1, <2>2, <2>3 DEF ExportBo, NoCpu
<1>9. CASE PutImage
  BY <1>0, <1>9 DEF PutImage
<1>10. CASE VppRun
  BY <1>10 DEF VppRun, NoCpu
<1>11. CASE GetImage
  <2>1. target' = target /\ Reads("GetImage")
    BY <1>11 DEF GetImage, Reads
  <2> QED
    BY <1>d, <2>1 DEF NoCpu
<1>12. CASE VppSource
  BY <1>0, <1>12 DEF VppSource
<1>13. CASE JpegEncode
  <2>1. target' = "none" /\ (Reads("Jpeg") \/ UNCHANGED px)
    BY <1>13 DEF JpegEncode, Reads
  <2> QED
    BY <1>d, <2>1 DEF NoCpu
<1>14. ASSUME NEW i \in Images, DeriveImage(i) PROVE NoCpu'
  <2>1. target' = target
    BY <1>14 DEF DeriveImage
  <2>2. CASE ReadCpu("Derive") \/ ReadCap("Derive")
    BY <1>d, <2>1, <2>2 DEF Reads, NoCpu
  <2>3. CASE DeriveMemfd(i)
    <3>1. PICK a : px' = [px EXCEPT !["memfd"] = a]
      BY <2>3 DEF DeriveMemfd
    <3> QED
      BY <1>0, <1>a, <1>b, <2>1, <3>1 DEF NoCpu
  <2> QED
    BY <1>14, <2>2, <2>3 DEF DeriveImage
<1>15. ASSUME NEW i \in Images, DestroyImage(i) PROVE NoCpu'
  BY <1>15 DEF DestroyImage, NoCpu
<1>16. CASE UNCHANGED vars
  BY <1>16 DEF vars, NoCpu
<1> QED
  BY <1>1, <1>2, <1>3, <1>4, <1>5, <1>6, <1>7, <1>8, <1>9, <1>10, <1>11, <1>12,
     <1>13, <1>14, <1>15, <1>16, <1>17 DEF Next

LEMMA DeriveReads ==
  ASSUME GbmMode, MapsWork, NoCpu, FreshInv, DeriveFresh,
         NEW i \in Images, DeriveImage(i)
  PROVE  DeriveFresh'
<1>1. DeriveMemfd(i) /\ hasPic
  BY DEF DeriveImage, HasCpu, HasView, NoCpu, GbmMode
<1>2. PICK e \in EnsureMemfd :
        /\ writer' = e.writer
        /\ Saw("Derive", Shown(e.memfd, e.layout)) \/ UNCHANGED read
  BY <1>1 DEF DeriveMemfd
<1>3. writer # "CPU"
  BY FreshFacts DEF NoCpu
<1>4. CASE writer = "NONE"
  <2>1. writer' = "NONE"
    BY <1>2, <1>4, RefillFrom
  <2> QED
    BY <2>1 DEF DeriveFresh, Fresh
<1>5. CASE writer # "NONE"
  <2>1. Shown(e.memfd, e.layout) = "cur"
    BY <1>1, <1>3, <1>5, RefillFresh DEF DeriveMemfd
  <2> QED
    BY <1>2, <1>5, <2>1 DEF Saw, DeriveFresh, Fresh
<1> QED
  BY <1>4, <1>5

LEMMA UnreadDerive ==
  ASSUME DeriveFresh, Unread("Derive")
  PROVE  DeriveFresh'
<1>1. (read'.op = "Derive" /\ writer' # "NONE") => read'.got = "cur"
  BY UnreadKeeps DEF DeriveFresh
<1> QED
  BY <1>1 DEF DeriveFresh, Fresh

(***************************************************************************)
(* In GBM mode, while bo maps and memfd growth work, vaDeriveImage of a    *)
(* surface that is only decoded to shows the newest picture, as long as no *)
(* queue of another geometry is set up while that is in the memfd.  Once   *)
(* the CPU has written the surface, an image of cpu_ptr may be older than  *)
(* a frame.                                                                *)
(***************************************************************************)
THEOREM DerivedImagesFresh ==
  ASSUME GbmMode, MapsWork, LayoutKept, OnlyDecoded
  PROVE  Spec => []DeriveFresh
<1> DEFINE DInv == FreshInv /\ NoCpu /\ DeriveFresh
<1>1. DInv /\ [Next]_vars => DInv'
  <2> SUFFICES ASSUME FreshInv, NoCpu, DeriveFresh, [Next]_vars PROVE DInv'
    OBVIOUS
  <2>1. FreshInv' /\ NoCpu'
    BY FreshStep, NoCpuStep DEF FreshInv
  <2>2. DeriveFresh'
    BY DeriveReads, UnreadDerive, StepsUnread
  <2> QED
    BY <2>1, <2>2
<1>2. Init => DInv
  BY FreshInit DEF Init, NoCpu, DeriveFresh, Fresh, NoRead, Backings
<1>3. DInv => DeriveFresh
  OBVIOUS
<1> QED BY <1>1, <1>2, <1>3, PTL DEF Spec

(* In EXPBUF mode the newest picture stays in its CAPTURE slot.            *)
SlotsKept == {"release", "teardown"} \cap Events = {}

SlotOK == writer # "NONE" => held /\ view /\ px["cap"] = "cur"

LEMMA ReadsKeepSlot ==
  ASSUME SlotOK, px \in [Backings -> Ages], NEW op, Reads(op), UNCHANGED <<held, view>>
  PROVE  SlotOK'
<1>1. CASE ReadCap(op) \/ ReadCpu(op)
  BY <1>1 DEF ReadCap, ReadCpu, SlotOK
<1>2. CASE \E R \in SUBSET (EnsureMemfd \cup {AsItIs}) : ReadMemfd(op, R)
  <2>1. PICK e \in EnsureMemfd \cup {AsItIs} :
          px' = [px EXCEPT !["memfd"] = e.memfd] /\ writer' = e.writer
    BY <1>2 DEF ReadMemfd
  <2>2. px'["cap"] = px["cap"] /\ (writer' # "NONE" => writer # "NONE")
    BY <2>1, RefillFrom DEF Backings
  <2> QED
    BY <2>2 DEF SlotOK
<1> QED
  BY <1>1, <1>2 DEF Reads

LEMMA SlotStep ==
  ASSUME ExpbufWanted, OnlyDecoded, SlotsKept, TypeInv, NoCpu, DeadIsBlank, SlotOK,
         [Next]_vars
  PROVE  SlotOK' /\ DeadIsBlank'
<1>0. /\ px \in [Backings -> Ages]
      /\ {"put", "vpp", "release", "teardown"} \cap Events = {}
      /\ ~alive => writer = "NONE" /\ target = "none"
  BY DEF TypeInv, TypeOK, OnlyDecoded, SlotsKept, DeadIsBlank
<1>a. ASSUME UNCHANGED <<alive, held, view, writer>>, px'["cap"] = px["cap"],
             alive \/ target' = target
      PROVE  SlotOK' /\ DeadIsBlank'
  BY <1>0, <1>a DEF SlotOK, DeadIsBlank
<1>1. CASE CreateSurface
  BY <1>0, <1>1 DEF CreateSurface, SlotOK, DeadIsBlank
<1>2. CASE DestroySurface
  BY <1>2 DEF DestroySurface, SlotOK, DeadIsBlank
<1>3. ASSUME NEW k \in {"decode", "vpp", "jpeg"}, BeginPicture(k) PROVE SlotOK' /\ DeadIsBlank'
  BY <1>0, <1>3 DEF BeginPicture, SlotOK, DeadIsBlank
<1>4. CASE DecodeFails
  BY <1>0, <1>4 DEF DecodeFails, SlotOK, DeadIsBlank
<1>5. ASSUME NEW n \in Sizes, PullCapture(n) PROVE SlotOK' /\ DeadIsBlank'
  <2>1. PullView(n) /\ alive' = alive /\ alive
    BY <1>0, <1>5 DEF PullCapture, PullToBo, PullToMemfd
  <2>2. writer' = "MEMFD" /\ held' /\ view' /\ px' = Written(px, "cap")
    BY <2>1 DEF PullView, Pulled
  <2>3. px'["cap"] = "cur"
    BY <1>0, <2>2, WrittenAges DEF Backings
  <2> QED
    BY <2>1, <2>2, <2>3 DEF SlotOK, DeadIsBlank
<1>6. ASSUME NEW w \in {"release", "teardown"}, ReleaseSlot(w) PROVE FALSE
  BY <1>0, <1>6 DEF ReleaseSlot
<1>17. ASSUME NEW n \in Sizes, EnsureCapture(n) PROVE SlotOK' /\ DeadIsBlank'
  BY <1>0, <1>17 DEF EnsureCapture, SlotOK, DeadIsBlank
<1>7. CASE ExportCapture
  <2>1. writer # "NONE" => px'["cap"] = px["cap"] /\ view' = view
    BY <1>7 DEF ExportCapture, SlotOK
  <2> QED
    BY <1>7, <2>1 DEF ExportCapture, SlotOK, DeadIsBlank
<1>8. CASE ExportBo
  <2> DEFINE p == [px EXCEPT !["bo"] = "blank"]
  <2>1. p \in [Backings -> Ages] /\ p["cap"] = px["cap"]
    BY <1>0 DEF Backings, Ages
  <2>2. PICK o \in Synced(p) : px' = o.px /\ writer' = o.writer
    BY <1>8 DEF ExportBo
  <2> HIDE DEF p
  <2>3. o.px["cap"] = px["cap"] /\ (writer = "NONE" => o.writer = "NONE")
    BY <2>1, SyncOnlyBo
  <2>4. UNCHANGED <<alive, target, held, view>> /\ alive
    BY <1>8 DEF ExportBo
  <2> QED
    BY <2>2, <2>3, <2>4 DEF SlotOK, DeadIsBlank
<1>9. CASE PutImage
  BY <1>0, <1>9 DEF PutImage
<1>10. CASE VppRun
  BY <1>10 DEF VppRun, NoCpu
<1>11. CASE GetImage
  <2>1. alive /\ UNCHANGED <<alive, target, held, view>> /\ Reads("GetImage")
    BY <1>11 DEF GetImage, Reads
  <2> QED
    BY <1>0, <2>1, ReadsKeepSlot DEF DeadIsBlank
<1>12. CASE VppSource
  BY <1>0, <1>12 DEF VppSource
<1>13. CASE JpegEncode
  <2>1. /\ alive /\ UNCHANGED <<alive, held, view>>
        /\ Reads("Jpeg") \/ UNCHANGED <<px, writer>>
    BY <1>0, <1>13 DEF JpegEncode, Reads
  <2>2. CASE Reads("Jpeg")
    BY <1>0, <2>1, <2>2, ReadsKeepSlot DEF DeadIsBlank
  <2> QED
    BY <1>a, <2>1, <2>2
<1>14. ASSUME NEW i \in Images, DeriveImage(i) PROVE SlotOK' /\ DeadIsBlank'
  <2>1. alive /\ UNCHANGED <<alive, target, held, view>>
    BY <1>14 DEF DeriveImage
  <2>2. CASE ReadCpu("Derive") \/ ReadCap("Derive")
    BY <1>a, <2>1, <2>2 DEF ReadCpu, ReadCap
  <2>3. CASE DeriveMemfd(i)
    <3>1. PICK e \in EnsureMemfd :
            px' = [px EXCEPT !["memfd"] = e.memfd] /\ writer' = e.writer
      BY <2>3 DEF DeriveMemfd
    <3>2. px'["cap"] = px["cap"] /\ (writer' # "NONE" => writer # "NONE")
      BY <1>0, <3>1, RefillFrom DEF Backings
    <3> QED
      BY <2>1, <3>2 DEF SlotOK, DeadIsBlank
  <2> QED
    BY <1>14, <2>2, <2>3 DEF DeriveImage
<1>15. ASSUME NEW i \in Images, DestroyImage(i) PROVE SlotOK' /\ DeadIsBlank'
  BY <1>a, <1>15 DEF DestroyImage
<1>16. CASE UNCHANGED vars
  BY <1>a, <1>16 DEF vars
<1> QED
  BY <1>1, <1>2, <1>3, <1>4, <1>5, <1>6, <1>7, <1>8, <1>9, <1>10, <1>11, <1>12,
     <1>13, <1>14, <1>15, <1>16, <1>17 DEF Next

LEMMA DeriveReadsSlot ==
  ASSUME ExpbufWanted, NoCpu, SlotOK, DeriveFresh, NEW i \in Images, DeriveImage(i)
  PROVE  DeriveFresh'
<1>1. CASE writer # "NONE"
  <2>1. ReadCap("Derive") /\ px["cap"] = "cur"
    BY <1>1 DEF DeriveImage, HasCpu, HasView, NoCpu, SlotOK
  <2> QED
    BY <2>1 DEF ReadCap, Saw, DeriveFresh, Fresh
<1>2. CASE writer = "NONE"
  <2>1. ReadCpu("Derive") \/ ReadCap("Derive") \/ DeriveMemfd(i)
    BY DEF DeriveImage
  <2>2. CASE DeriveMemfd(i)
    <3>1. PICK e \in EnsureMemfd : writer' = e.writer
      BY <2>2 DEF DeriveMemfd
    <3>2. writer' = "NONE"
      BY <1>2, <3>1, RefillFrom
    <3> QED
      BY <3>2 DEF DeriveFresh, Fresh
  <2>3. CASE ReadCpu("Derive") \/ ReadCap("Derive")
    BY <1>2, <2>3 DEF ReadCpu, ReadCap, DeriveFresh, Fresh
  <2> QED
    BY <2>1, <2>2, <2>3
<1> QED
  BY <1>1, <1>2

(***************************************************************************)
(* In EXPBUF mode, too, vaDeriveImage of a surface that is only decoded to *)
(* shows the newest picture, whatever becomes of its other backings: it is *)
(* read in its slot, as long as no resolution change, AV1 copy-out or end  *)
(* of the context takes that away.                                         *)
(***************************************************************************)
THEOREM DerivedViewsFresh ==
  ASSUME ExpbufWanted, OnlyDecoded, SlotsKept
  PROVE  Spec => []DeriveFresh
<1> DEFINE DInv == TypeInv /\ NoCpu /\ DeadIsBlank /\ SlotOK /\ DeriveFresh
<1>1. DInv /\ [Next]_vars => DInv'
  <2> SUFFICES ASSUME TypeInv, NoCpu, DeadIsBlank, SlotOK, DeriveFresh, [Next]_vars
               PROVE  DInv'
    OBVIOUS
  <2>1. TypeInv' /\ NoCpu' /\ SlotOK' /\ DeadIsBlank'
    BY TypeStep, NoCpuStep, SlotStep
  <2>2. DeriveFresh'
    BY DeriveReadsSlot, UnreadDerive, StepsUnread
  <2> QED
    BY <2>1, <2>2
<1>2. Init => DInv
  <2> SUFFICES ASSUME Init PROVE DInv
    OBVIOUS
  <2>1. TypeInv
    BY TypeInit
  <2>2. NoCpu /\ DeadIsBlank /\ SlotOK /\ DeriveFresh
    BY DEF Init, NoCpu, DeadIsBlank, SlotOK, DeriveFresh, Fresh, NoRead, Backings
  <2> QED
    BY <2>1, <2>2
<1>3. DInv => DeriveFresh
  OBVIOUS
<1> QED BY <1>1, <1>2, <1>3, PTL DEF Spec

=============================================================================
