---------------------------- MODULE Translation ----------------------------
(***************************************************************************)
(* The pure parts of the translators and of the image calls, each given    *)
(* one input after the other and compared with what its result is for; and *)
(* the inference of refresh flags over a whole SVT-AV1 stream, where each  *)
(* result decides the reference table of the next picture.                 *)
(***************************************************************************)
EXTENDS Av1Inference, PictureInputs, PixelFormats

CONSTANTS
  Inputs,      \* Inputs[kind]: the inputs of one algorithm
  KeyOrders,   \* display orders a KEY picture may have
  GopLengths,  \* lengths of the mini-GOPs
  LastOrder    \* bound: display orders of a stream

VARIABLE job  \* what is being translated

Idle == [kind |-> "idle"]

Init == job = Idle

Give(kind) ==
  /\ job = Idle
  /\ \E x \in Inputs[kind] : job' = [kind |-> kind, x |-> x]

(* ------------------- a stream of SVT-AV1 (external) -------------------- *)

(* A random-access stream codes a mini-GOP from its last picture inwards:  *)
(* the leftmost two neighbours that are coded and further apart than one   *)
(* are the references of the picture half-way.  Every other picture is     *)
(* shown at once and refreshes nothing.  Towards the end of a stream the   *)
(* mini-GOPs get shorter, never longer.                                    *)
StartStream(key) ==
  /\ job = Idle
  /\ job' = [kind |-> "stream", coded |-> {key}, top |-> key, length |-> LastOrder,
             av1 |-> AfterKey(Hint(key)), dpb |-> [i \in 0 .. 7 |-> key]]

Gaps(coded) ==
  {p \in coded \X coded : p[2] - p[1] > 1 /\ \A q \in coded : q <= p[1] \/ q >= p[2]}
NextGap(coded) == CHOOSE p \in Gaps(coded) : \A q \in Gaps(coded) : p[1] <= q[1]

Coded(p, shown) ==
  LET r == InferFlags(job.av1, job.dpb, Hint(p),
                      [shown |-> shown, showable |-> TRUE, primary |-> 0])
  IN [job EXCEPT !.av1 = r.av1,
                 !.dpb = [i \in 0 .. 7 |-> IF i \in r.slots THEN p ELSE job.dpb[i]]]

CodeTop(length) ==
  /\ job.kind = "stream" /\ Gaps(job.coded) = {}
  /\ length <= job.length /\ job.top + length <= LastOrder
  /\ job' = [Coded(job.top + length, FALSE)
               EXCEPT !.coded = {job.top, job.top + length}, !.top = @ + length,
                      !.length = length]

CodeInner ==
  /\ job.kind = "stream" /\ Gaps(job.coded) # {}
  /\ LET gap == NextGap(job.coded)
         p == (gap[1] + gap[2]) \div 2
     IN job' = [Coded(p, gap[2] - gap[1] = 2) EXCEPT !.coded = @ \cup {p}]

Done == job # Idle /\ job' = Idle

Next ==
  \/ \E kind \in DOMAIN Inputs : Give(kind)
  \/ \E key \in KeyOrders : StartStream(key)
  \/ \E length \in GopLengths : CodeTop(length)
  \/ CodeInner \/ Done

Spec == Init /\ [][Next]_job

(* ------------------------------ properties ----------------------------- *)

(* The refresh flags found in a span are those of the picture being        *)
(* decoded: of a hidden picture and the shown one after it in the same     *)
(* span, neither gets the other's (av1_parse_hdr_refresh).                 *)
HeaderFlagsTrue ==
  job.kind = "header" =>
    LET obus == [i \in DOMAIN job.x.span |-> Header(job.x.span[i], job.x.seq)]
    IN \A f \in ToSet(job.x.span) : ParsedRefresh(obus, f) = f.refresh

(* The two skip-mode references are the nearest pictures in display order, *)
(* wherever the order hints wrap (av1_fill_skip_mode).                     *)
SkipModeNearest ==
  job.kind = "skip" =>
    LET d == job.x.orders
        before(o) == {i \in DOMAIN d : d[i] < o}
        after == {i \in DOMAIN d : d[i] > job.x.cur}
        Ahead(i, j) == d[i] > d[j] \/ (d[i] = d[j] /\ i <= j)
        Behind(i, j) == d[i] < d[j] \/ (d[i] = d[j] /\ i <= j)
        last(S) == CHOOSE i \in S : \A j \in S : Ahead(i, j)
        next == CHOOSE i \in after : \A j \in after : Behind(i, j)
        forward == last(before(job.x.cur))
        expected == CASE before(job.x.cur) = {} -> {}
                      [] before(job.x.cur) # {} /\ after # {} -> {forward, next}
                      [] OTHER -> IF before(d[forward]) = {} THEN {}
                                  ELSE {forward, last(before(d[forward]))}
    IN SkipModeFrames([i \in DOMAIN d |-> Hint(d[i])], Hint(job.x.cur)) = expected

(* Over a whole stream without a frame header, the inferred flags never    *)
(* push a picture out of the reference table while the pyramid needs it:   *)
(* the two references of the next picture are there, however the mini-GOPs *)
(* are cut short (av1_infer_refresh_svt and its state in ctx->av1).        *)
PyramidKept ==
  (job.kind = "stream" /\ Gaps(job.coded) # {}) =>
    ToSet(NextGap(job.coded)) \subseteq Held(job.dpb)

(* While a reference can be spared, libaom's table loses a copy or the     *)
(* oldest picture, and none that is displayed later or was just before     *)
(* (av1_infer_refresh_libaom).                                             *)
EvictsExpendable ==
  job.kind = "libaom" =>
    LET dpb == job.x.dpb
        lost == {dpb[i] : i \in InferLibaom(dpb, Hint(job.x.cur))}
                \ ({Empty} \cup {p \in Held(dpb) : Cardinality(SlotsOf(dpb, p)) > 1})
        spare == Duplicates(dpb) \ {0} # {} \/ \E p \in Held(dpb) : p <= job.x.cur - 3
    IN spare => \A p \in lost : p <= job.x.cur - 3 /\ \A q \in Held(dpb) : p <= q

(* The inference of refresh flags never takes a reference that is needed,  *)
(* in the pyramids of SVT-AV1 and in the tables of libaom.                 *)
ReferencesKept == PyramidKept /\ EvictsExpendable

(* Every tile of an accepted AV1 picture is in the OUTPUT buffer where its *)
(* entry says, and none is missing (the 32 entries of the collection, and  *)
(* the offsets that are rebased).                                          *)
TilesLand ==
  job.kind = "tiles" =>
    LET cb == Collected(job.x.buffers)
        tiles == SelectSeq(job.x.buffers, LAMBDA b : b.type = "params")
        out == TileOutput(cb)
        entries == TileEntries(cb.params)
    IN (~TilesRefused(cb, job.x.grid) /\ out # Failed) =>
         /\ Len(entries) = Len(tiles)
         /\ \A i \in DOMAIN entries :
              /\ entries[i].offset + entries[i].size <= Len(out)
              /\ TileBytes(out, entries[i]) = TileBytes(tiles[i].of, tiles[i].params)

(* An Annex B decoder finds in the OUTPUT buffer the slices of the picture, *)
(* one start code each, whichever of them came with one                    *)
(* (v4l2sl_annexb_concat).                                                 *)
NalsSurvive ==
  job.kind = "nals" =>
    LET out == AnnexB([i \in DOMAIN job.x.nals |-> job.x.nals[i].prefix \o job.x.nals[i].body],
                      job.x.prefixLen)
        starts == {p \in 1 .. Len(out) - 2 : SubSeq(out, p, p + 2) = <<0, 0, 1>>}
        nth == SetToSortSeq(starts, LAMBDA a, b : a < b)
        stop(i) == IF i = Len(nth) THEN Len(out)
                   ELSE IF out[nth[i + 1] - 1] = 0 THEN nth[i + 1] - 2 ELSE nth[i + 1] - 1
    IN out # Failed =>
         [i \in DOMAIN nth |-> SubSeq(out, nth[i] + 3, stop(i))]
           = [i \in DOMAIN job.x.nals |-> job.x.nals[i].body]

(* The OUTPUT buffer holds the picture's bitstream, whole and in order: AV1 *)
(* tiles and Annex B slices.                                               *)
BitstreamWhole == TilesLand /\ NalsSurvive

(* The references handed to the kernel are those of the client: H.264's in *)
(* the order of frame_num, and each of HEVC's in exactly one of the three  *)
(* lists, under its index in the compacted DPB (h264_fill_decode_params,   *)
(* hevc_fill_decode_params).                                               *)
ReferencesListed ==
  /\ job.kind = "h264" =>
       LET dpb == H264Dpb(job.x)
       IN /\ \A i, j \in DOMAIN dpb : i < j => dpb[i].frame <= dpb[j].frame
          /\ {dpb[i] : i \in DOMAIN dpb} \ {NoEntry}
               = {job.x[i].entry : i \in {k \in DOMAIN job.x : job.x[k].valid}}
  /\ job.kind = "hevc" =>
       LET dpb == HevcDpb(job.x.refs, job.x.poc)
           active == {i \in DOMAIN job.x.refs : job.x.refs[i].valid}
           listed(c) == [i \in DOMAIN dpb.lists[c] |-> dpb.entries[dpb.lists[c][i] + 1]]
       IN /\ Len(dpb.entries) = Cardinality(active)
          /\ \A c \in DOMAIN dpb.lists :
               /\ ToSet(dpb.lists[c]) \subseteq 0 .. Len(dpb.entries) - 1
               /\ listed(c) = SelectSeq(job.x.refs,
                                LAMBDA r : r.valid /\ HevcClass(r, job.x.poc) = c)

(* The CAPTURE format chosen from the config at vaCreateContext is the one *)
(* the first picture asks for, and what vaDeriveImage and vaGetImage call  *)
(* it has a conversion.                                                    *)
FormatsAgree ==
  job.kind = "format" =>
    LET capture == CaptureFromSps(job.x.depth, job.x.chroma)
    IN CaptureFromRt(job.x.rt) = capture /\ <<capture, VaFourcc(capture)>> \in Paths

(* Every component of a picture is where the client of a VAImage looks for *)
(* it after vaGetImage, and where the readers of a surface look for it     *)
(* after vaPutImage, and nothing is written beyond the image; and the      *)
(* format it is kept in has a conversion.                                  *)
ImagesTrue ==
  /\ FormatsAgree
  /\ job.kind \in {"get", "put"} =>
       LET x == job.x
           image == Image(x.fourcc, x.pitch, x.imageH)
           all == Components(x.w, x.h, x.fourcc)
           copies == IF job.kind = "get"
                     THEN GetImageCopies(x.capture, image, x.stride, x.rows, x.w, x.h)
                     ELSE PutImageCopies(image, x.stride, x.w, x.h)
           expected == IF job.kind = "get"
                       THEN {<<AddressIn(image, c), PlaneAddress(x.stride, x.rows, c)>> : c \in all}
                       ELSE {<<PlaneAddress(x.stride, x.rows, c), AddressIn(image, c)>> : c \in all}
       IN copies = expected /\ \A c \in copies : job.kind = "get" => c[1] < image.size

(* The tile widths add up to the starts they are given with.               *)
GridConsistent ==
  job.kind = "grid" =>
    LET starts == UniformStarts(job.x.mi, job.x.n)
        widths == UniformWidths(job.x.mi, job.x.n, job.x.sb)
    IN \A i \in 0 .. job.x.n - 2 : starts[i + 1] = starts[i] + job.x.sb * widths[i]

=============================================================================
