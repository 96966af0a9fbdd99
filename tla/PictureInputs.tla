---------------------------- MODULE PictureInputs ----------------------------
(***************************************************************************)
(* What a translator makes of the buffers rendered for one picture: the    *)
(* collection by type with its two limits, the bitstream put together in   *)
(* the OUTPUT buffer, and the reference lists of H.264 and HEVC.           *)
(*                                                                         *)
(* A bitstream is a sequence of bytes; a byte of a slice or tile is a      *)
(* model value, so that one slice cannot be taken for another.             *)
(***************************************************************************)
EXTENDS Integers, FiniteSets, SequencesExt

CONSTANTS
  MaxSliceParams,  \* entries of v4l2sl_collected.slice_params, 32
  MaxSliceDatas,   \* V4L2SL_MAX_SLICE_DATAS, 256
  OutputSize       \* output_buf_size

Failed == <<-1>>  \* no byte is negative

(* -------------------- v4l2sl_collect_decode_buffers -------------------- *)

NoCollection ==
  [params |-> <<>>, seen |-> 0, datas |-> <<>>, largest |-> <<>>]

(* One more buffer; beyond the limits it is dropped without a word.        *)
CollectOne(cb, buf) ==
  CASE buf.type = "params" ->
         [cb EXCEPT !.seen = @ + 1,
                    !.params = IF Len(@) < MaxSliceParams THEN Append(@, buf.params) ELSE @]
    [] buf.type = "data" ->
         [cb EXCEPT !.datas = IF Len(@) < MaxSliceDatas THEN Append(@, buf.bytes) ELSE @,
                    !.largest = IF Len(buf.bytes) > Len(@) THEN buf.bytes ELSE @]

Collected(buffers) == FoldLeft(CollectOne, NoCollection, buffers)

(* ------------------------------ AV1 tiles ------------------------------ *)

(* v4l2sl_av1_translate refuses a picture of too many tiles, and one       *)
(* without tile data.                                                      *)
TilesRefused(cb, grid) ==
  grid > MaxSliceParams \/ cb.seen > MaxSliceParams \/ cb.largest = <<>>

TileBytes(data, tile) == SubSeq(data, tile.offset + 1, tile.offset + tile.size)

(* mutant: every tile starts where it did in the client's buffer *)
EntriesUnmoved(params) ==
  [i \in DOMAIN params |-> [offset |-> params[i].offset, size |-> params[i].size]]

(* The tile group entries: offsets rebased onto the concatenated payloads. *)
TileEntries(params) ==
  [i \in DOMAIN params |->
     [offset |-> FoldLeft(LAMBDA sum, t : sum + t.size, 0, SubSeq(params, 1, i - 1)),
      size |-> params[i].size]]

(* The OUTPUT buffer: the payloads cut out of the largest data buffer.     *)
TileOutput(cb) ==
  LET outside == {i \in DOMAIN cb.params :
                    cb.params[i].offset + cb.params[i].size > Len(cb.largest)}
      whole == IF cb.params = <<>> THEN cb.largest
               ELSE FoldLeft(LAMBDA out, t : out \o TileBytes(cb.largest, t), <<>>, cb.params)
  IN IF outside # {} \/ Len(whole) > OutputSize THEN Failed ELSE whole

(* --------------------------- Annex B slices ---------------------------- *)

HasStartCode(nal) ==
  Len(nal) >= 3 /\ nal[1] = 0 /\ nal[2] = 0
  /\ (nal[3] = 1 \/ (Len(nal) >= 4 /\ nal[3] = 0 /\ nal[4] = 1))

StartCode(prefixLen) == IF prefixLen = 4 THEN <<0, 0, 0, 1>> ELSE <<0, 0, 1>>

WithPrefixAlways(nal, prefixLen) == StartCode(prefixLen) \o nal  \* mutant

WithPrefix(nal, prefixLen) ==
  IF HasStartCode(nal) THEN nal ELSE StartCode(prefixLen) \o nal

(* v4l2sl_annexb_concat.                                                   *)
AnnexB(datas, prefixLen) ==
  LET out == FoldLeft(LAMBDA o, nal : o \o WithPrefix(nal, prefixLen), <<>>, datas)
  IN IF out = <<>> \/ Len(out) > OutputSize THEN Failed ELSE out

(* --------------------------- reference lists --------------------------- *)

NoEntry == [frame |-> 0, ts |-> 0]

Inserted(sorted, e) ==
  LET later == {i \in DOMAIN sorted : sorted[i].frame > e.frame}
      at == IF later = {} THEN Len(sorted) + 1
            ELSE CHOOSE i \in later : \A j \in later : i <= j
  IN InsertAt(sorted, at, e)

(* h264_fill_decode_params: the references at their places, empty places   *)
(* zeroed, and then an insertion sort by frame_num.                        *)
H264Dpb(refs) ==
  FoldLeft(Inserted, <<>>,
           [i \in DOMAIN refs |-> IF refs[i].valid THEN refs[i].entry ELSE NoEntry])

(* mutant: the index is the client's, not that of the compacted DPB *)
HevcAddSparse(dpb, ref, n) ==
  IF ~ref.valid THEN dpb
  ELSE [entries |-> Append(dpb.entries, ref.entry),
        lists |-> [dpb.lists EXCEPT ![ref.class] = Append(@, n)]]

(* hevc_fill_decode_params: one more reference; class is where its flags   *)
(* and POC put it, an index is that of the compacted DPB.                  *)
HevcAdd(dpb, ref, n) ==
  IF ~ref.valid THEN dpb
  ELSE [entries |-> Append(dpb.entries, ref.entry),
        lists |-> [dpb.lists EXCEPT ![ref.class] = Append(@, Len(dpb.entries))]]

HevcClass(ref, poc) ==
  CASE ref.longTerm -> "LtCurr"
    [] ~ref.longTerm /\ ref.poc < poc -> "StCurrBefore"
    [] OTHER -> "StCurrAfter"

HevcDpb(refs, poc) ==
  FoldLeft(LAMBDA dpb, i :
             HevcAdd(dpb, [valid |-> refs[i].valid, entry |-> refs[i],
                           class |-> HevcClass(refs[i], poc)], i - 1),
           [entries |-> <<>>,
            lists |-> [c \in {"LtCurr", "StCurrBefore", "StCurrAfter"} |-> <<>>]],
           [i \in DOMAIN refs |-> i])
=============================================================================
