---------------------------- MODULE Av1Inference ----------------------------
(***************************************************************************)
(* What the AV1 translator derives because VA-API does not carry it: the   *)
(* skip-mode references, the refresh flags when no frame header was found, *)
(* and the tile grid.                                                      *)
(*                                                                         *)
(* A picture is its position in display order; its surface is the picture, *)
(* and its order hint is that position modulo 2^OrderHintBits.  dpb is the *)
(* client's ref_frame_map.                                                 *)
(***************************************************************************)
EXTENDS Av1Header, FiniteSets

Empty == -1  \* VA_INVALID_SURFACE
None == -1   \* an index that was not found

Hint(p) == p % 2^OrderHintBits

RelativeDistFlat(a, b) == a - b  \* mutant: the hints are not modular

RelativeDist(a, b) ==
  LET diff == (a - b) % 2^OrderHintBits
      m == 2^(OrderHintBits - 1)
  IN (diff % m) - (IF diff >= m THEN m ELSE 0)

(* ------------------------------- skip mode ----------------------------- *)

(* The first index that is Better than those before it, of those that are  *)
(* Wanted.                                                                 *)
Scan(hints, Wanted(_), Better(_, _)) ==
  FoldLeft(LAMBDA best, i :
             IF Wanted(hints[i]) /\ (best = None \/ Better(hints[i], hints[best]))
             THEN i ELSE best,
           None, [i \in 1 .. Len(hints) |-> i])

Later(a, b) == RelativeDist(a, b) > 0

(* The two references of skip mode: the nearest on either side, or the two *)
(* nearest before.                                                         *)
SkipModeFrames(hints, cur) ==
  LET forward == Scan(hints, LAMBDA h : Later(cur, h), Later)
      backward == Scan(hints, LAMBDA h : Later(h, cur), LAMBDA a, b : Later(b, a))
      second == Scan(hints, LAMBDA h : Later(hints[forward], h), Later)
  IN CASE forward = None -> {}
       [] forward # None /\ backward # None -> {forward, backward}
       [] OTHER -> IF second = None THEN {} ELSE {forward, second}

(* ------------------------- refresh_frame_flags ------------------------- *)

Held(dpb) == {dpb[i] : i \in DOMAIN dpb} \ {Empty}
SlotsOf(dpb, p) == {i \in DOMAIN dpb : dpb[i] = p}
First(slots) == CHOOSE i \in slots : \A j \in slots : i <= j

(* Slots that are empty, or repeat a slot before them.                     *)
Duplicates(dpb) ==
  {i \in DOMAIN dpb : dpb[i] = Empty \/ \E j \in DOMAIN dpb : j < i /\ dpb[j] = dpb[i]}

(* av1_get_refresh_idx: the oldest picture, but no future one nor the      *)
(* closest previous ones.  (No surface ever has av1_level1 set.)           *)
Evictable(dpb, cur) ==
  {i \in DOMAIN dpb : dpb[i] # Empty /\ RelativeDist(Hint(dpb[i]), cur) <= -3}

Youngest(slots, dpb) ==  \* mutant: the comparison is the wrong way round
  CHOOSE i \in slots : \A j \in slots : Hint(dpb[i]) >= Hint(dpb[j])

Oldest(slots, dpb) ==
  CHOOSE i \in slots : \A j \in slots :
    Hint(dpb[i]) < Hint(dpb[j]) \/ (Hint(dpb[i]) = Hint(dpb[j]) /\ i <= j)

RefreshIdx(dpb, cur) ==
  IF Evictable(dpb, cur) = {} THEN {0} ELSE {Oldest(Evictable(dpb, cur), dpb)}

(* av1_infer_refresh_libaom.                                               *)
InferLibaom(dpb, cur) ==
  IF Duplicates(dpb) \ {0} # {} THEN {First(Duplicates(dpb) \ {0})}
  ELSE RefreshIdx(dpb, cur)

(* av1_most_dup_first: the first copy of the picture with most copies.     *)
MostDuplicated(dpb) ==
  LET copies(p) == Cardinality(SlotsOf(dpb, p))
      before(p, q) == First(SlotsOf(dpb, p)) <= First(SlotsOf(dpb, q))
      Beats(p, q) == \/ copies(p) > copies(q)
                     \/ copies(p) = copies(q) /\ Hint(p) < Hint(q)
                     \/ copies(p) = copies(q) /\ Hint(p) = Hint(q) /\ before(p, q)
      repeated == {p \in Held(dpb) : copies(p) > 1}
  IN IF repeated = {} THEN {}
     ELSE {First(SlotsOf(dpb, CHOOSE p \in repeated : \A q \in repeated : Beats(p, q)))}

Log2(n) == CHOOSE k \in 0 .. 31 : 2^k <= n /\ n < 2^(k + 1)
TrailingZeros(n) == CHOOSE k \in 0 .. 31 : n % 2^k = 0 /\ n % 2^(k + 1) # 0

(* mutant: no pyramid is taken to have more than three layers *)
SvtLayerCapped(hint, gop) ==
  IF hint % gop = 0 THEN 0 ELSE IF (hint * 2) % gop = 0 THEN 1 ELSE 2

(* av1_svt_tl: the layer of a picture in a mini-GOP.                       *)
SvtLayer(hint, gop) ==
  IF hint % gop = 0 THEN 0 ELSE Log2(gop) - TrailingZeros(hint % gop)

(* ctx->av1 after a KEY picture.                                           *)
AfterKey(hint) ==
  [style |-> "UNKNOWN", key |-> hint, first |-> FALSE, gop |-> 0, l0 |-> 0, prev |-> 0,
   toggle0 |-> 0, toggle1 |-> 0]

(* The mini-GOP length the layers are taken from.                          *)
LayerGop(s, cur) ==
  LET g == CASE s.prev # 0 /\ s.l0 > s.prev -> s.l0 - s.prev
             [] ~(s.prev # 0 /\ s.l0 > s.prev) /\ cur > s.gop -> s.gop \div 2
             [] OTHER -> s.gop
  IN IF g < 4 THEN 4 ELSE g

(* The first hidden picture after a KEY gives the length of the mini-GOP.  *)
FirstGop(s, cur) == IF cur > s.key THEN cur - s.key ELSE IF cur # 0 THEN cur ELSE 8

(* av1_infer_refresh_svt: the slots, and ctx->av1 afterwards.              *)
InferSvt(s, dpb, cur, shown) ==
  LET dup == IF MostDuplicated(dpb) = {} THEN {0} ELSE MostDuplicated(dpb)
      layer == SvtLayer(cur, LayerGop(s, cur))
  IN CASE shown -> [slots |-> {}, av1 |-> s]
       [] ~shown /\ ~s.first ->
            [slots |-> dup,
             av1 |-> [s EXCEPT !.first = TRUE, !.gop = FirstGop(s, cur) % 256, !.l0 = cur,
                               !.prev = s.key, !.toggle0 = 1, !.toggle1 = 0]]
       [] ~shown /\ s.first /\ cur > s.l0 ->
            [slots |-> {s.toggle0},
             av1 |-> [s EXCEPT !.prev = s.l0, !.l0 = cur, !.toggle0 = (@ + 1) % 3]]
       [] ~shown /\ s.first /\ cur <= s.l0 /\ s.gop >= 16 ->
            CASE layer = 0 -> [slots |-> {s.toggle0},
                               av1 |-> [s EXCEPT !.toggle0 = (@ + 1) % 3]]
              [] layer = 1 -> [slots |-> {3 + s.toggle1},
                               av1 |-> [s EXCEPT !.toggle1 = 1 - @]]
              [] OTHER -> [slots |-> {IF layer \in {2, 3} THEN layer + 3 ELSE 7}, av1 |-> s]
       [] OTHER ->
            [slots |-> CASE Cardinality(Held(dpb)) = 2 /\ 3 \in Duplicates(dpb) -> {3}
                         [] OTHER -> IF MostDuplicated(dpb) # {} THEN MostDuplicated(dpb)
                                     ELSE RefreshIdx(dpb, cur),
             av1 |-> s]

(* Which encoder it was, from the first inter picture after a KEY.         *)
Style(pic) ==
  CASE pic.shown -> "RTC"
    [] ~pic.shown /\ pic.showable /\ pic.primary # NoPrimary -> "SVT"
    [] OTHER -> "LIBAOM"

(* av1_infer_refresh_flags for an inter picture.                           *)
InferFlags(s, dpb, cur, pic) ==
  LET style == IF s.style = "UNKNOWN" THEN Style(pic) ELSE s.style
      latched == [s EXCEPT !.style = style]
  IN CASE \E p \in Held(dpb) : Hint(p) = cur -> [slots |-> {}, av1 |-> s]
       [] OTHER ->
            CASE style = "RTC" -> [slots |-> {cur % 6}, av1 |-> latched]
              [] style = "SVT" -> InferSvt(latched, dpb, cur, pic.shown)
              [] OTHER -> [slots |-> InferLibaom(dpb, cur), av1 |-> latched]

(* -------------------------------- tiles -------------------------------- *)

(* mi_col_starts for uniform spacing, and the widths in superblocks of sb  *)
(* units derived from it; rows are the same.                               *)
UniformStarts(mi, n) == [i \in 0 .. n |-> IF i = n THEN mi ELSE (mi * i) \div n]
UniformWidths(mi, n, sb) ==
  LET starts == UniformStarts(mi, n)
  IN [i \in 0 .. n - 1 |-> (starts[i + 1] - starts[i] + sb - 1) \div sb]
=============================================================================
