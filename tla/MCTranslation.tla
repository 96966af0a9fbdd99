---------------------------- MODULE MCTranslation ----------------------------
(* The inputs of Translation for TLC.                                      *)
EXTENDS Translation

(* A span is a hidden picture and the picture shown after it.              *)
Frame(type, show, resilient, screen, size, hint, primary, refresh) ==
  LET forced == type = Key /\ show = 1
  IN [type |-> type, show |-> show,
      resilient |-> IF forced THEN 1 ELSE resilient, screenContent |-> screen,
      integerMv |-> 0, sizeOverride |-> size, orderHint |-> hint,
      primary |-> IF type = Key \/ resilient = 1 THEN NoPrimary ELSE primary,
      refresh |-> IF forced THEN AllRefreshed ELSE refresh]

Shown(screen, hints) ==
  {Frame(t, 1, r, screen, z, h, p, f) :
     t \in {Key, Inter}, r \in {0, 1}, z \in {0, 1}, h \in hints, p \in {0, 5, 7},
     f \in {0, 1, 170}}
Hidden(screen, hints) ==
  {Frame(t, 0, r, screen, 0, h, p, f) :
     t \in {Key, Inter}, r \in {0, 1}, h \in hints, p \in {0, 6}, f \in {4, 255}}

MCHeaders ==
  {[span |-> <<a, b>>, seq |-> [screenContent |-> FALSE, integerMv |-> FALSE]] :
     a \in Hidden(0, {0, 16, 77}), b \in Shown(0, {0, 5, 77, 127})}
  \cup
  {[span |-> <<a, b>>, seq |-> [screenContent |-> TRUE, integerMv |-> TRUE]] :
     a \in Hidden(0, {16, 77}), b \in Shown(0, {5, 77})}

(* References up to half the range of the order hints away, and no two     *)
(* further apart than that on one side.                                    *)
MCSkips ==
  {[orders |-> [i \in 1 .. 3 |-> cur + d[i]], cur |-> cur] :
     cur \in {100, 126, 130, 250}, d \in [1 .. 3 -> {-63, -5, -1, 0, 1, 4, 62}]}

MCDpbs ==
  {[dpb |-> [i \in 0 .. 3 |-> d[i + 1]], cur |-> cur] :
     d \in [1 .. 4 -> {Empty, 8, 10, 12, 14, 15, 20}], cur \in {13, 16, 18}}

(* Up to three tiles one after the other in a data buffer, with bytes      *)
(* between them that belong to none.                                       *)
TileData == [i \in 1 .. 6 |-> 10 + i]
MCTiles ==
  {[buffers |-> 
      (IF dataFirst THEN <<[type |-> "data", bytes |-> TileData]>> ELSE <<>>)
      \o [i \in DOMAIN tiles |-> [type |-> "params", of |-> TileData, params |-> tiles[i]]]
      \o (IF dataFirst THEN <<>> ELSE <<[type |-> "data", bytes |-> TileData]>>),
    grid |-> Len(tiles)] :
     dataFirst \in BOOLEAN,
     tiles \in UNION {[1 .. n -> [offset : {0, 2, 3}, size : {1, 2, 3}]] : n \in 0 .. 3}}

MCNals ==
  {[nals |-> nals, prefixLen |-> len] :
     len \in {3, 4},
     nals \in UNION {[1 .. n -> [prefix : {<<>>, <<0, 0, 1>>, <<0, 0, 0, 1>>},
                                 body : {<<9>>, <<9, 0, 8>>, <<7, 0, 0, 3, 1>>}]] : n \in 1 .. 2}}

MCH264 ==
  UNION {[1 .. n -> [valid : BOOLEAN, entry : [frame : {1, 2, 3}, ts : {4, 5}]]] : n \in 1 .. 3}

HevcRefs ==
  {[id |-> i, valid |-> v, longTerm |-> l, poc |-> p] :
     i \in {1, 2}, v \in BOOLEAN, l \in BOOLEAN, p \in {3, 5}}
MCHevc ==
  {[refs |-> r, poc |-> 4] : r \in UNION {[1 .. n -> HevcRefs] : n \in 1 .. 3}}

(* Even sizes, and images of the whole picture.                            *)
Layout(capture, fourcc, w, h) ==
  {[capture |-> capture, fourcc |-> fourcc, w |-> w, h |-> h, imageH |-> h,
    pitch |-> (IF fourcc \in Packed THEN 2 * w ELSE w) + pad,
    stride |-> w + more, rows |-> h + below] :
     pad \in {0, 2}, more \in {0, 4}, below \in {0, 2}}
MCGet ==
  UNION {Layout(p[1], p[2], w, h) : p \in Paths, w \in {2, 4}, h \in {2, 4}}
MCPut ==
  {x \in UNION {Layout("NV12", "NV12", w, h) : w \in {2, 4}, h \in {2, 4}} : x.rows = x.h}

(* Eight and ten bits, 4:2:0 and 4:2:2, in configs of that profile.        *)
MCFormats ==
  {[depth |-> 8, chroma |-> 1, rt |-> {"YUV420"}],
   [depth |-> 10, chroma |-> 1, rt |-> {"YUV420", "YUV420_10"}],
   [depth |-> 10, chroma |-> 1, rt |-> {"YUV420_10"}],
   [depth |-> 8, chroma |-> 2, rt |-> {"YUV420", "YUV422"}],
   [depth |-> 10, chroma |-> 2, rt |-> {"YUV422_10"}]}

Kinds == {"header", "skip", "libaom", "tiles", "nals", "h264", "hevc", "get", "put", "format"}
MCInputs ==
  [k \in Kinds |->
     CASE k = "header" -> MCHeaders
       [] k = "skip" -> MCSkips
       [] k = "libaom" -> {x \in MCDpbs : x.cur \notin Held(x.dpb)}
       [] k = "tiles" -> MCTiles
       [] k = "nals" -> MCNals
       [] k = "h264" -> MCH264
       [] k = "hevc" -> MCHevc
       [] k = "get" -> MCGet
       [] k = "put" -> MCPut
       [] k = "format" -> MCFormats]
=============================================================================
