-------------------------- MODULE TranslationProofs --------------------------
(***************************************************************************)
(* What the runs show of the image calls on pictures of two and four       *)
(* pixels, for pictures, strides and images of every size: each component  *)
(* is copied to where it is looked for, by every conversion there is, and  *)
(* nothing is written behind the image.                                    *)
(*                                                                         *)
(* The converters are compared with the expected copies as sets, so there  *)
(* is no induction over rows; what is left is the arithmetic of addresses. *)
(***************************************************************************)
EXTENDS Translation, FiniteSetTheorems, NaturalsInduction, WellFoundedInduction, TLAPS

(* The config's RT bits are those of the profile of the stream.            *)
FormatInput(x) ==
  /\ x.depth \in Nat
  /\ x.chroma = 2 => IF x.depth >= 10 THEN "YUV422_10" \in x.rt
                     ELSE /\ "YUV422" \in x.rt
                          /\ x.rt \cap {"YUV422_10", "YUV420_10"} = {}
  /\ x.chroma # 2 => IF x.depth >= 10 THEN "YUV420_10" \in x.rt /\ "YUV422_10" \notin x.rt
                     ELSE x.rt \cap {"YUV422_10", "YUV420_10", "YUV422"} = {}

(* A picture of even width, and of even height if its chroma is halved,    *)
(* in an image of its height whose rows hold its width, and in a surface   *)
(* of no fewer rows.                                                       *)
ImageInput(x) ==
  /\ <<x.capture, x.fourcc>> \in Paths
  /\ x.w \in Nat /\ x.h \in Nat /\ x.pitch \in Nat /\ x.stride \in Nat /\ x.rows \in Nat
  /\ x.w % 2 = 0 /\ (x.fourcc \notin Packed => x.h % 2 = 0)
  /\ x.imageH = x.h /\ x.rows >= x.h
  /\ x.pitch >= (IF x.fourcc \in Packed THEN 2 * x.w ELSE x.w)

(* vaPutImage takes NV12, and the rows of the surface as those of the      *)
(* picture.                                                                *)
PutInput(x) == ImageInput(x) /\ x.fourcc = "NV12" /\ x.rows = x.h

ImageInputs ==
  /\ "format" \in DOMAIN Inputs => \A x \in Inputs["format"] : FormatInput(x)
  /\ "get" \in DOMAIN Inputs => \A x \in Inputs["get"] : ImageInput(x)
  /\ "put" \in DOMAIN Inputs => \A x \in Inputs["put"] : PutInput(x)

(* A reference table whose pictures are in one period of the order hints,  *)
(* which have up to eight bits, and closer to the current picture than     *)
(* half of it.  Beyond that hints are ambiguous in AV1 itself, or compared *)
(* by av1_get_refresh_idx as plain numbers.                                *)
Span == 2^OrderHintBits
HalfSpan == 2^(OrderHintBits - 1)
TableInput(x) ==
  /\ \E n \in Nat : DOMAIN x.dpb = 0 .. n
  /\ \E k \in Nat : \A p \in Held(x.dpb) \cup {x.cur} :
       /\ p \in k * Span .. k * Span + (Span - 1)
       /\ p - x.cur < HalfSpan /\ x.cur - p < HalfSpan

TableInputs ==
  /\ OrderHintBits \in 1 .. 8
  /\ "libaom" \in DOMAIN Inputs => \A x \in Inputs["libaom"] : TableInput(x)

(* ------------------------------ arithmetic ----------------------------- *)

LEMMA Half ==
  ASSUME NEW n \in Nat, n % 2 = 0
  PROVE  /\ n \div 2 \in Nat /\ n = 2 * (n \div 2)
         /\ (n + 1) \div 2 = n \div 2 /\ 2 * ((n + 1) \div 2) = n
  OBVIOUS

(* The last row ends where the rows end.                                   *)
LEMMA RowsEnd ==
  ASSUME NEW p \in Nat, NEW n \in Nat, NEW y \in 0 .. n - 1
  PROVE  /\ y * p \in Nat /\ p * n \in Nat
         /\ y * p + p <= p * n
<1> DEFINE z == n - y - 1
<1>1. z \in Nat /\ z * p \in Nat
  OBVIOUS
<1>2. p * n = y * p + p + z * p
  OBVIOUS
<1>3. y * p \in Nat /\ p * n \in Nat
  OBVIOUS
<1> HIDE DEF z
<1>4. QED  BY <1>1, <1>2, <1>3

LEMMA PairOf ==
  ASSUME NEW w \in Nat, w % 2 = 0, NEW x \in 0 .. w - 1
  PROVE  /\ x \div 2 \in 0 .. (w \div 2) - 1
         /\ x = 2 * (x \div 2) \/ x = 2 * (x \div 2) + 1
  OBVIOUS

LEMMA PairIn ==
  ASSUME NEW w \in Nat, w % 2 = 0, NEW i \in 0 .. (w \div 2) - 1
  PROVE  /\ 2 * i \in 0 .. w - 1 /\ 2 * i + 1 \in 0 .. w - 1
         /\ 2 * i + 1 < w
  OBVIOUS

(* ------------------------------- layouts ------------------------------- *)

(* The luma of a picture, and its chroma in n rows.                        *)
LumaOf(w, h) == {"Y"} \X (0 .. w - 1) \X (0 .. h - 1)
ChromaOf(w, n) == {"C"} \X (0 .. w - 1) \X (0 .. n - 1)

LEMMA EvenComponents ==
  ASSUME NEW w \in Nat, NEW h \in Nat, NEW fourcc,
         w % 2 = 0, fourcc \notin Packed => h % 2 = 0
  PROVE  Components(w, h, fourcc)
           = LumaOf(w, h) \cup ChromaOf(w, IF fourcc \in Packed THEN h ELSE h \div 2)
<1>1. 2 * ((w + 1) \div 2) = w
  BY Half
<1>2. (IF fourcc \in Packed THEN h ELSE (h + 1) \div 2)
        = (IF fourcc \in Packed THEN h ELSE h \div 2)
  BY Half
<1>3. QED  BY <1>1, <1>2 DEF Components, LumaOf, ChromaOf

LEMMA ComponentParts ==
  ASSUME NEW w \in Nat, NEW h \in Nat, NEW n \in Nat, NEW c \in LumaOf(w, h) \cup ChromaOf(w, n)
  PROVE  /\ c[2] \in 0 .. w - 1
         /\ \/ c[1] = "Y" /\ c[3] \in 0 .. h - 1
            \/ c[1] = "C" /\ c[3] \in 0 .. n - 1
         /\ c = <<c[1], c[2], c[3]>>
  BY DEF LumaOf, ChromaOf

(* The planes of an image that is not packed are those of a surface.       *)
LEMMA PlanesAgree ==
  ASSUME NEW fourcc, fourcc \notin Packed, NEW pitch, NEW h, NEW c
  PROVE  AddressIn(Image(fourcc, pitch, h), c) = PlaneAddress(pitch, h, c)
  BY DEF AddressIn, Image, PlaneAddress

(* A plane converter copies every component of an even picture.            *)
LEMMA CopiesPlanes ==
  ASSUME NEW w \in Nat, NEW h \in Nat, NEW rows \in Nat, NEW to, NEW from, NEW fourcc,
         w % 2 = 0, h % 2 = 0, rows >= h, fourcc \notin Packed
  PROVE  CopyPlanes(to, from, rows, w, h)
           = {<<PlaneAddress(to, h, c), PlaneAddress(from, rows, c)>> :
                c \in Components(w, h, fourcc)}
<1>1. Smaller(h, rows) = h
  BY DEF Smaller
<1>2. Smaller(h \div 2, rows \div 2) = h \div 2
  BY DEF Smaller
<1>3. Components(w, h, fourcc) = LumaOf(w, h) \cup ChromaOf(w, h \div 2)
  BY EvenComponents
<1>4. QED  BY <1>1, <1>2, <1>3, Zenon DEF CopyPlanes, LumaOf, ChromaOf

LEMMA PlanesFit ==
  ASSUME NEW fourcc, fourcc \notin Packed, NEW pitch \in Nat,
         NEW w \in Nat, NEW h \in Nat, w % 2 = 0, h % 2 = 0, pitch >= w,
         NEW c \in Components(w, h, fourcc)
  PROVE  PlaneAddress(pitch, h, c) < Image(fourcc, pitch, h).size
<1> DEFINE k == h \div 2
<1>1. k \in Nat /\ h = 2 * k
  BY Half
<1>2. c \in LumaOf(w, h) \cup ChromaOf(w, k)
  BY EvenComponents
<1>3. Image(fourcc, pitch, h).size = (pitch * h * 3) \div 2
  BY DEF Image
<1>4. pitch * k \in Nat /\ pitch * h = 2 * (pitch * k)
  BY <1>1
<1>5. (pitch * h * 3) \div 2 = 3 * (pitch * k)
  <2> DEFINE q == pitch * k
  <2>1. q \in Nat /\ pitch * h = 2 * q
    BY <1>4
  <2> HIDE DEF q
  <2>2. (pitch * h * 3) \div 2 = 3 * q
    BY <2>1
  <2>3. QED  BY <2>2 DEF q
<1> HIDE DEF k
<1>6. c[2] \in 0 .. w - 1
  BY <1>1, <1>2, ComponentParts
<1>7. CASE c[1] = "Y" /\ c[3] \in 0 .. h - 1
  <2>1. c[3] * pitch \in Nat /\ c[3] * pitch + pitch <= pitch * h
    BY <1>7, RowsEnd
  <2>2. PlaneAddress(pitch, h, c) = c[3] * pitch + c[2]
    BY <1>6, <1>7, <2>1 DEF PlaneAddress
  <2>3. QED  BY <1>3, <1>4, <1>5, <1>6, <2>1, <2>2
<1>8. CASE c[1] = "C" /\ c[3] \in 0 .. k - 1
  <2>1. c[3] * pitch \in Nat /\ c[3] * pitch + pitch <= pitch * k
    BY <1>1, <1>8, RowsEnd
  <2>2. PlaneAddress(pitch, h, c) = pitch * h + c[3] * pitch + c[2]
    BY <1>8 DEF PlaneAddress
  <2>3. QED  BY <1>3, <1>4, <1>5, <1>6, <2>1, <2>2
<1>9. QED  BY <1>1, <1>2, <1>7, <1>8, ComponentParts

(* What a reader of the image expects of the copies into it.               *)
Expected(image, fourcc, from, rows, w, h) ==
  {<<AddressIn(image, c), PlaneAddress(from, rows, c)>> : c \in Components(w, h, fourcc)}

(* Where a packed image keeps a component.                                 *)
LEMMA PackedAddress ==
  ASSUME NEW fourcc \in Packed, NEW pitch, NEW h, NEW i, NEW j, NEW y
  PROVE  /\ AddressIn(Image(fourcc, pitch, h), <<"Y", i, y>>) = y * pitch + 2 * i
         /\ AddressIn(Image(fourcc, pitch, h), <<"C", j, y>>) = y * pitch + (2 * j + 1)
  BY DEF AddressIn, Image

(* The packing converters copy every component of a picture of even width, *)
(* whatever they do with an odd last pixel.                                *)
LEMMA CopiesPacked ==
  ASSUME NEW w \in Nat, NEW h \in Nat, NEW rows \in Nat, NEW to \in Nat, NEW from,
         NEW fourcc \in Packed, NEW odd \in {0, 1}, w % 2 = 0, rows >= h
  PROVE  PackPairs(to, from, rows, w, h, odd = 1)
           = Expected(Image(fourcc, to, h), fourcc, from, rows, w, h)
<1> DEFINE a == w \div 2
           At(c) == <<AddressIn(Image(fourcc, to, h), c), PlaneAddress(from, rows, c)>>
           src(p, x, y) == PlaneAddress(from, rows, <<p, x, y>>)
           Four(i, y) ==
             {At(<<"Y", 2 * i, y>>), At(<<"C", 2 * i, y>>),
              At(<<"Y", 2 * i + 1, y>>), At(<<"C", 2 * i + 1, y>>)}
           LumaAt(x) == IF x < w THEN x ELSE w - 1
           Copies(i, y) ==
             LET d == y * to + 4 * i
                 second == IF 2 * i + 1 < w THEN 2 * i + 1 ELSE 2 * i
             IN {<<d, src("Y", 2 * i, y)>>, <<d + 1, src("C", 2 * i, UvRow(y))>>,
                 <<d + 2, src("Y", LumaAt(2 * i + 1), y)>>, <<d + 3, src("C", second, UvRow(y))>>}
<1>1. a \in Nat /\ (w + 1) \div 2 = a
  BY Half
<1>2. Smaller(h, rows) = h
  BY DEF Smaller
<1>3. PackPairs(to, from, rows, w, h, odd = 1)
        = UNION {Copies(i, y) : i \in 0 .. a - 1, y \in 0 .. h - 1}
  <2> DEFINE pairs == IF odd = 1 THEN (w + 1) \div 2 ELSE w \div 2
             last == Smaller(h, rows)
  <2>1. pairs = a /\ last = h
    BY <1>1, <1>2
  <2>2. PackPairs(to, from, rows, w, h, odd = 1)
          = UNION {Copies(i, y) : i \in 0 .. pairs - 1, y \in 0 .. last - 1}
    BY DEF PackPairs
  <2> HIDE DEF pairs, last, a, Copies
  <2>3. QED  BY <2>1, <2>2
<1>4. ASSUME NEW i \in 0 .. a - 1, NEW y \in 0 .. h - 1
      PROVE  Copies(i, y) = Four(i, y)
  <2>1. 2 * i + 1 < w /\ i \in Nat /\ y \in Nat /\ y * to \in Nat
    BY PairIn
  <2>2. LumaAt(2 * i + 1) = 2 * i + 1
    BY <2>1
  <2>3. /\ AddressIn(Image(fourcc, to, h), <<"Y", 2 * i, y>>) = y * to + 2 * (2 * i)
        /\ AddressIn(Image(fourcc, to, h), <<"C", 2 * i, y>>) = y * to + (2 * (2 * i) + 1)
        /\ AddressIn(Image(fourcc, to, h), <<"Y", 2 * i + 1, y>>) = y * to + 2 * (2 * i + 1)
        /\ AddressIn(Image(fourcc, to, h), <<"C", 2 * i + 1, y>>)
             = y * to + (2 * (2 * i + 1) + 1)
    BY PackedAddress
  <2>4. /\ y * to + 2 * (2 * i) = y * to + 4 * i
        /\ y * to + (2 * (2 * i) + 1) = y * to + 4 * i + 1
        /\ y * to + 2 * (2 * i + 1) = y * to + 4 * i + 2
        /\ y * to + (2 * (2 * i + 1) + 1) = y * to + 4 * i + 3
    BY <2>1
  <2> HIDE DEF LumaAt
  <2>5. QED  BY <2>1, <2>2, <2>3, <2>4 DEF UvRow
<1>5. Components(w, h, fourcc) = LumaOf(w, h) \cup ChromaOf(w, h)
  BY EvenComponents
<1> HIDE DEF At, Copies
<1>6. ASSUME NEW i \in 0 .. a - 1, NEW y \in 0 .. h - 1, NEW e \in Four(i, y)
      PROVE  \E c \in Components(w, h, fourcc) : e = At(c)
  <2>1. 2 * i \in 0 .. w - 1 /\ 2 * i + 1 \in 0 .. w - 1
    BY PairIn
  <2>2. /\ <<"Y", 2 * i, y>> \in LumaOf(w, h) /\ <<"Y", 2 * i + 1, y>> \in LumaOf(w, h)
        /\ <<"C", 2 * i, y>> \in ChromaOf(w, h) /\ <<"C", 2 * i + 1, y>> \in ChromaOf(w, h)
    BY <2>1 DEF LumaOf, ChromaOf
  <2>3. QED  BY <1>5, <2>2
<1>7. ASSUME NEW c \in Components(w, h, fourcc)
      PROVE  \E i \in 0 .. a - 1, y \in 0 .. h - 1 : At(c) \in Four(i, y)
  <2>1. /\ c[2] \in 0 .. w - 1 /\ c[1] \in {"Y", "C"} /\ c[3] \in 0 .. h - 1
        /\ c = <<c[1], c[2], c[3]>>
    BY <1>5, ComponentParts
  <2> DEFINE i == c[2] \div 2
  <2>2. i \in 0 .. a - 1 /\ (c[2] = 2 * i \/ c[2] = 2 * i + 1)
    BY <2>1, PairOf
  <2> HIDE DEF a, i
  <2>3. c \in {<<"Y", 2 * i, c[3]>>, <<"C", 2 * i, c[3]>>,
               <<"Y", 2 * i + 1, c[3]>>, <<"C", 2 * i + 1, c[3]>>}
    BY <2>1, <2>2
  <2>4. At(c) \in Four(i, c[3])
    BY <2>3
  <2>5. QED  BY <2>1, <2>2, <2>4
<1> HIDE DEF Four, a
<1>8. PackPairs(to, from, rows, w, h, odd = 1) = {At(c) : c \in Components(w, h, fourcc)}
  BY <1>3, <1>4, <1>6, <1>7
<1>9. QED  BY <1>8 DEF At, Expected

LEMMA PackedFits ==
  ASSUME NEW fourcc \in Packed, NEW pitch \in Nat, NEW w \in Nat, NEW h \in Nat,
         w % 2 = 0, pitch >= 2 * w, NEW c \in Components(w, h, fourcc)
  PROVE  AddressIn(Image(fourcc, pitch, h), c) < Image(fourcc, pitch, h).size
<1>1. c \in LumaOf(w, h) \cup ChromaOf(w, h)
  BY EvenComponents
<1>2. c[2] \in 0 .. w - 1 /\ c[3] \in 0 .. h - 1
  BY <1>1, ComponentParts
<1>3. c[3] * pitch \in Nat /\ pitch * h \in Nat /\ c[3] * pitch + pitch <= pitch * h
  BY <1>2, RowsEnd
<1>4. /\ Image(fourcc, pitch, h).size = pitch * h
      /\ AddressIn(Image(fourcc, pitch, h), c)
           = c[3] * pitch + (IF c[1] = "Y" THEN 2 * c[2] ELSE 2 * c[2] + 1)
  BY DEF Image, AddressIn
<1>5. QED  BY <1>2, <1>3, <1>4

(* ----------------------------- the theorem ----------------------------- *)

(* The copies of one vaGetImage are the expected ones, inside the image.   *)
LEMMA GetTrue ==
  ASSUME NEW x, ImageInput(x)
  PROVE  LET image == Image(x.fourcc, x.pitch, x.imageH)
             copies == GetImageCopies(x.capture, image, x.stride, x.rows, x.w, x.h)
         IN /\ copies = {<<AddressIn(image, c), PlaneAddress(x.stride, x.rows, c)>> :
                           c \in Components(x.w, x.h, x.fourcc)}
            /\ \A e \in copies : e[1] < image.size
<1> DEFINE image == Image(x.fourcc, x.pitch, x.imageH)
           copies == GetImageCopies(x.capture, image, x.stride, x.rows, x.w, x.h)
           all == Components(x.w, x.h, x.fourcc)
           expected == {<<AddressIn(image, c), PlaneAddress(x.stride, x.rows, c)>> : c \in all}
<1>1. /\ <<x.capture, image.fourcc>> \in Paths /\ image.fourcc = x.fourcc
      /\ image.pitch = x.pitch /\ image = Image(x.fourcc, x.pitch, x.h)
  BY DEF ImageInput, Image
<1>2. copies = expected /\ \A c \in all : AddressIn(image, c) < image.size
  <2>1. CASE x.fourcc \in Packed
    <3>1. PICK odd \in {0, 1} : copies = PackPairs(x.pitch, x.stride, x.rows, x.w, x.h, odd = 1)
      BY <1>1, <2>1 DEF GetImageCopies
    <3>2. /\ x.w \in Nat /\ x.h \in Nat /\ x.rows \in Nat /\ x.pitch \in Nat
          /\ x.w % 2 = 0 /\ x.rows >= x.h
      BY DEF ImageInput
    <3> HIDE DEF copies, image, all, expected
    <3>3. copies = Expected(Image(x.fourcc, x.pitch, x.h), x.fourcc, x.stride, x.rows, x.w, x.h)
      BY <2>1, <3>1, <3>2, CopiesPacked
    <3>4. copies = expected
      BY <1>1, <3>3, Zenon DEF Expected, expected, all
    <3>5. \A c \in all : AddressIn(image, c) < image.size
      BY <1>1, <2>1, <3>2, PackedFits DEF ImageInput, all
    <3>6. QED  BY <3>4, <3>5
  <2>2. CASE x.fourcc \notin Packed
    <3>1. copies = CopyPlanes(x.pitch, x.stride, x.rows, x.w, x.h)
      BY <1>1, <2>2 DEF GetImageCopies
    <3>2. \A c : AddressIn(image, c) = PlaneAddress(x.pitch, x.h, c)
      BY <1>1, <2>2, PlanesAgree
    <3>3. copies = {<<PlaneAddress(x.pitch, x.h, c), PlaneAddress(x.stride, x.rows, c)>> :
                      c \in all}
      BY <2>2, <3>1, CopiesPlanes DEF ImageInput
    <3>4. \A c \in all : AddressIn(image, c) < image.size
      BY <1>1, <2>2, <3>2, PlanesFit DEF ImageInput
    <3> HIDE DEF copies, image, all
    <3>5. QED  BY <3>2, <3>3, <3>4 DEF expected
  <2>3. QED  BY <2>1, <2>2
<1> HIDE DEF image, copies, all
<1>3. \A e \in copies : e[1] < image.size
  BY <1>2
<1> USE DEF image, copies, all
<1>4. QED  BY <1>2, <1>3

(* The copies of one vaPutImage are the expected ones.                     *)
LEMMA PutTrue ==
  ASSUME NEW x, PutInput(x)
  PROVE  LET image == Image(x.fourcc, x.pitch, x.imageH)
         IN PutImageCopies(image, x.stride, x.w, x.h)
              = {<<PlaneAddress(x.stride, x.rows, c), AddressIn(image, c)>> :
                   c \in Components(x.w, x.h, x.fourcc)}
<1> DEFINE image == Image(x.fourcc, x.pitch, x.imageH)
           all == Components(x.w, x.h, x.fourcc)
<1>1. x.fourcc \notin Packed /\ image.pitch = x.pitch /\ x.imageH = x.h /\ x.rows = x.h
  BY DEF PutInput, ImageInput, Image, Packed
<1>2. \A c : AddressIn(image, c) = PlaneAddress(x.pitch, x.h, c)
  BY <1>1, PlanesAgree
<1>3. PutImageCopies(image, x.stride, x.w, x.h)
        = {<<PlaneAddress(x.stride, x.h, c), PlaneAddress(x.pitch, x.h, c)>> : c \in all}
  BY <1>1, CopiesPlanes DEF PutImageCopies, PutInput, ImageInput
<1> HIDE DEF image, all
<1>4. QED  BY <1>1, <1>2, <1>3 DEF image, all

(* The format of the config is that of the stream, and has a conversion.   *)
LEMMA FormatTrue ==
  ASSUME NEW x, FormatInput(x)
  PROVE  LET capture == CaptureFromSps(x.depth, x.chroma)
         IN CaptureFromRt(x.rt) = capture /\ <<capture, VaFourcc(capture)>> \in Paths
<1>1. CaptureFromRt(x.rt) = CaptureFromSps(x.depth, x.chroma)
  BY DEF FormatInput, CaptureFromRt, CaptureFromSps
<1>2. \A capture \in CaptureFormats : <<capture, VaFourcc(capture)>> \in Paths
  BY DEF CaptureFormats, VaFourcc, Paths
<1>3. CaptureFromSps(x.depth, x.chroma) \in CaptureFormats
  BY DEF CaptureFromSps, CaptureFormats
<1>4. QED  BY <1>1, <1>2, <1>3

(* What is being translated is one of the inputs of its kind, or a stream. *)
GivenKinds == {"get", "put", "format", "libaom"}
JobGiven ==
  /\ "kind" \in DOMAIN job
  /\ job.kind \in GivenKinds => job.kind \in DOMAIN Inputs /\ job.x \in Inputs[job.kind]

LEMMA JobGivenInductive == Spec => []JobGiven
<1>1. Init => JobGiven
  BY DEF Init, Idle, JobGiven, GivenKinds
<1>2. ASSUME JobGiven, [Next]_job
      PROVE  JobGiven'
  <2>1. ASSUME NEW kind \in DOMAIN Inputs, Give(kind)
        PROVE  JobGiven'
    BY <2>1 DEF Give, JobGiven
  <2>2. ASSUME NEW key, StartStream(key)
        PROVE  JobGiven'
    BY <2>2 DEF StartStream, JobGiven, GivenKinds
  <2>3. ASSUME NEW p, NEW shown, job.kind = "stream"
        PROVE  "kind" \in DOMAIN Coded(p, shown) /\ Coded(p, shown).kind = "stream"
    BY <1>2, <2>3 DEF Coded, JobGiven
  <2>4. ASSUME NEW length, CodeTop(length)
        PROVE  JobGiven'
    <3>1. job.kind = "stream"
      BY <2>4 DEF CodeTop
    <3>2. PICK c : /\ "kind" \in DOMAIN c /\ c.kind = "stream"
                   /\ job' = [c EXCEPT !.coded = {job.top, job.top + length},
                                       !.top = @ + length, !.length = length]
      BY <2>3, <2>4, <3>1 DEF CodeTop
    <3>3. QED  BY <3>2 DEF JobGiven, GivenKinds
  <2>5. ASSUME CodeInner
        PROVE  JobGiven'
    <3>1. job.kind = "stream"
      BY <2>5 DEF CodeInner
    <3> DEFINE gap == NextGap(job.coded)
               p == (gap[1] + gap[2]) \div 2
               c == Coded(p, gap[2] - gap[1] = 2)
    <3>2. job' = [c EXCEPT !.coded = @ \cup {p}]
      BY <2>5, Zenon DEF CodeInner
    <3>3. "kind" \in DOMAIN c /\ c.kind = "stream"
      BY <2>3, <3>1
    <3> HIDE DEF c, p
    <3>4. QED  BY <3>2, <3>3 DEF JobGiven, GivenKinds
  <2>6. ASSUME Done
        PROVE  JobGiven'
    BY <2>6 DEF Done, Idle, JobGiven, GivenKinds
  <2>7. CASE UNCHANGED job
    BY <1>2, <2>7 DEF JobGiven
  <2>8. QED  BY <1>2, <2>1, <2>2, <2>4, <2>5, <2>6, <2>7 DEF Next
<1>3. QED  BY <1>1, <1>2, PTL DEF Spec

(* Every component of a picture of any even size is where the client of a  *)
(* VAImage looks for it after vaGetImage, by each of the five conversions  *)
(* and with any pitch, stride and rows that hold the picture, and where    *)
(* the readers of a surface look for it after vaPutImage; nothing is       *)
(* written behind the image; and the format vaCreateContext chooses is     *)
(* that of the stream (v4l2sl_get_image, v4l2sl_put_image,                 *)
(* v4l2sl_capture_fourcc_from_rt).                                         *)
THEOREM EveryImageTrue == ImageInputs => (Spec => []ImagesTrue)
<1> SUFFICES ASSUME ImageInputs
             PROVE  Spec => []ImagesTrue
  OBVIOUS
<1>1. ASSUME JobGiven
      PROVE  ImagesTrue
  <2>1. FormatsAgree
    <3>1. job.kind = "format" => FormatInput(job.x)
      BY <1>1 DEF JobGiven, GivenKinds, ImageInputs
    <3>2. QED  BY <3>1, FormatTrue DEF FormatsAgree
  <2>2. CASE job.kind = "get"
    <3>1. ImageInput(job.x)
      BY <1>1, <2>2 DEF JobGiven, GivenKinds, ImageInputs
    <3>2. QED  BY <2>1, <2>2, <3>1, GetTrue DEF ImagesTrue
  <2>3. CASE job.kind = "put"
    <3>1. PutInput(job.x)
      BY <1>1, <2>3 DEF JobGiven, GivenKinds, ImageInputs
    <3>2. QED  BY <2>1, <2>3, <3>1, PutTrue DEF ImagesTrue
  <2>4. CASE job.kind \notin {"get", "put"}
    BY <2>1, <2>4 DEF ImagesTrue
  <2>5. QED  BY <2>2, <2>3, <2>4
<1>2. QED  BY <1>1, JobGivenInductive, PTL

(* --------------------------- reference tables -------------------------- *)

LEMMA SpanFacts ==
  ASSUME OrderHintBits \in 1 .. 8
  PROVE  <<Span, HalfSpan>> \in {<<2, 1>>, <<4, 2>>, <<8, 4>>, <<16, 8>>, <<32, 16>>,
                                 <<64, 32>>, <<128, 64>>, <<256, 128>>}
<1>1. /\ 2^0 = 1 /\ 2^1 = 2 /\ 2^2 = 4 /\ 2^3 = 8 /\ 2^4 = 16 /\ 2^5 = 32 /\ 2^6 = 64
      /\ 2^7 = 128 /\ 2^8 = 256
  OBVIOUS
<1>2. OrderHintBits \in {1, 2, 3, 4, 5, 6, 7, 8}
  OBVIOUS
<1>3. CASE OrderHintBits = 1
  <2>1. OrderHintBits - 1 = 0
    BY <1>3
  <2>2. QED  BY <1>1, <1>3, <2>1 DEF Span, HalfSpan
<1>4. CASE OrderHintBits = 2
  <2>1. OrderHintBits - 1 = 1
    BY <1>4
  <2>2. QED  BY <1>1, <1>4, <2>1 DEF Span, HalfSpan
<1>5. CASE OrderHintBits = 3
  <2>1. OrderHintBits - 1 = 2
    BY <1>5
  <2>2. QED  BY <1>1, <1>5, <2>1 DEF Span, HalfSpan
<1>6. CASE OrderHintBits = 4
  <2>1. OrderHintBits - 1 = 3
    BY <1>6
  <2>2. QED  BY <1>1, <1>6, <2>1 DEF Span, HalfSpan
<1>7. CASE OrderHintBits = 5
  <2>1. OrderHintBits - 1 = 4
    BY <1>7
  <2>2. QED  BY <1>1, <1>7, <2>1 DEF Span, HalfSpan
<1>8. CASE OrderHintBits = 6
  <2>1. OrderHintBits - 1 = 5
    BY <1>8
  <2>2. QED  BY <1>1, <1>8, <2>1 DEF Span, HalfSpan
<1>9. CASE OrderHintBits = 7
  <2>1. OrderHintBits - 1 = 6
    BY <1>9
  <2>2. QED  BY <1>1, <1>9, <2>1 DEF Span, HalfSpan
<1>10. CASE OrderHintBits = 8
  <2>1. OrderHintBits - 1 = 7
    BY <1>10
  <2>2. QED  BY <1>1, <1>10, <2>1 DEF Span, HalfSpan
<1>11. QED  BY <1>2, <1>3, <1>4, <1>5, <1>6, <1>7, <1>8, <1>9, <1>10

(* Within a period the hints are in the order of the pictures.             *)
LEMMA HintInPeriod ==
  ASSUME OrderHintBits \in 1 .. 8, NEW k \in Nat,
         NEW p \in k * Span .. k * Span + (Span - 1)
  PROVE  Hint(p) = p - k * Span /\ k * Span \in Nat /\ Hint(p) \in 0 .. Span - 1
<1>1. Hint(p) = p % Span
  BY DEF Hint, Span
<1>2. CASE Span = 2
  BY <1>1, <1>2
<1>3. CASE Span = 4
  BY <1>1, <1>3
<1>4. CASE Span = 8
  BY <1>1, <1>4
<1>5. CASE Span = 16
  BY <1>1, <1>5
<1>6. CASE Span = 32
  BY <1>1, <1>6
<1>7. CASE Span = 64
  BY <1>1, <1>7
<1>8. CASE Span = 128
  BY <1>1, <1>8
<1>9. CASE Span = 256
  BY <1>1, <1>9
<1>10. QED  BY <1>2, <1>3, <1>4, <1>5, <1>6, <1>7, <1>8, <1>9, SpanFacts

(* The relative distance of hints less than half the period apart is their *)
(* difference.                                                             *)
LEMMA DistanceIsDifference ==
  ASSUME OrderHintBits \in 1 .. 8, NEW a \in 0 .. Span - 1, NEW b \in 0 .. Span - 1,
         a - b < HalfSpan, b - a < HalfSpan
  PROVE  RelativeDist(a, b) = a - b
<1>1. RelativeDist(a, b)
        = (((a - b) % Span) % HalfSpan) - (IF (a - b) % Span >= HalfSpan THEN HalfSpan ELSE 0)
  BY DEF RelativeDist, Span, HalfSpan
<1>2. QED  BY <1>1, SpanFacts

(* A non-empty set of naturals has a first member.                         *)
LEMMA LeastOf ==
  ASSUME NEW S \in SUBSET Nat, S # {}
  PROVE  \E m \in S : \A k \in S : m <= k
<1>1. \E m \in S : \A k \in S : ~(<<k, m>> \in OpToRel(<, Nat))
  BY NatLessThanWellFounded, WFMin
<1>2. \A k \in Nat, m \in Nat : k < m => <<k, m>> \in OpToRel(<, Nat)
  BY DEF OpToRel
<1>3. PICK m \in S : \A k \in S : ~(<<k, m>> \in OpToRel(<, Nat))
  BY <1>1
<1>4. \A k \in S : ~(k < m)
  BY <1>2, <1>3
<1>5. QED  BY <1>4

(* The slot taken for the oldest has the smallest hint.                    *)
LEMMA OldestSmallest ==
  ASSUME NEW dpb, NEW slots \in SUBSET Nat, slots # {},
         \A i \in slots : Hint(dpb[i]) \in Nat
  PROVE  /\ Oldest(slots, dpb) \in slots
         /\ \A j \in slots : Hint(dpb[Oldest(slots, dpb)]) <= Hint(dpb[j])
<1> DEFINE H == {Hint(dpb[i]) : i \in slots}
<1>1. PICK m \in H : \A h \in H : m <= h
  BY LeastOf
<1>2. PICK i \in {i \in slots : Hint(dpb[i]) = m} :
        \A j \in {j \in slots : Hint(dpb[j]) = m} : i <= j
  <2> DEFINE T == {i \in slots : Hint(dpb[i]) = m}
  <2>1. T # {} /\ T \in SUBSET Nat
    BY <1>1
  <2>2. QED  BY <2>1, LeastOf
<1>3. \A j \in slots : Hint(dpb[i]) < Hint(dpb[j])
                         \/ (Hint(dpb[i]) = Hint(dpb[j]) /\ i <= j)
  BY <1>1, <1>2
<1>4. PICK o \in slots : /\ o = Oldest(slots, dpb)
                         /\ \A j \in slots : Hint(dpb[o]) < Hint(dpb[j])
                              \/ (Hint(dpb[o]) = Hint(dpb[j]) /\ o <= j)
  BY <1>2, <1>3, Zenon DEF Oldest
<1>5. QED  BY <1>4

(* Something held in two slots is held more than once.                     *)
LEMMA TwoSlots ==
  ASSUME NEW dpb, NEW n \in Nat, DOMAIN dpb = 0 .. n,
         NEW i \in 0 .. n, NEW j \in 0 .. n, j < i, dpb[i] = dpb[j]
  PROVE  Cardinality(SlotsOf(dpb, dpb[i])) > 1
<1> DEFINE S == SlotsOf(dpb, dpb[i])
<1>1. i \in S /\ j \in S /\ S \subseteq 0 .. n /\ i # j
  BY DEF SlotsOf
<1> HIDE DEF S
<1>2. IsFiniteSet(S)
  <2>1. IsFiniteSet(0 .. n)
    BY FS_Interval
  <2>2. S \in SUBSET (0 .. n)
    BY <1>1
  <2>3. QED  BY <2>1, <2>2, FS_Subset
<1>3. Cardinality(S) \in Nat /\ Cardinality(S) # 0 /\ Cardinality(S) # 1
  BY <1>1, <1>2, FS_CardinalityType, FS_EmptySet, FS_Singleton
<1>4. QED  BY <1>3 DEF S

LEMMA TableSpared ==
  ASSUME OrderHintBits \in 1 .. 8, NEW x, TableInput(x)
  PROVE  LET dpb == x.dpb
             lost == {dpb[i] : i \in InferLibaom(dpb, Hint(x.cur))}
                     \ ({Empty} \cup {p \in Held(dpb) : Cardinality(SlotsOf(dpb, p)) > 1})
             spare == Duplicates(dpb) \ {0} # {} \/ \E p \in Held(dpb) : p <= x.cur - 3
         IN spare => \A p \in lost : p <= x.cur - 3 /\ \A q \in Held(dpb) : p <= q
<1> DEFINE dpb == x.dpb
           repeated == {p \in Held(dpb) : Cardinality(SlotsOf(dpb, p)) > 1}
           spareSlots == Duplicates(dpb) \ {0}
           taken == InferLibaom(dpb, Hint(x.cur))
<1>1. PICK n \in Nat : DOMAIN dpb = 0 .. n
  BY DEF TableInput
<1>2. PICK k \in Nat : \A p \in Held(dpb) \cup {x.cur} :
                         /\ p \in k * Span .. k * Span + (Span - 1)
                         /\ p - x.cur < HalfSpan /\ x.cur - p < HalfSpan
  BY DEF TableInput
<1> HIDE DEF dpb
<1>3. CASE spareSlots # {}
  <2>1. spareSlots \in SUBSET Nat
    BY <1>1 DEF Duplicates
  <2>2. PICK m \in spareSlots : \A j \in spareSlots : m <= j
    BY <1>3, <2>1, LeastOf
  <2>3. PICK f \in spareSlots : f = First(spareSlots)
    BY <2>2, Zenon DEF First
  <2>4. taken = {f}
    BY <1>3, <2>3 DEF InferLibaom
  <2>5. dpb[f] = Empty \/ dpb[f] \in repeated
    <3>1. f \in 0 .. n /\ (dpb[f] = Empty \/ \E j \in 0 .. n : j < f /\ dpb[j] = dpb[f])
      BY <1>1, <2>3 DEF Duplicates
    <3>2. CASE dpb[f] # Empty
      <4>1. PICK j \in 0 .. n : j < f /\ dpb[f] = dpb[j]
        BY <3>1, <3>2
      <4>2. Cardinality(SlotsOf(dpb, dpb[f])) > 1
        BY <1>1, <3>1, <4>1, TwoSlots
      <4>3. dpb[f] \in Held(dpb)
        BY <1>1, <3>1, <3>2 DEF Held
      <4>4. QED  BY <4>2, <4>3
    <3>3. QED  BY <3>2
  <2> HIDE DEF repeated, taken
  <2>6. {dpb[i] : i \in taken} \ ({Empty} \cup repeated) = {}
    BY <2>4, <2>5
  <2>7. QED  BY <2>6 DEF repeated, taken, dpb
<1>4. CASE spareSlots = {} /\ \E p \in Held(dpb) : p <= x.cur - 3
  <2> DEFINE old == Evictable(dpb, Hint(x.cur))
             o == Oldest(old, dpb)
             b == k * Span
  <2>1. b \in Nat /\ x.cur \in b .. b + (Span - 1) /\ Hint(x.cur) = x.cur - b
        /\ Hint(x.cur) \in 0 .. Span - 1
    BY <1>2, HintInPeriod
  <2>2. ASSUME NEW p \in Held(dpb)
        PROVE  /\ p \in Nat /\ Hint(p) = p - b /\ Hint(p) \in Nat
               /\ RelativeDist(Hint(p), Hint(x.cur)) = p - x.cur
    <3>1. /\ p \in b .. b + (Span - 1) /\ Hint(p) = p - b /\ Hint(p) \in 0 .. Span - 1
          /\ p - x.cur < HalfSpan /\ x.cur - p < HalfSpan
      BY <1>2, HintInPeriod
    <3> HIDE DEF b
    <3>2. Span \in Nat /\ HalfSpan \in Nat
      BY SpanFacts
    <3>3. /\ Hint(p) - Hint(x.cur) = p - x.cur /\ Hint(x.cur) - Hint(p) = x.cur - p
      BY <2>1, <3>1, <3>2
    <3>4. RelativeDist(Hint(p), Hint(x.cur)) = Hint(p) - Hint(x.cur)
      BY <2>1, <3>1, <3>3, DistanceIsDifference
    <3>5. QED  BY <2>1, <3>1, <3>2, <3>3, <3>4
  <2> HIDE DEF b
  <2>3. \A i \in 0 .. n : dpb[i] # Empty => dpb[i] \in Held(dpb)
    BY <1>1 DEF Held
  <2>4. \A i : i \in old <=> i \in 0 .. n /\ dpb[i] \in Held(dpb) /\ dpb[i] - x.cur <= -3
    BY <1>1, <2>2, <2>3 DEF Evictable, Held
  <2>5. x.cur \in Nat
    BY <2>1, SpanFacts
  <2>6. old # {}
    <3>1. PICK p \in Held(dpb) : p <= x.cur - 3
      BY <1>4
    <3>2. PICK i \in 0 .. n : dpb[i] = p
      BY <1>1, <3>1 DEF Held
    <3>3. i \in old
      BY <2>2, <2>4, <2>5, <3>1, <3>2
    <3>4. QED  BY <3>3
  <2>7. taken = {o}
    BY <1>4, <2>6 DEF InferLibaom, RefreshIdx
  <2>8. o \in old /\ \A j \in old : Hint(dpb[o]) <= Hint(dpb[j])
    BY <2>2, <2>4, <2>6, OldestSmallest
  <2> HIDE DEF o, old, taken
  <2>9. dpb[o] \in Held(dpb) /\ dpb[o] <= x.cur - 3
    BY <2>2, <2>4, <2>5, <2>8
  <2>10. ASSUME NEW q \in Held(dpb)
         PROVE  dpb[o] <= q
    <3>1. PICK j \in 0 .. n : dpb[j] = q
      BY <1>1 DEF Held
    <3>2. CASE q <= x.cur - 3
      <4>1. j \in old
        BY <2>2, <2>4, <2>5, <3>1, <3>2
      <4>2. Hint(dpb[o]) <= Hint(q)
        BY <2>8, <3>1, <4>1
      <4>3. QED  BY <2>1, <2>2, <2>9, <4>2
    <3>3. CASE ~(q <= x.cur - 3)
      BY <2>2, <2>5, <2>9, <3>3
    <3>4. QED  BY <3>2, <3>3
  <2>11. \A p \in {dpb[i] : i \in taken} :
           p <= x.cur - 3 /\ \A q \in Held(dpb) : p <= q
    BY <2>7, <2>9, <2>10
  <2>12. QED  BY <2>11 DEF dpb, taken
<1>5. QED  BY <1>3, <1>4 DEF dpb

(* Libaom's table, of any length and contents, loses a copy or the oldest  *)
(* picture while one can be spared, and none that is displayed later or    *)
(* was just before (av1_infer_refresh_libaom, av1_get_refresh_idx).        *)
THEOREM TablesSpared == TableInputs => (Spec => []EvictsExpendable)
<1> SUFFICES ASSUME TableInputs
             PROVE  Spec => []EvictsExpendable
  OBVIOUS
<1>1. ASSUME JobGiven
      PROVE  EvictsExpendable
  <2>1. CASE job.kind = "libaom"
    <3>1. TableInput(job.x) /\ OrderHintBits \in 1 .. 8
      BY <1>1, <2>1 DEF JobGiven, GivenKinds, TableInputs
    <3>2. QED  BY <3>1, TableSpared DEF EvictsExpendable
  <2>2. CASE job.kind # "libaom"
    BY <2>2 DEF EvictsExpendable
  <2>3. QED  BY <2>1, <2>2
<1>2. QED  BY <1>1, JobGivenInductive, PTL
=============================================================================
