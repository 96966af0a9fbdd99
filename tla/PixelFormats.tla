---------------------------- MODULE PixelFormats ----------------------------
(***************************************************************************)
(* The formats of a decoded picture and of the images it is read into and  *)
(* uploaded from: the fourcc tables, the layout of a VAImage, and the row  *)
(* converters of vaGetImage and vaPutImage.                                *)
(*                                                                         *)
(* Memory is counted in components (a byte of an 8-bit format, 16 bits of  *)
(* a wider one, a packed 10-bit sample), and a component is named by its   *)
(* plane and place: <<"Y", x, y>>, or <<"C", x, y>> for the interleaved    *)
(* chroma, U at even x.  A converter is the set of its copies, from an     *)
(* address of the source to one of the destination.                        *)
(***************************************************************************)
EXTENDS Integers, FiniteSets

(* ------------------------------ fourccs -------------------------------- *)

CaptureFormats == {"NV12", "NV15", "NV16", "NV20"}

(* v4l2sl_capture_fourcc_from_rt; rt is the set of the config's RT bits.   *)
CaptureFromRt(rt) ==
  CASE "YUV422_10" \in rt -> "NV20"
    [] "YUV422_10" \notin rt /\ "YUV420_10" \in rt -> "NV15"
    [] rt \cap {"YUV422_10", "YUV420_10"} = {} /\ "YUV422" \in rt -> "NV16"
    [] OTHER -> "NV12"

(* mutant: ten bits are recognised as two more than eight, and only those *)
CaptureFromSpsEight(depth, chroma) == IF chroma = 2 THEN "NV16" ELSE "NV12"

(* v4l2sl_capture_fourcc_from_sps.                                         *)
CaptureFromSps(depth, chroma) ==
  IF chroma = 2 THEN (IF depth >= 10 THEN "NV20" ELSE "NV16")
  ELSE (IF depth >= 10 THEN "NV15" ELSE "NV12")

(* v4l2sl_va_fourcc_for_capture.                                           *)
VaFourcc(capture) ==
  CASE capture = "NV15" -> "P010"
    [] capture \in {"NV16", "NV20"} -> "YUY2"
    [] OTHER -> "NV12"

(* The conversions vaGetImage has.                                         *)
Paths == {<<"NV15", "P010">>, <<"NV20", "Y210">>, <<"NV20", "YUY2">>,
          <<"NV16", "YUY2">>, <<"NV12", "NV12">>}

Packed == {"YUY2", "Y210"}

(* ------------------------------- VAImage ------------------------------- *)

(* v4l2sl_create_image: one plane of Y U Y V, or luma and then chroma.     *)
Image(fourcc, pitch, h) ==
  [fourcc |-> fourcc, pitch |-> pitch,
   chroma |-> IF fourcc \in Packed THEN 0 ELSE pitch * h,
   size |-> IF fourcc \in Packed THEN pitch * h ELSE (pitch * h * 3) \div 2]

(* Where the client reads component c of a picture in an image.            *)
AddressIn(image, c) ==
  IF image.fourcc \in Packed
  THEN c[3] * image.pitch + (IF c[1] = "Y" THEN 2 * c[2] ELSE 2 * c[2] + 1)
  ELSE (IF c[1] = "Y" THEN 0 ELSE image.chroma) + c[3] * image.pitch + c[2]

(* Components of a picture; 4:2:0 has half as many chroma rows.            *)
Components(w, h, fourcc) ==
  ({"Y"} \X (0 .. w - 1) \X (0 .. h - 1))
  \cup ({"C"} \X (0 .. 2 * ((w + 1) \div 2) - 1)
             \X (0 .. (IF fourcc \in Packed THEN h ELSE (h + 1) \div 2) - 1))

(* ------------------------------ converters ----------------------------- *)

Smaller(a, b) == IF a <= b THEN a ELSE b

(* Where component c is in a plane pair of the given stride and luma rows. *)
PlaneAddress(stride, rows, c) ==
  (IF c[1] = "Y" THEN 0 ELSE stride * rows) + c[3] * stride + c[2]

(* v4l2sl_copy_nv12 and v4l2sl_nv15_to_p010.                               *)
CopyPlanes(dstStride, srcStride, srcRows, w, h) ==
  {<<PlaneAddress(dstStride, h, c), PlaneAddress(srcStride, srcRows, c)>> :
     c \in ({"Y"} \X (0 .. w - 1) \X (0 .. Smaller(h, srcRows) - 1))
           \cup ({"C"} \X (0 .. w - 1) \X (0 .. Smaller(h \div 2, srcRows \div 2) - 1))}

(* mutant: the chroma row of a 4:2:0 picture *)
UvRowHalved(y) == y \div 2
UvRow(y) == y

(* v4l2sl_nv16_to_yuy2 and v4l2sl_nv20_to_y210: pairs, and an odd last     *)
(* pixel doubled; v4l2sl_nv20_to_yuy2 leaves that pixel out.               *)
PackPairs(dstStride, srcStride, srcRows, w, h, oddPixel) ==
  LET pairs == IF oddPixel THEN (w + 1) \div 2 ELSE w \div 2
      Luma(x) == IF x < w THEN x ELSE w - 1
      src(p, x, y) == PlaneAddress(srcStride, srcRows, <<p, x, y>>)
      Copies(i, y) ==
        LET d == y * dstStride + 4 * i
            second == IF 2 * i + 1 < w THEN 2 * i + 1 ELSE 2 * i
        IN {<<d, src("Y", 2 * i, y)>>, <<d + 1, src("C", 2 * i, UvRow(y))>>,
            <<d + 2, src("Y", Luma(2 * i + 1), y)>>, <<d + 3, src("C", second, UvRow(y))>>}
  IN UNION {Copies(i, y) : i \in 0 .. pairs - 1, y \in 0 .. Smaller(h, srcRows) - 1}

(* The conversion v4l2sl_get_image chooses, or the empty set of copies and *)
(* an error where there is no path.                                        *)
GetImageCopies(capture, image, srcStride, srcRows, w, h) ==
  IF <<capture, image.fourcc>> \notin Paths THEN {}
  ELSE IF image.fourcc \in Packed
  THEN PackPairs(image.pitch, srcStride, srcRows, w, h,
                 <<capture, image.fourcc>> # <<"NV20", "YUY2">>)
  ELSE CopyPlanes(image.pitch, srcStride, srcRows, w, h)

(* v4l2sl_put_image: NV12 only, the rows of both sides taken as those of   *)
(* the blit.                                                               *)
PutImageCopies(image, dstStride, w, h) ==
  CopyPlanes(dstStride, image.pitch, h, w, h)
=============================================================================
